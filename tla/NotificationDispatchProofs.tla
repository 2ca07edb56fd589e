--------------------- MODULE NotificationDispatchProofs ---------------------
(* Theorems about NotificationDispatch for every set of tasks and tokens,    *)
(* every finite number of handlers and every number of faults.               *)
EXTENDS NotificationDispatch, FiniteSetTheorems, TLAPS

USE DispatchAssumption

(* A pending row is open for the device of a handler at one of these stages. *)
Open == {"send", "sent", "delete", "failed"}
OpenRows(t) == Cardinality({w \in Workers : h[w].task = t /\ h[w].stage \in Open})

(* Ids are given out in order, so a row that is gone does not come back.     *)
Known(d) == d[2] <= ids[Token(d)]
OnePerToken(S) == \A d, e \in S : Token(d) = Token(e) => d = e

(* A handler goes through rows that existed, one per token.                  *)
ListInv(w) ==
    /\ \A d \in h[w].todo : Known(d)
    /\ OnePerToken(h[w].todo)
    /\ h[w].stage \in Open =>
          /\ h[w].device \in Devices /\ Known(h[w].device)
          /\ \A d \in h[w].todo : Token(d) # Token(h[w].device)
    /\ h[w].stage = "delete" => Token(h[w].device) \notin installed

(* A task is held exactly while it is out, by a handler that runs it.        *)
HeldInv(t) ==
    /\ task[t].state = "out" <=> task[t].holder # NoWorker
    /\ task[t].holder # NoWorker =>
          h[task[t].holder].task = t /\ h[task[t].holder].stage # "idle"

TypeInv ==
    /\ TypeOK
    /\ \A t \in Tasks : rows[t]["pending"] >= OpenRows(t)
    /\ \A d \in registered : Known(d)
    /\ OnePerToken(registered)
    /\ \A t \in Tasks : \A d \in listed[t] : Known(d)
    /\ \A w \in Workers : ListInv(w)
    /\ \A t \in Tasks : HeldInv(t)

TaskRow == [state: States, attempts: Nat, holder: Workers \cup {NoWorker}]

LEMMA IdleType ==
  /\ Idle \in Invocation /\ Idle.stage = "idle" /\ Idle.todo = {} /\ Idle.task \in Tasks
<1>1. (CHOOSE t \in Tasks : TRUE) \in Tasks
  OBVIOUS
<1> QED BY <1>1 DEF Idle, Invocation, Stages

LEMMA DeviceType ==
  ASSUME NEW d \in Devices
  PROVE  Token(d) \in Tokens /\ d[2] \in 1..MaxIds /\ d = <<Token(d), d[2]>>
  BY DEF Devices, Token

(* What the parts of the actions do, as plain facts.                         *)
LEMMA StepFacts ==
  ASSUME TypeOK, NEW w \in Workers, NEW stage \in Stages, Step(w, stage)
  PROVE  /\ h' \in [Workers -> Invocation] /\ \A v \in Workers \ {w} : h'[v] = h[v]
         /\ h'[w].stage = stage /\ h'[w].task = h[w].task /\ h'[w].todo = h[w].todo
         /\ h'[w].device = h[w].device /\ h'[w].shouldRetry = h[w].shouldRetry
         /\ task' = task
<1> DEFINE call == [h[w] EXCEPT !.stage = stage]
<1>1. h' = [h EXCEPT ![w] = call] /\ h[w] \in Invocation /\ task' = task
  BY DEF Step, TypeOK
<1>2. /\ call \in Invocation
      /\ call.stage = stage /\ call.task = h[w].task /\ call.todo = h[w].todo
      /\ call.device = h[w].device /\ call.shouldRetry = h[w].shouldRetry
  BY <1>1 DEF Invocation
<1> HIDE DEF call
<1> QED BY <1>1, <1>2 DEF TypeOK

LEMMA RetryFacts ==
  ASSUME TypeOK, NEW w \in Workers, Retry(w)
  PROVE  /\ h' \in [Workers -> Invocation] /\ \A v \in Workers \ {w} : h'[v] = h[v]
         /\ h'[w].stage = "failed" /\ h'[w].task = h[w].task /\ h'[w].todo = h[w].todo
         /\ h'[w].device = h[w].device /\ h'[w].shouldRetry = TRUE
         /\ task' = task
<1> DEFINE call == [h[w] EXCEPT !.shouldRetry = TRUE, !.stage = "failed"]
<1>1. h' = [h EXCEPT ![w] = call] /\ h[w] \in Invocation /\ task' = task
  BY DEF Retry, TypeOK
<1>2. /\ call \in Invocation
      /\ call.stage = "failed" /\ call.task = h[w].task /\ call.todo = h[w].todo
      /\ call.device = h[w].device /\ call.shouldRetry = TRUE
  BY <1>1 DEF Invocation, Stages
<1> HIDE DEF call
<1> QED BY <1>1, <1>2 DEF TypeOK

LEMMA PendingFacts ==
  ASSUME TypeOK, NEW w \in Workers, NEW d \in h[w].todo,
         h' = [h EXCEPT ![w] = [h[w] EXCEPT !.device = d, !.todo = h[w].todo \ {d}, !.stage = "send"]],
         UNCHANGED task
  PROVE  /\ h' \in [Workers -> Invocation] /\ \A v \in Workers \ {w} : h'[v] = h[v]
         /\ h'[w].stage = "send" /\ h'[w].task = h[w].task /\ h'[w].todo = h[w].todo \ {d}
         /\ h'[w].device = d /\ h'[w].shouldRetry = h[w].shouldRetry
         /\ task' = task /\ d \in Devices
<1> DEFINE call == [h[w] EXCEPT !.device = d, !.todo = h[w].todo \ {d}, !.stage = "send"]
<1>1. h' = [h EXCEPT ![w] = call] /\ h[w] \in Invocation /\ task' = task
  BY DEF TypeOK
<1>2. /\ call \in Invocation /\ d \in Devices
      /\ call.stage = "send" /\ call.task = h[w].task /\ call.todo = h[w].todo \ {d}
      /\ call.device = d /\ call.shouldRetry = h[w].shouldRetry
  BY <1>1 DEF Invocation, Stages
<1> HIDE DEF call
<1> QED BY <1>1, <1>2 DEF TypeOK

LEMMA AnswerFacts ==
  ASSUME TypeOK, NEW w \in Workers, NEW state \in States, Answer(w, state)
  PROVE  /\ h' \in [Workers -> Invocation] /\ \A v \in Workers \ {w} : h'[v] = h[v]
         /\ h'[w].stage = "idle" /\ h'[w].todo = {}
         /\ task' \in [Tasks -> TaskRow]
         /\ \A t \in Tasks : IF task[t].holder = w
                             THEN task'[t].state = state /\ task'[t].holder = NoWorker
                             ELSE task'[t] = task[t]
<1>1. h'[w] = Idle /\ h' \in [Workers -> Invocation] /\ \A v \in Workers \ {w} : h'[v] = h[v]
  BY IdleType DEF Answer, TypeOK
<1>2. task' = [t \in Tasks |->
                 IF task[t].holder = w
                 THEN [state |-> state, attempts |-> task[t].attempts, holder |-> NoWorker]
                 ELSE task[t]]
  BY DEF Answer
<1>3. ASSUME NEW t \in Tasks PROVE task[t] \in TaskRow
  BY DEF TypeOK, TaskRow
<1>4. ASSUME NEW t \in Tasks
      PROVE  /\ task'[t] \in TaskRow
             /\ IF task[t].holder = w THEN task'[t].state = state /\ task'[t].holder = NoWorker
                                      ELSE task'[t] = task[t]
  BY <1>2, <1>3 DEF TaskRow
<1> QED BY <1>1, <1>2, <1>4, IdleType

LEMMA SpendFacts ==
  ASSUME TypeOK, NEW kind \in Faults, Spend(kind)
  PROVE  /\ spent' \in [Faults -> Nat] /\ spent'[kind] = spent[kind] + 1
         /\ \A k \in Faults \ {kind} : spent'[k] = spent[k]
  BY DEF Spend, TypeOK

LEMMA DeliverFacts ==
  ASSUME TypeOK, NEW w \in Workers, NEW t \in Tasks, Deliver(w, t)
  PROVE  /\ h' \in [Workers -> Invocation] /\ \A v \in Workers \ {w} : h'[v] = h[v]
         /\ h'[w].stage = "coupon" /\ h'[w].task = t /\ h'[w].todo = {} /\ h[w].stage = "idle"
         /\ task' \in [Tasks -> TaskRow]
         /\ task'[t].state = "out" /\ task'[t].holder = w /\ task[t].state = "ready"
         /\ \A n \in Tasks \ {t} : task'[n] = task[n]
         /\ UNCHANGED <<userVars, rowVars, history, spent>>
<1> DEFINE call == [Idle EXCEPT !.stage = "coupon", !.task = t]
<1>1. call \in Invocation /\ call.stage = "coupon" /\ call.task = t /\ call.todo = {}
  BY IdleType DEF Invocation, Stages
<1>2. h' = [h EXCEPT ![w] = call]
  BY DEF Deliver
<1> HIDE DEF call
<1>3. [state |-> "out", attempts |-> task[t].attempts + 1, holder |-> w] \in TaskRow
  BY DEF TypeOK, States, TaskRow
<1>4. task \in [Tasks -> TaskRow]
  BY DEF TypeOK, TaskRow
<1> QED BY <1>1, <1>2, <1>3, <1>4 DEF Deliver, TypeOK, At

LEMMA QueueFacts ==
  ASSUME TypeOK, NEW t \in Tasks, Redeliver(t) \/ Exhaust(t)
  PROVE  /\ task' \in [Tasks -> TaskRow]
         /\ \A n \in Tasks \ {t} : task'[n] = task[n]
         /\ UNCHANGED <<userVars, h, rowVars, history>>
         /\ \/ /\ Spend("redeliver") /\ task[t].state \in {"out", "done"}
               /\ task'[t].state = "ready" /\ task'[t].holder = NoWorker
            \/ /\ UNCHANGED spent /\ task[t].state = "ready"
               /\ task'[t].state = "dropped" /\ task'[t].holder = task[t].holder
<1>0. task \in [Tasks -> TaskRow] /\ task[t] \in TaskRow
  BY DEF TypeOK, TaskRow
<1>1. CASE Exhaust(t)
  <2> DEFINE row == [task[t] EXCEPT !.state = "dropped"]
  <2>1. /\ task' = [task EXCEPT ![t] = row] /\ task[t].state = "ready"
        /\ UNCHANGED <<userVars, h, rowVars, history, spent>>
    BY <1>1 DEF Exhaust
  <2>2. row \in TaskRow /\ row.state = "dropped" /\ row.holder = task[t].holder
    BY <1>0 DEF TaskRow, States
  <2> HIDE DEF row
  <2> QED BY <1>0, <2>1, <2>2
<1>2. CASE Redeliver(t)
  <2> DEFINE row == [task[t] EXCEPT !.state = "ready", !.holder = NoWorker]
  <2>1. /\ task' = [task EXCEPT ![t] = row] /\ task[t].state \in {"out", "done"}
        /\ Spend("redeliver") /\ UNCHANGED <<userVars, h, rowVars, history>>
    BY <1>2 DEF Redeliver
  <2>2. row \in TaskRow /\ row.state = "ready" /\ row.holder = NoWorker
    BY <1>0 DEF TaskRow, States
  <2> HIDE DEF row
  <2> QED BY <1>0, <2>1, <2>2
<1> QED BY <1>1, <1>2

-----------------------------------------------------------------------------
(* Counting handlers: a step of one of them moves only it.                   *)
In(x, S) == IF x \in S THEN 1 ELSE 0

LEMMA OneMoves ==
  ASSUME NEW A \in SUBSET Workers, NEW B \in SUBSET Workers, NEW w, A \ {w} = B \ {w}
  PROVE  /\ Cardinality(A) \in Nat /\ Cardinality(B) \in Nat
         /\ Cardinality(B) = Cardinality(A) + In(w, B) - In(w, A)
<1>1. IsFiniteSet(A) /\ IsFiniteSet(B)
  BY FS_Subset
<1>2. Cardinality(A) \in Nat /\ Cardinality(B) \in Nat
  BY <1>1, FS_CardinalityType
<1>3. CASE w \in A /\ w \in B
  <2>1. A = B
    BY <1>3
  <2> QED BY <1>2, <1>3, <2>1 DEF In
<1>4. CASE w \in A /\ w \notin B
  <2>1. B = A \ {w}
    BY <1>4
  <2> QED BY <1>1, <1>2, <1>4, <2>1, FS_RemoveElement DEF In
<1>5. CASE w \notin A /\ w \in B
  <2>1. A = B \ {w}
    BY <1>5
  <2> QED BY <1>1, <1>2, <1>5, <2>1, FS_RemoveElement DEF In
<1>6. CASE w \notin A /\ w \notin B
  <2>1. A = B
    BY <1>6
  <2> QED BY <1>2, <1>6, <2>1 DEF In
<1> QED BY <1>3, <1>4, <1>5, <1>6

LEMMA OpenType == \A t : OpenRows(t) \in Nat
  BY FS_Subset, FS_CardinalityType DEF OpenRows

LEMMA OpenStep ==
  ASSUME NEW w \in Workers, \A v \in Workers \ {w} : h'[v] = h[v], NEW t
  PROVE  OpenRows(t)' = OpenRows(t)
                          + (IF h'[w].task = t THEN In(h'[w].stage, Open) ELSE 0)
                          - (IF h[w].task = t THEN In(h[w].stage, Open) ELSE 0)
<1> DEFINE A == {v \in Workers : h[v].task = t /\ h[v].stage \in Open}
           B == {v \in Workers : h'[v].task = t /\ h'[v].stage \in Open}
<1>1. A \in SUBSET Workers /\ B \in SUBSET Workers /\ A \ {w} = B \ {w}
  OBVIOUS
<1>2. /\ In(w, A) = IF h[w].task = t THEN In(h[w].stage, Open) ELSE 0
      /\ In(w, B) = IF h'[w].task = t THEN In(h'[w].stage, Open) ELSE 0
  BY DEF In
<1>3. OpenRows(t) = Cardinality(A) /\ OpenRows(t)' = Cardinality(B)
  BY DEF OpenRows
<1> HIDE DEF A, B
<1> QED BY <1>1, <1>2, <1>3, OneMoves

(* A handler that goes on keeps its task, one that answers is idle.          *)
Turns(w) ==
    /\ h[w].stage # "idle"
    /\ \/ /\ h' \in [Workers -> Invocation] /\ \A v \in Workers \ {w} : h'[v] = h[v]
          /\ h'[w].task = h[w].task /\ h'[w].stage # "idle" /\ task' = task
       \/ Answer(w, "done") \/ Answer(w, "ready")

LEMMA TurnFacts ==
  ASSUME TypeInv, NEW w \in Workers, Turns(w)
  PROVE  /\ h' \in [Workers -> Invocation] /\ \A v \in Workers \ {w} : h'[v] = h[v]
         /\ task' \in [Tasks -> TaskRow]
         /\ \A t \in Tasks : HeldInv(t)'
         /\ h'[w].task = h[w].task \/ (h'[w].stage = "idle" /\ h'[w].todo = {})
<1>0. TypeOK /\ task \in [Tasks -> TaskRow]
  BY DEF TypeInv, TypeOK, TaskRow
<1>1. CASE /\ h' \in [Workers -> Invocation] /\ \A v \in Workers \ {w} : h'[v] = h[v]
           /\ h'[w].task = h[w].task /\ h'[w].stage # "idle" /\ task' = task
  <2>1. ASSUME NEW t \in Tasks PROVE HeldInv(t)'
    <3>1. HeldInv(t) /\ task[t].holder \in Workers \cup {NoWorker}
      BY <1>0 DEF TypeInv, TaskRow
    <3>2. task'[t] = task[t]
      BY <1>1
    <3>3. ASSUME NEW v \in Workers, h[v].task = t, h[v].stage # "idle"
          PROVE  h'[v].task = t /\ h'[v].stage # "idle"
      BY <1>1, <3>3
    <3> QED BY <3>1, <3>2, <3>3 DEF HeldInv
  <2> QED BY <1>0, <1>1, <2>1
<1>2. CASE Answer(w, "done") \/ Answer(w, "ready")
  <2>1. PICK state \in {"done", "ready"} : Answer(w, state)
    BY <1>2
  <2>2. state \in States
    BY DEF States
  <2>3. /\ h' \in [Workers -> Invocation] /\ \A v \in Workers \ {w} : h'[v] = h[v]
        /\ h'[w].stage = "idle" /\ h'[w].todo = {}
        /\ task' \in [Tasks -> TaskRow]
        /\ \A t \in Tasks : IF task[t].holder = w
                             THEN task'[t].state = state /\ task'[t].holder = NoWorker
                             ELSE task'[t] = task[t]
    BY <1>0, <2>1, <2>2, AnswerFacts
  <2>4. ASSUME NEW t \in Tasks PROVE HeldInv(t)'
    <3>1. HeldInv(t) /\ task[t].holder \in Workers \cup {NoWorker}
      BY <1>0 DEF TypeInv, TaskRow
    <3>2. CASE task[t].holder = w
      BY <2>3, <3>2 DEF HeldInv
    <3>3. CASE task[t].holder # w
      BY <2>3, <3>1, <3>3 DEF HeldInv
    <3> QED BY <3>2, <3>3
  <2> QED BY <2>3, <2>4
<1> QED BY <1>1, <1>2 DEF Turns

(* A turn that takes no id, and leaves its own list in order.                *)
LEMMA TurnStep ==
  ASSUME TypeInv, NEW w \in Workers, Turns(w), ListInv(w)',
         UNCHANGED <<enabled, ids, installed>>, spent' \in [Faults -> Nat],
         delivered' \in [Tasks -> [Tokens -> Nat]],
         listed' \in [Tasks -> SUBSET Devices], \A t \in Tasks : \A d \in listed'[t] : Known(d),
         registered' \subseteq registered, sentTo' \in [Tasks -> SUBSET registered'],
         rows' \in [Tasks -> [Statuses -> Nat]],
         \A t \in Tasks : rows'[t]["pending"] >= OpenRows(t)'
  PROVE  TypeInv'
<1>1. /\ h' \in [Workers -> Invocation] /\ \A v \in Workers \ {w} : h'[v] = h[v]
      /\ task' \in [Tasks -> TaskRow] /\ \A t \in Tasks : HeldInv(t)'
  BY TurnFacts
<1>2. TypeOK'
  BY <1>1 DEF TypeInv, TypeOK, TaskRow
<1>3. ASSUME NEW v \in Workers PROVE ListInv(v)'
  <2>1. CASE v = w
    BY <2>1
  <2>2. CASE v # w
    <3>1. h'[v] = h[v] /\ ListInv(v)
      BY <1>1, <2>2 DEF TypeInv
    <3> QED BY <3>1 DEF ListInv, Known
  <2> QED BY <2>1, <2>2
<1>4. \A d \in registered' : Known(d)'
  BY DEF TypeInv, Known
<1>5. OnePerToken(registered')
  BY DEF TypeInv, OnePerToken
<1>6. \A t \in Tasks : \A d \in listed'[t] : Known(d)'
  BY DEF Known
<1> QED BY <1>1, <1>2, <1>3, <1>4, <1>5, <1>6 DEF TypeInv

LEMMA RowFacts ==
  ASSUME TypeOK, NEW t \in Tasks
  PROVE  /\ \A status \in Statuses : AddRow(t, status) =>
               /\ rows' \in [Tasks -> [Statuses -> Nat]]
               /\ rows'[t]["pending"] = rows[t]["pending"] + (IF status = "pending" THEN 1 ELSE 0)
               /\ \A n \in Tasks \ {t} : rows'[n] = rows[n]
         /\ \A status \in {"sent", "failed"} :
               MoveRow(t, status) /\ rows[t]["pending"] >= 1 =>
                  /\ rows' \in [Tasks -> [Statuses -> Nat]]
                  /\ rows'[t]["pending"] = rows[t]["pending"] - 1
                  /\ \A n \in Tasks \ {t} : rows'[n] = rows[n]
<1>0. rows \in [Tasks -> [Statuses -> Nat]] /\ rows[t] \in [Statuses -> Nat]
  BY DEF TypeOK
<1>1. ASSUME NEW status \in Statuses, AddRow(t, status)
      PROVE  /\ rows' \in [Tasks -> [Statuses -> Nat]]
             /\ rows'[t]["pending"] = rows[t]["pending"] + (IF status = "pending" THEN 1 ELSE 0)
             /\ \A n \in Tasks \ {t} : rows'[n] = rows[n]
  <2> DEFINE row == [rows[t] EXCEPT ![status] = rows[t][status] + 1]
  <2>1. rows' = [rows EXCEPT ![t] = row]
    BY <1>1 DEF AddRow
  <2>2. row \in [Statuses -> Nat]
        /\ row["pending"] = rows[t]["pending"] + (IF status = "pending" THEN 1 ELSE 0)
    BY <1>0 DEF Statuses
  <2> HIDE DEF row
  <2> QED BY <1>0, <2>1, <2>2
<1>2. ASSUME NEW status \in {"sent", "failed"}, MoveRow(t, status), rows[t]["pending"] >= 1
      PROVE  /\ rows' \in [Tasks -> [Statuses -> Nat]]
             /\ rows'[t]["pending"] = rows[t]["pending"] - 1
             /\ \A n \in Tasks \ {t} : rows'[n] = rows[n]
  <2> DEFINE open == [rows[t] EXCEPT !["pending"] = rows[t]["pending"] - 1]
             row == [open EXCEPT ![status] = open[status] + 1]
  <2>1. rows' = [rows EXCEPT ![t] = row]
    BY <1>0, <1>2 DEF MoveRow, Statuses
  <2>2. open \in [Statuses -> Nat] /\ open["pending"] = rows[t]["pending"] - 1
    BY <1>0, <1>2 DEF Statuses
  <2> HIDE DEF open
  <2>3. row \in [Statuses -> Nat] /\ row["pending"] = rows[t]["pending"] - 1
    BY <2>2 DEF Statuses
  <2> HIDE DEF row
  <2> QED BY <1>0, <2>1, <2>3
<1> QED BY <1>1, <1>2

(* Rows stay open while no handler opens one and none is moved.              *)
LEMMA OpenKept ==
  ASSUME TypeInv, NEW w \in Workers, Turns(w), h'[w].stage \in Open => h[w].stage \in Open,
         NEW t \in Tasks, rows'[t]["pending"] = rows[t]["pending"]
  PROVE  rows'[t]["pending"] >= OpenRows(t)'
<1>1. /\ \A v \in Workers \ {w} : h'[v] = h[v]
      /\ h'[w].task = h[w].task \/ h'[w].stage = "idle"
  BY TurnFacts
<1>2. OpenRows(t)' = OpenRows(t)
                       + (IF h'[w].task = t THEN In(h'[w].stage, Open) ELSE 0)
                       - (IF h[w].task = t THEN In(h[w].stage, Open) ELSE 0)
  BY <1>1, OpenStep
<1>3. OpenRows(t) \in Nat /\ rows[t]["pending"] >= OpenRows(t) /\ rows[t]["pending"] \in Nat
  BY OpenType DEF TypeInv, TypeOK, Statuses
<1>4. (IF h'[w].task = t THEN In(h'[w].stage, Open) ELSE 0)
        <= (IF h[w].task = t THEN In(h[w].stage, Open) ELSE 0)
  BY <1>1 DEF In, Open
<1>5. /\ (IF h'[w].task = t THEN In(h'[w].stage, Open) ELSE 0) \in {0, 1}
      /\ (IF h[w].task = t THEN In(h[w].stage, Open) ELSE 0) \in {0, 1}
  BY DEF In
<1> QED BY <1>2, <1>3, <1>4, <1>5

(* A handler with an open row closes it.                                     *)
LEMMA OpenMoved ==
  ASSUME TypeInv, NEW w \in Workers, Turns(w), h[w].stage \in Open, h'[w].stage \notin Open,
         h[w].task \in Tasks, NEW status \in {"sent", "failed"}, MoveRow(h[w].task, status)
  PROVE  /\ rows' \in [Tasks -> [Statuses -> Nat]]
         /\ \A t \in Tasks : rows'[t]["pending"] >= OpenRows(t)'
<1>1. /\ \A v \in Workers \ {w} : h'[v] = h[v]
      /\ h'[w].task = h[w].task \/ h'[w].stage = "idle"
  BY TurnFacts
<1>2. ASSUME NEW t \in Tasks
      PROVE  /\ OpenRows(t)' = IF h[w].task = t THEN OpenRows(t) - 1 ELSE OpenRows(t)
             /\ OpenRows(t) \in Nat /\ rows[t]["pending"] >= OpenRows(t)
             /\ rows[t]["pending"] \in Nat
  <2>1. OpenRows(t)' = OpenRows(t)
                       + (IF h'[w].task = t THEN In(h'[w].stage, Open) ELSE 0)
                       - (IF h[w].task = t THEN In(h[w].stage, Open) ELSE 0)
    BY <1>1, OpenStep
  <2>2. In(h'[w].stage, Open) = 0 /\ In(h[w].stage, Open) = 1
    BY DEF In
  <2>3. OpenRows(t) \in Nat
    BY OpenType
  <2> QED BY <2>1, <2>2, <2>3 DEF TypeInv, TypeOK, Statuses
<1>3. rows[h[w].task]["pending"] >= 1
  <2>1. IsFiniteSet({v \in Workers : h[v].task = h[w].task /\ h[v].stage \in Open})
    BY FS_Subset
  <2>2. {v \in Workers : h[v].task = h[w].task /\ h[v].stage \in Open} # {}
    OBVIOUS
  <2>3. OpenRows(h[w].task) # 0
    BY <2>1, <2>2, FS_EmptySet DEF OpenRows
  <2> QED BY <1>2, <2>3
<1>4. /\ rows' \in [Tasks -> [Statuses -> Nat]]
      /\ rows'[h[w].task]["pending"] = rows[h[w].task]["pending"] - 1
      /\ \A n \in Tasks \ {h[w].task} : rows'[n] = rows[n]
  <2>1. TypeOK
    BY DEF TypeInv
  <2> QED BY <1>3, <2>1, RowFacts
<1>5. ASSUME NEW t \in Tasks PROVE rows'[t]["pending"] >= OpenRows(t)'
  <2>1. CASE t = h[w].task
    BY <1>2, <1>4, <2>1
  <2>2. CASE t # h[w].task
    BY <1>2, <1>4, <2>2
  <2> QED BY <2>1, <2>2
<1> QED BY <1>4, <1>5

(* A turn that changes neither devices nor rows, as most do.                 *)
LEMMA PlainTurn ==
  ASSUME TypeInv, NEW w \in Workers, Turns(w), ListInv(w)',
         h'[w].stage \in Open => h[w].stage \in Open,
         UNCHANGED <<userVars, rowVars, listed>>, delivered' \in [Tasks -> [Tokens -> Nat]],
         spent' \in [Faults -> Nat]
  PROVE  TypeInv'
<1>1. UNCHANGED <<enabled, registered, ids, installed, rows, sentTo, listed>>
  BY DEF userVars, rowVars
<1>2. \A t \in Tasks : rows'[t]["pending"] >= OpenRows(t)'
  BY <1>1, OpenKept
<1>3. /\ registered' \subseteq registered /\ sentTo' \in [Tasks -> SUBSET registered']
      /\ rows' \in [Tasks -> [Statuses -> Nat]]
      /\ listed' \in [Tasks -> SUBSET Devices] /\ \A t \in Tasks : \A d \in listed'[t] : Known(d)
  BY <1>1 DEF TypeInv, TypeOK
<1> QED BY <1>1, <1>2, <1>3, TurnStep

LEMMA HandlerTypes ==
  ASSUME TypeInv, NEW w \in Workers, Handler(w) \/ Fail(w)
  PROVE  TypeInv' /\ Turns(w)
<1>0. /\ TypeOK /\ ListInv(w) /\ h[w] \in Invocation /\ spent \in [Faults -> Nat]
      /\ delivered \in [Tasks -> [Tokens -> Nat]]
  BY DEF TypeInv, TypeOK
<1>a. ASSUME NEW state \in {"done", "ready"}, Answer(w, state), h[w].stage # "idle"
      PROVE  /\ Turns(w) /\ ListInv(w)' /\ h'[w].stage = "idle" /\ h'[w].todo = {}
             /\ h'[w].stage \notin Open
  <2>1. state \in States
    BY DEF States
  <2>2. h'[w].stage = "idle" /\ h'[w].todo = {}
    BY <1>0, <1>a, <2>1, AnswerFacts
  <2> QED BY <1>a, <2>2 DEF ListInv, OnePerToken, Open, Turns
<1>b. ASSUME NEW stage \in Stages \ {"idle"}, Step(w, stage), h[w].stage # "idle",
             UNCHANGED <<ids, installed>>,
             stage \in Open => h[w].stage \in Open,
             stage = "delete" => Token(h[w].device) \notin installed
      PROVE  Turns(w) /\ ListInv(w)' /\ h'[w].stage = stage
  <2>1. /\ h' \in [Workers -> Invocation] /\ \A v \in Workers \ {w} : h'[v] = h[v]
        /\ h'[w].stage = stage /\ h'[w].task = h[w].task /\ h'[w].todo = h[w].todo
        /\ h'[w].device = h[w].device /\ task' = task
    BY <1>0, <1>b, StepFacts
  <2>2. Turns(w)
    BY <1>b, <2>1 DEF Turns
  <2> QED BY <1>0, <1>b, <2>1, <2>2 DEF ListInv, Known
<1>1. CASE LoadCoupon(w)
  <2>1. /\ h[w].stage = "coupon" /\ UNCHANGED <<userVars, rowVars, delivered, listed, spent>>
        /\ (Step(w, "devices") \/ Step(w, "disabled"))
    BY <1>1 DEF LoadCoupon, At, history
  <2>2. UNCHANGED <<ids, installed>>
    BY <2>1 DEF userVars
  <2>3. PICK stage \in {"devices", "disabled"} : Step(w, stage)
    BY <2>1
  <2>4. Turns(w) /\ ListInv(w)' /\ h'[w].stage = stage
    BY <1>b, <2>1, <2>2, <2>3 DEF Stages, Open
  <2> QED BY <1>0, <2>1, <2>3, <2>4, PlainTurn DEF Open
<1>2. CASE SkipDisabled(w)
  <2>1. /\ h[w].stage = "disabled" /\ Answer(w, "done") /\ AddRow(h[w].task, "skipped_disabled")
        /\ UNCHANGED <<enabled, registered, ids, installed, sentTo, delivered, listed, spent>>
    BY <1>2 DEF SkipDisabled, At, Return, userVars, history
  <2>2. Turns(w) /\ ListInv(w)' /\ h'[w].stage \notin Open
    BY <1>a, <2>1
  <2>3. h[w].task \in Tasks /\ "skipped_disabled" \in Statuses
    BY <1>0 DEF Invocation, Statuses
  <2>4. /\ rows' \in [Tasks -> [Statuses -> Nat]]
        /\ rows'[h[w].task]["pending"] = rows[h[w].task]["pending"]
        /\ \A n \in Tasks \ {h[w].task} : rows'[n] = rows[n]
    <3>1. rows[h[w].task]["pending"] \in Nat
      BY <1>0, <2>3 DEF TypeOK, Statuses
    <3>2. /\ rows' \in [Tasks -> [Statuses -> Nat]]
          /\ rows'[h[w].task]["pending"] = rows[h[w].task]["pending"]
                                            + (IF "skipped_disabled" = "pending" THEN 1 ELSE 0)
          /\ \A n \in Tasks \ {h[w].task} : rows'[n] = rows[n]
      BY <1>0, <2>1, <2>3, RowFacts
    <3> QED BY <3>1, <3>2
  <2>5. \A t \in Tasks : rows'[t]["pending"] >= OpenRows(t)'
    <3>1. \A t \in Tasks : rows'[t]["pending"] = rows[t]["pending"]
      BY <2>4
    <3> QED BY <2>2, <3>1, OpenKept
  <2>6. /\ registered' \subseteq registered /\ sentTo' \in [Tasks -> SUBSET registered']
        /\ listed' \in [Tasks -> SUBSET Devices] /\ \A t \in Tasks : \A d \in listed'[t] : Known(d)
    BY <2>1 DEF TypeInv, TypeOK
  <2> QED BY <1>0, <2>1, <2>2, <2>4, <2>5, <2>6, TurnStep
<1>3. CASE FindDevices(w)
  <2>1. /\ h[w].stage = "devices"
        /\ UNCHANGED <<enabled, registered, ids, installed, rows, sentTo, delivered, spent>>
        /\ listed' = [t \in Tasks |-> IF task[t].holder = w THEN listed[t] \cup registered
                                                           ELSE listed[t]]
    BY <1>3 DEF FindDevices, At, userVars, rowVars
  <2>2. /\ Turns(w) /\ ListInv(w)' /\ h'[w].stage \notin Open
    <3>1. CASE registered = {}
      <4>1. Answer(w, "done")
        BY <1>3, <3>1 DEF FindDevices, Return
      <4> QED BY <1>a, <2>1, <4>1
    <3>2. CASE registered # {}
      <4> DEFINE call == [h[w] EXCEPT !.todo = registered, !.stage = "history"]
      <4>1. h' = [h EXCEPT ![w] = call] /\ task' = task
        BY <1>3, <3>2 DEF FindDevices
      <4>2. /\ call \in Invocation
            /\ call.stage = "history" /\ call.task = h[w].task /\ call.todo = registered
        BY <1>0 DEF Invocation, Stages, TypeOK
      <4> HIDE DEF call
      <4>3. /\ h' \in [Workers -> Invocation] /\ \A v \in Workers \ {w} : h'[v] = h[v]
            /\ h'[w].stage = "history" /\ h'[w].task = h[w].task /\ h'[w].todo = registered
        BY <1>0, <4>1, <4>2 DEF TypeOK
      <4> QED BY <2>1, <4>1, <4>3 DEF Turns, ListInv, TypeInv, Open, Known
    <3> QED BY <3>1, <3>2
  <2>3. /\ registered' \subseteq registered /\ sentTo' \in [Tasks -> SUBSET registered']
        /\ listed' \in [Tasks -> SUBSET Devices] /\ rows' \in [Tasks -> [Statuses -> Nat]]
        /\ \A t \in Tasks : \A d \in listed'[t] : Known(d)
    BY <2>1 DEF TypeInv, TypeOK
  <2>4. \A t \in Tasks : rows'[t]["pending"] >= OpenRows(t)'
    BY <2>1, <2>2, OpenKept
  <2> QED BY <1>0, <2>1, <2>2, <2>3, <2>4, TurnStep
<1>4. CASE FindSentDevices(w)
  <2> DEFINE S == h[w].todo \ sentTo[h[w].task]
  <2>1. /\ h[w].stage = "history" /\ UNCHANGED <<userVars, task, rowVars, delivered, listed, spent>>
        /\ h' = [h EXCEPT ![w] = [h[w] EXCEPT !.todo = S, !.stage = "loop"]]
    BY <1>4 DEF FindSentDevices, At, history
  <2>2. S \in SUBSET Devices /\ S \subseteq h[w].todo /\ "loop" \in Stages
    BY <1>0 DEF Invocation, Stages
  <2> HIDE DEF S
  <2>3. /\ h' \in [Workers -> Invocation] /\ \A v \in Workers \ {w} : h'[v] = h[v]
        /\ h'[w].stage = "loop" /\ h'[w].task = h[w].task /\ h'[w].todo = S /\ task' = task
    <3> DEFINE call == [h[w] EXCEPT !.todo = S, !.stage = "loop"]
    <3>1. h' = [h EXCEPT ![w] = call] /\ task' = task
      BY <2>1
    <3>2. call \in Invocation /\ call.stage = "loop" /\ call.task = h[w].task /\ call.todo = S
      BY <1>0, <2>2 DEF Invocation, TypeOK
    <3> HIDE DEF call
    <3> QED BY <1>0, <3>1, <3>2 DEF TypeOK
  <2>4. Turns(w) /\ h'[w].stage \notin Open
    BY <2>1, <2>3 DEF Turns, Open
  <2>5. ListInv(w)'
    BY <1>0, <2>1, <2>2, <2>3 DEF ListInv, OnePerToken, Open, Known, userVars
  <2> QED BY <1>0, <2>1, <2>4, <2>5, PlainTurn
<1>5. CASE CreatePending(w)
  <2>1. /\ h[w].stage = "loop"
        /\ UNCHANGED <<enabled, registered, ids, installed, sentTo, delivered, listed, spent>>
    BY <1>5 DEF CreatePending, At, userVars, history
  <2>2. PICK d \in h[w].todo :
          \/ d \notin registered /\ Throw(w) /\ UNCHANGED rows
          \/ /\ d \in registered /\ AddRow(h[w].task, "pending") /\ UNCHANGED task
             /\ h' = [h EXCEPT ![w].device = d, ![w].todo = @ \ {d}, ![w].stage = "send"]
    BY <1>5 DEF CreatePending
  <2>3. h[w].task \in Tasks /\ "pending" \in Statuses /\ d \in Devices
    BY <1>0 DEF Invocation, Statuses
  <2>4. CASE d \notin registered /\ Throw(w) /\ UNCHANGED rows
    <3>1. Answer(w, "ready")
      BY <2>4 DEF Throw
    <3>2. Turns(w) /\ ListInv(w)' /\ h'[w].stage \notin Open
      BY <1>a, <2>1, <3>1
    <3>3. UNCHANGED <<userVars, rowVars, listed>>
      BY <2>1, <2>4 DEF userVars, rowVars
    <3> QED BY <1>0, <2>1, <3>2, <3>3, PlainTurn
  <2>5. CASE /\ d \in registered /\ AddRow(h[w].task, "pending") /\ UNCHANGED task
             /\ h' = [h EXCEPT ![w].device = d, ![w].todo = @ \ {d}, ![w].stage = "send"]
    <3>1. h' = [h EXCEPT ![w] = [h[w] EXCEPT !.device = d, !.todo = h[w].todo \ {d}, !.stage = "send"]]
      BY <2>5
    <3>2. /\ h' \in [Workers -> Invocation] /\ \A v \in Workers \ {w} : h'[v] = h[v]
          /\ h'[w].stage = "send" /\ h'[w].task = h[w].task /\ h'[w].todo = h[w].todo \ {d}
          /\ h'[w].device = d /\ task' = task
      BY <1>0, <2>5, <3>1, PendingFacts
    <3>3. Turns(w)
      BY <2>1, <3>2 DEF Turns
    <3>4. ListInv(w)'
      BY <1>0, <2>1, <2>3, <3>2 DEF ListInv, OnePerToken, Open, Known
    <3>5. /\ rows' \in [Tasks -> [Statuses -> Nat]]
          /\ rows'[h[w].task]["pending"] = rows[h[w].task]["pending"]
                                              + (IF "pending" = "pending" THEN 1 ELSE 0)
          /\ \A n \in Tasks \ {h[w].task} : rows'[n] = rows[n]
      BY <1>0, <2>3, <2>5, RowFacts
    <3>6. ASSUME NEW t \in Tasks PROVE rows'[t]["pending"] >= OpenRows(t)'
      <4>1. OpenRows(t)' = OpenRows(t)
                            + (IF h'[w].task = t THEN In(h'[w].stage, Open) ELSE 0)
                            - (IF h[w].task = t THEN In(h[w].stage, Open) ELSE 0)
        BY <3>2, OpenStep
      <4>2. In(h'[w].stage, Open) = 1 /\ In(h[w].stage, Open) = 0
        BY <2>1, <3>2 DEF In, Open
      <4>3. OpenRows(t) \in Nat /\ rows[t]["pending"] >= OpenRows(t) /\ rows[t]["pending"] \in Nat
        BY OpenType DEF TypeInv, TypeOK, Statuses
      <4>4. CASE h[w].task = t
        BY <3>2, <3>5, <4>1, <4>2, <4>3, <4>4
      <4>5. CASE h[w].task # t
        BY <3>2, <3>5, <4>1, <4>2, <4>3, <4>5
      <4> QED BY <4>4, <4>5
    <3>7. /\ registered' \subseteq registered /\ sentTo' \in [Tasks -> SUBSET registered']
          /\ listed' \in [Tasks -> SUBSET Devices] /\ \A t \in Tasks : \A e \in listed'[t] : Known(e)
      BY <2>1 DEF TypeInv, TypeOK
    <3> QED BY <1>0, <2>1, <3>3, <3>4, <3>5, <3>6, <3>7, TurnStep
  <2> QED BY <2>2, <2>4, <2>5
<1>6. CASE Send(w)
  <2>1. /\ h[w].stage = "send" /\ UNCHANGED <<userVars, rowVars, listed>>
        /\ UNCHANGED <<ids, installed>>
    BY <1>6 DEF Send, At, userVars
  <2>2. h[w].task \in Tasks /\ Token(h[w].device) \in Tokens
    BY <1>0, <2>1, DeviceType DEF Invocation, ListInv, Open
  <2>3. Accept(w) => delivered' \in [Tasks -> [Tokens -> Nat]]
    <3>1. delivered[h[w].task][Token(h[w].device)] + 1 \in Nat
      BY <1>0, <2>2
    <3> QED BY <1>0, <2>2, <3>1 DEF Accept
  <2>4. Retry(w) => Turns(w) /\ ListInv(w)'
    <3>1. SUFFICES ASSUME Retry(w) PROVE Turns(w) /\ ListInv(w)'
      OBVIOUS
    <3>2. /\ h' \in [Workers -> Invocation] /\ \A v \in Workers \ {w} : h'[v] = h[v]
          /\ h'[w].stage = "failed" /\ h'[w].task = h[w].task /\ h'[w].todo = h[w].todo
          /\ h'[w].device = h[w].device /\ task' = task
      BY <1>0, <3>1, RetryFacts
    <3>3. Turns(w)
      BY <2>1, <3>2 DEF Turns
    <3> QED BY <1>0, <2>1, <3>2, <3>3 DEF ListInv, Known, Open
  <2>5. \A stage \in {"sent", "failed", "delete"} :
           Step(w, stage) /\ (stage = "delete" => Token(h[w].device) \notin installed)
             => Turns(w) /\ ListInv(w)'
    BY <1>b, <2>1 DEF Stages, Open
  <2>6. CASE SendAccepted(w)
    <3>1. Accept(w) /\ Step(w, "sent") /\ UNCHANGED spent
      BY <2>6 DEF SendAccepted
    <3>2. delivered' \in [Tasks -> [Tokens -> Nat]] /\ Turns(w) /\ ListInv(w)'
      BY <2>3, <2>5, <3>1
    <3> QED BY <1>0, <2>1, <3>1, <3>2, PlainTurn DEF Open
  <2>7. CASE SendLostAnswer(w)
    <3>1. Accept(w) /\ Retry(w) /\ Spend("lostanswer")
      BY <2>7 DEF SendLostAnswer
    <3>2. delivered' \in [Tasks -> [Tokens -> Nat]] /\ Turns(w) /\ ListInv(w)'
      BY <2>3, <2>4, <3>1
    <3>3. spent' \in [Faults -> Nat]
      BY <1>0, <3>1, SpendFacts DEF Faults
    <3> QED BY <2>1, <3>2, <3>3, PlainTurn DEF Open
  <2>8. CASE SendUnavailable(w)
    <3>1. Retry(w) /\ Spend("unavailable") /\ UNCHANGED delivered
      BY <2>8 DEF SendUnavailable
    <3>2. Turns(w) /\ ListInv(w)'
      BY <2>4, <3>1
    <3>3. spent' \in [Faults -> Nat]
      BY <1>0, <3>1, SpendFacts DEF Faults
    <3> QED BY <1>0, <2>1, <3>1, <3>2, <3>3, PlainTurn DEF Open
  <2>9. CASE SendRefused(w)
    <3>1. Step(w, "failed") /\ Spend("refuse") /\ UNCHANGED delivered
      BY <2>9 DEF SendRefused
    <3>2. Turns(w) /\ ListInv(w)'
      BY <2>5, <3>1
    <3>3. spent' \in [Faults -> Nat]
      BY <1>0, <3>1, SpendFacts DEF Faults
    <3> QED BY <1>0, <2>1, <3>1, <3>2, <3>3, PlainTurn DEF Open
  <2>10. CASE SendUnregistered(w)
    <3>1. Step(w, "delete") /\ UNCHANGED <<delivered, spent>> /\ Token(h[w].device) \notin installed
      BY <2>10 DEF SendUnregistered
    <3>2. Turns(w) /\ ListInv(w)'
      BY <2>5, <3>1
    <3> QED BY <1>0, <2>1, <3>1, <3>2, PlainTurn DEF Open
  <2> QED BY <1>6, <2>6, <2>7, <2>8, <2>9, <2>10 DEF Send
<1>7. CASE MarkSent(w)
  <2>1. /\ h[w].stage = "sent" /\ MoveRow(h[w].task, "sent") /\ Step(w, "loop")
        /\ sentTo' = [sentTo EXCEPT ![h[w].task] = @ \cup ({h[w].device} \cap registered)]
        /\ UNCHANGED <<enabled, registered, ids, installed, delivered, listed, spent>>
    BY <1>7 DEF MarkSent, At, userVars, history
  <2>2. Turns(w) /\ ListInv(w)' /\ h'[w].stage = "loop"
    BY <1>b, <2>1 DEF Stages, Open
  <2>3. h[w].task \in Tasks
    BY <1>0 DEF Invocation
  <2>4. /\ rows' \in [Tasks -> [Statuses -> Nat]]
        /\ \A t \in Tasks : rows'[t]["pending"] >= OpenRows(t)'
    BY <2>1, <2>2, <2>3, OpenMoved DEF Open
  <2>5. /\ registered' \subseteq registered /\ sentTo' \in [Tasks -> SUBSET registered']
        /\ listed' \in [Tasks -> SUBSET Devices] /\ \A t \in Tasks : \A e \in listed'[t] : Known(e)
    BY <2>1, <2>3 DEF TypeInv, TypeOK
  <2> QED BY <1>0, <2>1, <2>2, <2>4, <2>5, TurnStep
<1>8. CASE DeleteDevice(w)
  <2>1. /\ h[w].stage = "delete"
        /\ UNCHANGED <<enabled, ids, installed, rows, delivered, listed, spent>>
    BY <1>8 DEF DeleteDevice, At, history
  <2>2. Turns(w) /\ ListInv(w)' /\ (h'[w].stage \in Open => h[w].stage \in Open)
    <3>1. CASE Step(w, "failed")
      BY <1>b, <2>1, <3>1 DEF Stages, Open
    <3>2. CASE Answer(w, "ready")
      BY <1>a, <2>1, <3>2
    <3> QED BY <1>8, <3>1, <3>2 DEF DeleteDevice, Throw
  <2>3. registered' \subseteq registered /\ sentTo' \in [Tasks -> SUBSET registered']
    <3>1. CASE DeleteDeviceRow(h[w].device)
      BY <1>0, <3>1 DEF DeleteDeviceRow, TypeOK
    <3>2. CASE UNCHANGED <<registered, sentTo>>
      BY <1>0, <3>2 DEF TypeOK
    <3> QED BY <1>8, <3>1, <3>2 DEF DeleteDevice
  <2>4. \A t \in Tasks : rows'[t]["pending"] >= OpenRows(t)'
    BY <2>1, <2>2, OpenKept
  <2>5. /\ rows' \in [Tasks -> [Statuses -> Nat]]
        /\ listed' \in [Tasks -> SUBSET Devices] /\ \A t \in Tasks : \A e \in listed'[t] : Known(e)
    BY <2>1 DEF TypeInv, TypeOK
  <2> QED BY <1>0, <2>1, <2>2, <2>3, <2>4, <2>5, TurnStep
<1>9. CASE MarkFailed(w)
  <2>1. /\ h[w].stage = "failed" /\ MoveRow(h[w].task, "failed") /\ Step(w, "loop")
        /\ UNCHANGED <<enabled, registered, ids, installed, sentTo, delivered, listed, spent>>
    BY <1>9 DEF MarkFailed, At, userVars, history
  <2>2. Turns(w) /\ ListInv(w)' /\ h'[w].stage = "loop"
    BY <1>b, <2>1 DEF Stages, Open
  <2>3. h[w].task \in Tasks
    BY <1>0 DEF Invocation
  <2>4. /\ rows' \in [Tasks -> [Statuses -> Nat]]
        /\ \A t \in Tasks : rows'[t]["pending"] >= OpenRows(t)'
    BY <2>1, <2>2, <2>3, OpenMoved DEF Open
  <2>5. /\ registered' \subseteq registered /\ sentTo' \in [Tasks -> SUBSET registered']
        /\ listed' \in [Tasks -> SUBSET Devices] /\ \A t \in Tasks : \A e \in listed'[t] : Known(e)
    BY <2>1 DEF TypeInv, TypeOK
  <2> QED BY <1>0, <2>1, <2>2, <2>4, <2>5, TurnStep
<1>10. CASE Finish(w)
  <2>1. /\ h[w].stage = "loop" /\ UNCHANGED <<userVars, rowVars, delivered, listed, spent>>
        /\ Answer(w, "ready") \/ Answer(w, "done")
    BY <1>10 DEF Finish, At, history, Return, Throw
  <2>2. Turns(w) /\ ListInv(w)' /\ h'[w].stage \notin Open
    BY <1>a, <2>1
  <2> QED BY <1>0, <2>1, <2>2, PlainTurn
<1>11. CASE Fail(w)
  <2>1. /\ h[w].stage # "idle" /\ UNCHANGED <<userVars, rowVars, delivered, listed>>
        /\ Answer(w, "ready") /\ Spend("fail")
    BY <1>11 DEF Fail, At, history, Throw
  <2>2. Turns(w) /\ ListInv(w)' /\ h'[w].stage \notin Open
    BY <1>a, <2>1
  <2>3. spent' \in [Faults -> Nat]
    BY <1>0, <2>1, SpendFacts DEF Faults
  <2> QED BY <1>0, <2>1, <2>2, <2>3, PlainTurn
<1> QED BY <1>1, <1>2, <1>3, <1>4, <1>5, <1>6, <1>7, <1>8, <1>9, <1>10, <1>11 DEF Handler

LEMMA TypeInit == Init => TypeInv
<1> SUFFICES ASSUME Init PROVE TypeInv
  OBVIOUS
<1>1. h = [w \in Workers |-> Idle] /\ \A w \in Workers : h[w] = Idle
  BY DEF Init
<1>2. TypeOK
  <2>1. ids \in [Tokens -> 0..MaxIds] /\ spent \in [Faults -> Nat]
    BY DEF Init
  <2>2. /\ task \in [Tasks -> [state: States, attempts: Nat, holder: Workers \cup {NoWorker}]]
        /\ rows \in [Tasks -> [Statuses -> Nat]] /\ delivered \in [Tasks -> [Tokens -> Nat]]
    BY DEF Init, States
  <2>3. /\ sentTo \in [Tasks -> SUBSET registered] /\ listed \in [Tasks -> SUBSET Devices]
        /\ registered \subseteq Devices /\ installed \subseteq Tokens /\ enabled \in BOOLEAN
    BY DEF Init
  <2> QED BY <1>1, <2>1, <2>2, <2>3, IdleType DEF TypeOK
<1>3. ASSUME NEW t \in Tasks PROVE rows[t]["pending"] >= OpenRows(t)
  <2>1. {w \in Workers : h[w].task = t /\ h[w].stage \in Open} = {}
    BY <1>1, IdleType DEF Open
  <2>2. OpenRows(t) = 0
    BY <2>1, FS_EmptySet DEF OpenRows
  <2>3. rows[t]["pending"] = 0
    BY DEF Init, Statuses
  <2> QED BY <2>2, <2>3
<1>4. \A w \in Workers : ListInv(w)
  BY <1>1, IdleType DEF ListInv, OnePerToken, Open
<1>5. \A t \in Tasks : HeldInv(t)
  BY DEF HeldInv, Init
<1> QED BY <1>2, <1>3, <1>4, <1>5 DEF TypeInv, OnePerToken, Init

(* What stays in order while ids are only added.                             *)
LEMMA ListsKept ==
  ASSUME TypeInv, UNCHANGED h, installed' \subseteq installed,
         \A k \in Tokens : ids'[k] >= ids[k] /\ ids'[k] \in Nat
  PROVE  /\ \A w \in Workers : ListInv(w)'
         /\ \A d \in Devices : Known(d) => Known(d)'
<1>1. ASSUME NEW d \in Devices, Known(d) PROVE Known(d)'
  <2>1. Token(d) \in Tokens /\ d[2] \in Nat /\ ids[Token(d)] \in Nat
    BY DeviceType DEF TypeInv, TypeOK
  <2> QED BY <1>1, <2>1 DEF Known
<1>2. ASSUME NEW w \in Workers PROVE ListInv(w)'
  <2>1. ListInv(w) /\ h'[w] = h[w] /\ h[w].todo \subseteq Devices
    BY DEF TypeInv, TypeOK, Invocation
  <2>2. PICK d, S : d = h[w].device /\ S = h[w].todo
    OBVIOUS
  <2>3. h'[w].device = d /\ h'[w].todo = S /\ h'[w].stage = h[w].stage
    BY <2>1, <2>2
  <2>4. \A e \in S : Known(e)'
    BY <1>1, <2>1, <2>2 DEF ListInv
  <2>5. h[w].stage \in Open => Known(d)'
    BY <1>1, <2>1, <2>2 DEF ListInv
  <2> QED BY <2>1, <2>2, <2>3, <2>4, <2>5 DEF ListInv, Known
<1> QED BY <1>1, <1>2

(* The app, the user and the queue.                                          *)
LEMMA UserTypes ==
  ASSUME TypeInv,
         \/ ToggleNotifications
         \/ \E k \in Tokens : Register(k) \/ Uninstall(k)
         \/ \E d \in registered : Unregister(d)
  PROVE  TypeInv'
<1>0. TypeOK
  BY DEF TypeInv
<1>1. ASSUME UNCHANGED <<task, h, rows, listed, delivered>>, spent' \in [Faults -> Nat],
             enabled' \in BOOLEAN, ids' \in [Tokens -> 0..MaxIds],
             \A k \in Tokens : ids'[k] >= ids[k], installed' \subseteq installed,
             registered' \subseteq Devices, sentTo' \in [Tasks -> SUBSET registered'],
             OnePerToken(registered'), \A d \in registered' : Known(d)'
      PROVE  TypeInv'
  <2>1. /\ \A w \in Workers : ListInv(w)'
        /\ \A d \in Devices : Known(d) => Known(d)'
    <3>1. \A k \in Tokens : ids'[k] \in Nat
      BY <1>1
    <3> QED BY <1>1, <3>1, ListsKept
  <2>2. TypeOK'
    BY <1>0, <1>1 DEF TypeOK
  <2>3. \A t \in Tasks : rows'[t]["pending"] >= OpenRows(t)'
    BY <1>1 DEF TypeInv, OpenRows
  <2>4. \A t \in Tasks : HeldInv(t)'
    BY <1>1 DEF TypeInv, HeldInv
  <2>5. \A t \in Tasks : \A d \in listed'[t] : Known(d)'
    BY <1>0, <1>1, <2>1 DEF TypeInv, TypeOK
  <2> QED BY <1>1, <2>1, <2>2, <2>3, <2>4, <2>5 DEF TypeInv
<1>2. CASE ToggleNotifications
  <2>1. /\ spent' \in [Faults -> Nat] /\ enabled' \in BOOLEAN
        /\ UNCHANGED <<registered, ids, installed, task, h, rows, sentTo, delivered, listed>>
    BY <1>0, <1>2, SpendFacts DEF ToggleNotifications, Faults, rowVars, history, TypeOK
  <2>2. \A k \in Tokens : ids'[k] >= ids[k]
    BY <1>0, <2>1 DEF TypeOK
  <2>3. \A d \in registered' : Known(d)'
    BY <2>1 DEF TypeInv, Known
  <2> QED BY <1>1, <2>1, <2>2, <2>3 DEF TypeInv, TypeOK
<1>3. ASSUME NEW k \in Tokens, Uninstall(k) PROVE TypeInv'
  <2>1. /\ spent' \in [Faults -> Nat] /\ installed' \subseteq installed
        /\ UNCHANGED <<enabled, registered, ids, task, h, rows, sentTo, delivered, listed>>
    BY <1>0, <1>3, SpendFacts DEF Uninstall, Faults, rowVars, history
  <2>2. \A n \in Tokens : ids'[n] >= ids[n]
    BY <1>0, <2>1 DEF TypeOK
  <2>3. \A d \in registered' : Known(d)'
    BY <2>1 DEF TypeInv, Known
  <2> QED BY <1>1, <2>1, <2>2, <2>3 DEF TypeInv, TypeOK
<1>4. ASSUME NEW k \in Tokens, Register(k) PROVE TypeInv'
  <2>1. /\ \A d \in registered : Token(d) # k
        /\ ids[k] < MaxIds /\ ids' = [ids EXCEPT ![k] = @ + 1]
        /\ registered' = registered \cup {<<k, ids[k] + 1>>}
        /\ UNCHANGED <<enabled, installed, task, h, rows, sentTo, delivered, listed, spent>>
    BY <1>4 DEF Register, rowVars, history
  <2>2. /\ ids \in [Tokens -> 0..MaxIds] /\ ids[k] \in Nat
        /\ ids' \in [Tokens -> 0..MaxIds] /\ ids'[k] = ids[k] + 1
        /\ \A n \in Tokens \ {k} : ids'[n] = ids[n]
    BY <1>0, <2>1 DEF TypeOK
  <2>3. \A n \in Tokens : ids'[n] >= ids[n] /\ ids'[n] \in Nat
    BY <2>2
  <2>4. PICK new : new = <<k, ids[k] + 1>>
    OBVIOUS
  <2>9. new \in Devices /\ Token(new) = k /\ new[2] = ids[k] + 1
    BY <2>1, <2>2, <2>4 DEF Devices, Token
  <2>10. Known(new)'
    BY <2>2, <2>9 DEF Known
  <2>5. \A d \in registered' : Known(d)'
    <3>1. \A d \in Devices : Known(d) => Known(d)'
      BY <2>1, <2>3, ListsKept
    <3>2. \A d \in registered : Known(d)'
      BY <1>0, <3>1 DEF TypeInv, TypeOK
    <3> QED BY <2>1, <2>4, <2>10, <3>2
  <2>6. OnePerToken(registered')
    BY <2>1, <2>4, <2>9 DEF TypeInv, OnePerToken
  <2>7. registered' \subseteq Devices /\ sentTo' \in [Tasks -> SUBSET registered']
    BY <1>0, <2>1, <2>4, <2>9 DEF TypeOK
  <2>8. enabled' \in BOOLEAN /\ installed' \subseteq installed /\ spent' \in [Faults -> Nat]
    BY <1>0, <2>1 DEF TypeOK
  <2> QED BY <1>1, <2>1, <2>2, <2>3, <2>5, <2>6, <2>7, <2>8
<1>5. ASSUME NEW d \in registered, Unregister(d) PROVE TypeInv'
  <2>1. /\ spent' \in [Faults -> Nat]
        /\ registered' = registered \ {d} /\ sentTo' = [t \in Tasks |-> sentTo[t] \ {d}]
        /\ UNCHANGED <<enabled, installed, ids, task, h, rows, delivered, listed>>
    BY <1>0, <1>5, SpendFacts DEF Unregister, DeleteDeviceRow, Faults, history
  <2>2. \A k \in Tokens : ids'[k] >= ids[k]
    BY <1>0, <2>1 DEF TypeOK
  <2>3. (\A e \in registered' : Known(e)') /\ OnePerToken(registered')
    BY <2>1 DEF TypeInv, OnePerToken, Known
  <2>4. registered' \subseteq Devices /\ sentTo' \in [Tasks -> SUBSET registered']
    BY <1>0, <2>1 DEF TypeOK
  <2> QED BY <1>0, <1>1, <2>1, <2>2, <2>3, <2>4 DEF TypeOK
<1> QED BY <1>2, <1>3, <1>4, <1>5

LEMMA QueueTypes ==
  ASSUME TypeInv,
         \/ \E t \in Tasks : Redeliver(t) \/ Exhaust(t)
         \/ \E w \in Workers, t \in Tasks : Deliver(w, t)
  PROVE  TypeInv'
<1>0. TypeOK
  BY DEF TypeInv
<1>1. ASSUME NEW t \in Tasks, Redeliver(t) \/ Exhaust(t) PROVE TypeInv'
  <2>1. /\ task' \in [Tasks -> TaskRow]
        /\ \A n \in Tasks \ {t} : task'[n] = task[n]
        /\ UNCHANGED <<userVars, h, rowVars, history>>
        /\ \/ /\ Spend("redeliver") /\ task[t].state \in {"out", "done"}
              /\ task'[t].state = "ready" /\ task'[t].holder = NoWorker
           \/ /\ UNCHANGED spent /\ task[t].state = "ready"
              /\ task'[t].state = "dropped" /\ task'[t].holder = task[t].holder
    BY <1>0, <1>1, QueueFacts
  <2>2. UNCHANGED <<enabled, registered, ids, installed, h, rows, sentTo, delivered, listed>>
    BY <2>1 DEF userVars, rowVars, history
  <2>3. spent' \in [Faults -> Nat]
    BY <1>0, <2>1, SpendFacts DEF Faults, TypeOK
  <2>4. TypeOK'
    BY <1>0, <2>1, <2>2, <2>3 DEF TypeOK, TaskRow
  <2>5. \A n \in Tasks : HeldInv(n)'
    BY <2>1, <2>2 DEF TypeInv, HeldInv
  <2>6. \A n \in Tasks : rows'[n]["pending"] >= OpenRows(n)'
    BY <2>2 DEF TypeInv, OpenRows
  <2>7. \A w \in Workers : ListInv(w)'
    BY <2>2 DEF TypeInv, ListInv, Known
  <2>8. (\A d \in registered' : Known(d)') /\ \A n \in Tasks : \A d \in listed'[n] : Known(d)'
    BY <2>2 DEF TypeInv, Known
  <2> QED BY <2>2, <2>4, <2>5, <2>6, <2>7, <2>8 DEF TypeInv
<1>2. ASSUME NEW w \in Workers, NEW t \in Tasks, Deliver(w, t) PROVE TypeInv'
  <2>1. /\ h' \in [Workers -> Invocation] /\ \A v \in Workers \ {w} : h'[v] = h[v]
        /\ h'[w].stage = "coupon" /\ h'[w].task = t /\ h'[w].todo = {} /\ h[w].stage = "idle"
        /\ task' \in [Tasks -> TaskRow]
        /\ task'[t].state = "out" /\ task'[t].holder = w /\ task[t].state = "ready"
        /\ \A n \in Tasks \ {t} : task'[n] = task[n]
        /\ UNCHANGED <<userVars, rowVars, history, spent>>
    BY <1>0, <1>2, DeliverFacts
  <2>2. UNCHANGED <<enabled, registered, ids, installed, rows, sentTo, delivered, listed, spent>>
    BY <2>1 DEF userVars, rowVars, history
  <2>4. TypeOK'
    BY <1>0, <2>1, <2>2 DEF TypeOK, TaskRow
  <2>5. ASSUME NEW n \in Tasks PROVE HeldInv(n)'
    <3>1. CASE n = t
      BY <2>1, <3>1, DispatchAssumption DEF HeldInv
    <3>2. CASE n # t
      <4>1. HeldInv(n) /\ task'[n] = task[n] /\ task[n].holder \in Workers \cup {NoWorker}
        BY <1>0, <2>1, <3>2 DEF TypeInv, TypeOK
      <4>2. task[n].holder # NoWorker => task[n].holder \in Workers \ {w}
        BY <2>1, <4>1 DEF HeldInv
      <4> QED BY <2>1, <4>1, <4>2 DEF HeldInv
    <3> QED BY <3>1, <3>2
  <2>6. ASSUME NEW n \in Tasks PROVE rows'[n]["pending"] >= OpenRows(n)'
    <3>1. OpenRows(n)' = OpenRows(n)
                          + (IF h'[w].task = n THEN In(h'[w].stage, Open) ELSE 0)
                          - (IF h[w].task = n THEN In(h[w].stage, Open) ELSE 0)
      BY <2>1, OpenStep
    <3>2. In(h'[w].stage, Open) = 0 /\ In(h[w].stage, Open) = 0
      BY <2>1 DEF In, Open
    <3>3. OpenRows(n) \in Nat
      BY OpenType
    <3> QED BY <2>2, <3>1, <3>2, <3>3 DEF TypeInv
  <2>7. ASSUME NEW v \in Workers PROVE ListInv(v)'
    <3>1. CASE v = w
      BY <2>1, <3>1 DEF ListInv, OnePerToken, Open
    <3>2. CASE v # w
      BY <2>1, <2>2, <3>2 DEF TypeInv, ListInv, Known
    <3> QED BY <3>1, <3>2
  <2>8. (\A d \in registered' : Known(d)') /\ \A n \in Tasks : \A d \in listed'[n] : Known(d)'
    BY <2>2 DEF TypeInv, Known
  <2> QED BY <2>2, <2>4, <2>5, <2>6, <2>7, <2>8 DEF TypeInv
<1> QED BY <1>1, <1>2

LEMMA TypeStep == TypeInv /\ [Next]_vars => TypeInv'
<1> SUFFICES ASSUME TypeInv, [Next]_vars PROVE TypeInv'
  OBVIOUS
<1>1. CASE \/ ToggleNotifications
           \/ \E k \in Tokens : Register(k) \/ Uninstall(k)
           \/ \E d \in registered : Unregister(d)
  BY <1>1, UserTypes
<1>2. CASE \/ \E t \in Tasks : Redeliver(t) \/ Exhaust(t)
           \/ \E w \in Workers, t \in Tasks : Deliver(w, t)
  BY <1>2, QueueTypes
<1>3. CASE \E w \in Workers : Handler(w) \/ Fail(w)
  BY <1>3, HandlerTypes
<1>4. CASE UNCHANGED vars
  BY <1>4 DEF vars, userVars, rowVars, history, TypeInv, TypeOK, OpenRows, OnePerToken,
              Known, ListInv, HeldInv
<1> QED BY <1>1, <1>2, <1>3, <1>4 DEF Next

(* Every state is of its type; the ids of devices are never given out twice, *)
(* a task is held exactly while it is out, and every handler between the     *)
(* pending row of a device and its end finds a pending row to move.          *)
THEOREM TypeCorrect == Spec => []TypeInv
<1> QED BY TypeInit, TypeStep, PTL DEF Spec

(* The type invariant alone, as the run checks it: no count of rows falls    *)
(* below zero, and sent rows point to devices that still exist.              *)
THEOREM TypesHold == Spec => []TypeOK
<1>1. TypeInv => TypeOK
  BY DEF TypeInv
<1> QED BY <1>1, TypeCorrect, PTL

-----------------------------------------------------------------------------
(* A closed task served everybody it listed.                                 *)
Calm == spent["refuse"] = 0 /\ spent["toggle"] = 0
Missed(t, d) == /\ d \in listed[t] /\ d \in registered /\ Token(d) \in installed
                /\ delivered[t][Token(d)] = 0
\* The handler has the device still before it, or ends with a 500.
Reaches(w, d) ==
    \/ h[w].stage \in {"coupon", "devices"} \/ d \in h[w].todo
    \/ h[w].stage = "send" /\ h[w].device = d
    \/ h[w].shouldRetry

ServeInv ==
    /\ \A t \in Tasks : \A d \in sentTo[t] : delivered[t][Token(d)] > 0
    /\ \A w \in Workers : h[w].stage = "sent" => delivered[h[w].task][Token(h[w].device)] > 0
    /\ spent["toggle"] = 0 => enabled /\ \A w \in Workers : h[w].stage # "disabled"
    /\ Calm => \A t \in Tasks, d \in Devices : Missed(t, d) =>
          /\ task[t].state # "done"
          /\ task[t].holder # NoWorker => Reaches(task[t].holder, d)

-----------------------------------------------------------------------------
(* What a task may still send to a token.                                    *)
Hidden == spent["fail"] + spent["redeliver"] + spent["lostanswer"] + spent["unregister"]
Listing == {"history", "loop", "send", "sent", "delete", "failed"}

Served(t, k) == \E d \in sentTo[t] : Token(d) = k
Lists(w, k) == /\ h[w].stage \in Listing
               /\ \E d \in h[w].todo \cap registered :
                     Token(d) = k /\ (h[w].stage = "history" => d \notin sentTo[h[w].task])
Sending(w, k) == h[w].stage = "send" /\ Token(h[w].device) = k

\* A handler that lost its task sends from its list, whatever the others did.
Sends(w, k) == h[w].stage \in {"coupon", "devices"} \/ Lists(w, k) \/ Sending(w, k)
Strays(t, k) == Cardinality({w \in Workers :
                    h[w].task = t /\ task[t].holder # w /\ Sends(w, k)})

\* The holder sends once, or its successor does, until the device is served;
\* and once more from a row deleted under it.
Lapsed(w, k)  == Sending(w, k) /\ h[w].device \notin registered
Resends(w, k) == Lists(w, k) \/ (Sending(w, k) /\ h[w].device \in registered)
Marks(w, k)   == h[w].stage = "sent" /\ Token(h[w].device) = k /\ h[w].device \in registered
Bit(b) == IF b THEN 1 ELSE 0
Due(w, t, k) == ~ Marks(w, k) /\ (Resends(w, k) \/ ~ Served(t, k))
Holds(w, t, k) == Bit(Lapsed(w, k)) + Bit(Due(w, t, k))
Owed(t, k) == IF task[t].state = "ready" THEN Bit(~ Served(t, k))
              ELSE IF task[t].state = "out" THEN Holds(task[t].holder, t, k)
              ELSE 0

PushInv == \A t \in Tasks, k \in Tokens :
    IF k \in installed THEN delivered[t][k] + Strays(t, k) + Owed(t, k) <= 1 + Hidden
                       ELSE delivered[t][k] <= 1 + Hidden

LEMMA SpendGrows ==
  ASSUME TypeOK, NEW kind \in Faults, Spend(kind)
  PROVE  \A k \in Faults : spent'[k] \in Nat /\ spent'[k] >= spent[k]
<1>1. /\ spent' \in [Faults -> Nat] /\ spent'[kind] = spent[kind] + 1
      /\ \A k \in Faults \ {kind} : spent'[k] = spent[k]
  BY SpendFacts
<1>2. ASSUME NEW k \in Faults PROVE spent'[k] \in Nat /\ spent'[k] >= spent[k]
  <2>1. spent[k] \in Nat /\ spent'[k] \in Nat
    BY <1>1 DEF TypeOK
  <2>2. CASE k = kind
    BY <1>1, <2>1, <2>2
  <2>3. CASE k # kind
    BY <1>1, <2>1, <2>3
  <2> QED BY <2>1, <2>2, <2>3
<1> QED BY <1>2

(* A turn loses no device that its handler still had before it.              *)
LEMMA ServeTurn ==
  ASSUME TypeInv, TypeInv', ServeInv, NEW w \in Workers, Turns(w),
         registered' \subseteq registered, UNCHANGED <<enabled, installed>>,
         \A k \in Faults : spent'[k] \in Nat /\ spent'[k] >= spent[k],
         \A t \in Tasks, k \in Tokens : delivered'[t][k] >= delivered[t][k],
         \A t \in Tasks : task[t].holder # w => listed'[t] = listed[t],
         \A t \in Tasks : \A d \in sentTo'[t] :
            d \in sentTo[t] \/ delivered'[t][Token(d)] > 0,
         h'[w].stage = "sent" => delivered'[h'[w].task][Token(h'[w].device)] > 0,
         enabled => h'[w].stage # "disabled",
         \A t \in Tasks, d \in Devices :
            /\ task[t].holder = w /\ t = h[w].task /\ Calm' /\ Missed(t, d)'
            /\ Missed(t, d) => Reaches(w, d)
            => Reaches(w, d)' \/ Answer(w, "ready")
  PROVE  ServeInv'
<1>0. TypeOK /\ TypeOK'
  BY DEF TypeInv
<1>1. /\ h' \in [Workers -> Invocation] /\ \A v \in Workers \ {w} : h'[v] = h[v]
  BY TurnFacts
<1>2. ASSUME NEW t \in Tasks, NEW d \in sentTo'[t] PROVE delivered'[t][Token(d)] > 0
  <2>1. CASE d \in sentTo[t]
    <3>1. d \in Devices /\ delivered[t][Token(d)] > 0
      BY <1>0, <2>1 DEF ServeInv, TypeOK
    <3>2. Token(d) \in Tokens
      BY <3>1, DeviceType
    <3>3. delivered[t][Token(d)] \in Nat /\ delivered'[t][Token(d)] \in Nat
      BY <1>0, <3>2 DEF TypeOK
    <3> QED BY <3>1, <3>2, <3>3
  <2> QED BY <2>1
<1>3. ASSUME NEW v \in Workers, h'[v].stage = "sent"
      PROVE  delivered'[h'[v].task][Token(h'[v].device)] > 0
  <2>1. CASE v # w
    <3>1. h'[v] = h[v] /\ h[v].stage = "sent"
      BY <1>1, <1>3, <2>1
    <3>2. delivered[h[v].task][Token(h[v].device)] > 0
      BY <3>1 DEF ServeInv
    <3>3. h[v].task \in Tasks /\ h[v].device \in Devices
      BY <1>0, <3>1 DEF TypeInv, TypeOK, Invocation, ListInv, Open
    <3>4. Token(h[v].device) \in Tokens
      BY <3>3, DeviceType
    <3>5. /\ delivered[h[v].task][Token(h[v].device)] \in Nat
          /\ delivered'[h[v].task][Token(h[v].device)] \in Nat
      BY <1>0, <3>3, <3>4 DEF TypeOK
    <3> QED BY <3>1, <3>2, <3>3, <3>4, <3>5
  <2> QED BY <1>3, <2>1
<1>4. \A k \in {"toggle", "refuse"} : spent'[k] = 0 => spent[k] = 0
  BY <1>0 DEF TypeOK, Faults
<1>5. spent'["toggle"] = 0 => enabled' /\ \A v \in Workers : h'[v].stage # "disabled"
  <2>1. SUFFICES ASSUME spent'["toggle"] = 0
                 PROVE  enabled' /\ \A v \in Workers : h'[v].stage # "disabled"
    OBVIOUS
  <2>2. enabled /\ \A v \in Workers : h[v].stage # "disabled"
    BY <1>4, <2>1 DEF ServeInv
  <2> QED BY <1>1, <2>2
<1>6. ASSUME Calm', NEW t \in Tasks, NEW d \in Devices, Missed(t, d)'
      PROVE  /\ task'[t].state # "done"
             /\ task'[t].holder # NoWorker => Reaches(task[t].holder, d)' /\ task'[t].holder = task[t].holder
  <2>1. Calm /\ Token(d) \in Tokens
    BY <1>4, <1>6, DeviceType DEF Calm
  <2>2. d \in registered /\ Token(d) \in installed /\ delivered[t][Token(d)] = 0
    <3>1. delivered'[t][Token(d)] = 0 /\ delivered[t][Token(d)] \in Nat
      BY <1>0, <1>6, <2>1 DEF Missed, TypeOK
    <3>2. delivered'[t][Token(d)] >= delivered[t][Token(d)]
      BY <2>1
    <3> QED BY <1>6, <3>1, <3>2 DEF Missed
  <2>3. HeldInv(t) /\ HeldInv(t)' /\ task[t].holder \in Workers \cup {NoWorker}
    BY <1>0 DEF TypeInv, TypeOK
  <2>4. d \in listed[t] =>
          /\ task[t].state # "done"
          /\ task[t].holder # NoWorker => Reaches(task[t].holder, d)
    BY <2>1, <2>2 DEF ServeInv, Missed
  <2>5. CASE task[t].holder # w
    <3>1. task'[t] = task[t]
      <4>1. ASSUME NEW state \in {"done", "ready"}, Answer(w, state) PROVE task'[t] = task[t]
        BY <2>5, <4>1 DEF Answer
      <4> QED BY <4>1 DEF Turns
    <3>2. d \in listed[t]
      BY <1>6, <2>5 DEF Missed
    <3>3. ASSUME NEW v \in Workers \ {w}, Reaches(v, d) PROVE Reaches(v, d)'
      BY <1>1, <3>3 DEF Reaches
    <3>4. PICK v \in Workers \cup {NoWorker} : v = task[t].holder
      BY <2>3
    <3>5. task[t].holder # NoWorker => Reaches(v, d)'
      BY <2>3, <2>4, <2>5, <3>2, <3>3, <3>4
    <3>6. Reaches(task[t].holder, d)' = Reaches(v, d)'
      BY <3>1, <3>4 DEF Reaches
    <3> QED BY <2>4, <3>1, <3>2, <3>5, <3>6
  <2>6. CASE task[t].holder = w
    <3>1. t = h[w].task /\ task[t].state = "out"
      BY <2>3, <2>6, DispatchAssumption DEF HeldInv
    <3>2. Missed(t, d) => Reaches(w, d)
      BY <2>4, <2>6, DispatchAssumption DEF Missed
    <3>3. Reaches(w, d)' \/ Answer(w, "ready")
      BY <1>6, <2>6, <3>1, <3>2
    <3>4. CASE Answer(w, "ready")
      <4>1. task'[t].state = "ready" /\ task'[t].holder = NoWorker
        BY <2>6, <3>4 DEF Answer
      <4> QED BY <4>1
    <3>5. CASE Reaches(w, d)' /\ ~ Answer(w, "ready")
      <4>1. ~ Answer(w, "done")
        <5>1. SUFFICES ASSUME Answer(w, "done") PROVE FALSE
          OBVIOUS
        <5>2. h'[w] = Idle
          BY <1>0, <5>1 DEF Answer, TypeOK
        <5> QED BY <3>5, <5>2 DEF Reaches, Idle
      <4>2. task' = task
        BY <3>5, <4>1 DEF Turns
      <4> QED BY <2>6, <3>1, <3>5, <4>2 DEF Reaches
    <3> QED BY <3>3, <3>4, <3>5
  <2> QED BY <2>5, <2>6
<1>7. ASSUME Calm', NEW t \in Tasks, NEW d \in Devices, Missed(t, d)',
             task'[t].holder # NoWorker
      PROVE  Reaches(task[t].holder, d)' /\ task'[t].holder = task[t].holder
  BY <1>6, <1>7
<1> QED BY <1>2, <1>3, <1>5, <1>6, <1>7 DEF ServeInv

(* A turn of a handler as plain facts: the stages it goes between, and what  *)
(* it changes besides the rows.                                              *)
Goes(w, from, to) ==
    /\ h[w].stage = from /\ h'[w].stage = to /\ h'[w].task = h[w].task /\ task' = task
Same(w) == h'[w].todo = h[w].todo /\ h'[w].device = h[w].device
Quiet == UNCHANGED <<registered, sentTo, delivered, spent>>

Outcome(w) ==
    \/ /\ Goes(w, "coupon", IF enabled THEN "devices" ELSE "disabled")
       /\ Quiet /\ UNCHANGED listed
    \/ /\ h[w].stage = "disabled" /\ Answer(w, "done") /\ Quiet /\ UNCHANGED listed
    \/ /\ h[w].stage = "devices" /\ Quiet
       /\ \A t \in Tasks : task[t].holder # w => listed'[t] = listed[t]
       /\ \/ registered = {} /\ Answer(w, "done")
          \/ Goes(w, "devices", "history") /\ h'[w].todo = registered
    \/ /\ Goes(w, "history", "loop") /\ h'[w].todo = h[w].todo \ sentTo[h[w].task]
       /\ h'[w].shouldRetry = h[w].shouldRetry
       /\ Quiet /\ UNCHANGED listed
    \/ /\ h[w].stage = "loop" /\ Answer(w, "ready") /\ Quiet /\ UNCHANGED listed
    \/ \E d \in h[w].todo : /\ d \in registered /\ Goes(w, "loop", "send")
                            /\ h'[w].device = d /\ h'[w].todo = h[w].todo \ {d}
                            /\ h'[w].shouldRetry = h[w].shouldRetry
                            /\ Quiet /\ UNCHANGED listed
    \/ /\ Same(w) /\ Token(h[w].device) \in installed /\ Accept(w)
       /\ UNCHANGED <<registered, sentTo, listed>>
       /\ \/ /\ Goes(w, "send", "sent") /\ UNCHANGED spent
             /\ h'[w].shouldRetry = h[w].shouldRetry
          \/ Goes(w, "send", "failed") /\ Spend("lostanswer") /\ h'[w].shouldRetry = TRUE
    \/ /\ Same(w) /\ UNCHANGED <<registered, sentTo, listed, delivered>>
       /\ \/ Goes(w, "send", "failed") /\ Spend("unavailable") /\ h'[w].shouldRetry = TRUE
          \/ Goes(w, "send", "failed") /\ Spend("refuse")
          \/ /\ Goes(w, "send", "delete") /\ UNCHANGED spent
             /\ Token(h[w].device) \notin installed /\ h'[w].shouldRetry = h[w].shouldRetry
    \/ /\ Goes(w, "sent", "loop") /\ Same(w) /\ h'[w].shouldRetry = h[w].shouldRetry
       /\ sentTo' = [sentTo EXCEPT ![h[w].task] = @ \cup ({h[w].device} \cap registered)]
       /\ UNCHANGED <<registered, delivered, listed, spent>>
    \/ /\ Goes(w, "delete", "failed") /\ Same(w) /\ h'[w].shouldRetry = h[w].shouldRetry
       /\ DeleteDeviceRow(h[w].device) /\ UNCHANGED <<delivered, listed, spent>>
    \/ /\ h[w].stage = "delete" /\ Answer(w, "ready") /\ Quiet /\ UNCHANGED listed
    \/ /\ Goes(w, "failed", "loop") /\ Same(w) /\ h'[w].shouldRetry = h[w].shouldRetry
       /\ Quiet /\ UNCHANGED listed
    \/ /\ h[w].stage = "loop" /\ h[w].todo = {} /\ Quiet /\ UNCHANGED listed
       /\ Answer(w, IF h[w].shouldRetry THEN "ready" ELSE "done")
    \/ /\ h[w].stage # "idle" /\ Answer(w, "ready") /\ Spend("fail")
       /\ UNCHANGED <<registered, sentTo, delivered, listed>>

LEMMA HandlerFacts ==
  ASSUME TypeInv, NEW w \in Workers, Handler(w) \/ Fail(w)
  PROVE  Outcome(w) /\ UNCHANGED <<enabled, ids, installed>>
<1>0. TypeOK /\ ListInv(w) /\ h[w] \in Invocation
  BY DEF TypeInv, TypeOK
<1>b. ASSUME NEW stage \in Stages, Step(w, stage)
      PROVE  Goes(w, h[w].stage, stage) /\ Same(w) /\ h'[w].shouldRetry = h[w].shouldRetry
  <2>1. /\ h'[w].stage = stage /\ h'[w].task = h[w].task /\ h'[w].todo = h[w].todo
        /\ h'[w].device = h[w].device /\ h'[w].shouldRetry = h[w].shouldRetry
        /\ task' = task
    BY <1>0, <1>b, StepFacts
  <2> QED BY <2>1 DEF Goes, Same
<1>c. ASSUME Retry(w)
      PROVE  Goes(w, h[w].stage, "failed") /\ Same(w) /\ h'[w].shouldRetry = TRUE
  <2>1. /\ h'[w].stage = "failed" /\ h'[w].task = h[w].task /\ h'[w].todo = h[w].todo
        /\ h'[w].device = h[w].device /\ h'[w].shouldRetry = TRUE
        /\ task' = task
    BY <1>0, <1>c, RetryFacts
  <2> QED BY <2>1 DEF Goes, Same
<1>1. CASE LoadCoupon(w)
  <2>1. /\ h[w].stage = "coupon" /\ Step(w, IF enabled THEN "devices" ELSE "disabled")
        /\ UNCHANGED <<enabled, ids, installed, registered, sentTo, delivered, listed, spent>>
    BY <1>1 DEF LoadCoupon, At, history, userVars, rowVars
  <2>2. (IF enabled THEN "devices" ELSE "disabled") \in Stages
    BY DEF Stages
  <2>3. Goes(w, h[w].stage, IF enabled THEN "devices" ELSE "disabled")
    BY <1>b, <2>1, <2>2
  <2>4. Goes(w, "coupon", IF enabled THEN "devices" ELSE "disabled")
    BY <2>1, <2>3
  <2> QED BY <2>1, <2>4 DEF Outcome, Quiet
<1>2. CASE SkipDisabled(w)
  <2>1. /\ h[w].stage = "disabled" /\ Answer(w, "done")
        /\ UNCHANGED <<enabled, registered, ids, installed, sentTo, delivered, listed, spent>>
    BY <1>2 DEF SkipDisabled, At, Return, userVars, history
  <2> QED BY <2>1 DEF Outcome, Quiet
<1>3. CASE FindDevices(w)
  <2>1. /\ h[w].stage = "devices"
        /\ UNCHANGED <<enabled, registered, ids, installed, rows, sentTo, delivered, spent>>
        /\ listed' = [t \in Tasks |-> IF task[t].holder = w THEN listed[t] \cup registered
                                                           ELSE listed[t]]
    BY <1>3 DEF FindDevices, At, userVars, rowVars
  <2>2. \/ registered = {} /\ Answer(w, "done")
        \/ Goes(w, "devices", "history") /\ h'[w].todo = registered
    <3>1. CASE registered = {}
      BY <1>3, <3>1 DEF FindDevices, Return
    <3>2. CASE registered # {}
      <4> DEFINE call == [h[w] EXCEPT !.todo = registered, !.stage = "history"]
      <4>1. h' = [h EXCEPT ![w] = call] /\ task' = task
        BY <1>3, <3>2 DEF FindDevices
      <4>2. call.stage = "history" /\ call.task = h[w].task /\ call.todo = registered
        BY <1>0 DEF Invocation
      <4> HIDE DEF call
      <4>3. h'[w] = call
        BY <1>0, <4>1 DEF TypeOK
      <4> QED BY <2>1, <4>1, <4>2, <4>3 DEF Goes
    <3> QED BY <3>1, <3>2
  <2>3. \A t \in Tasks : task[t].holder # w => listed'[t] = listed[t]
    BY <2>1
  <2> QED BY <2>1, <2>2, <2>3 DEF Outcome, Quiet
<1>4. CASE FindSentDevices(w)
  <2> DEFINE call == [h[w] EXCEPT !.todo = h[w].todo \ sentTo[h[w].task], !.stage = "loop"]
  <2>1. /\ h[w].stage = "history" /\ h' = [h EXCEPT ![w] = call]
        /\ UNCHANGED <<enabled, ids, installed, task, registered, sentTo, delivered, listed, spent>>
    BY <1>4 DEF FindSentDevices, At, history, userVars, rowVars
  <2>2. /\ call.stage = "loop" /\ call.task = h[w].task
        /\ call.todo = h[w].todo \ sentTo[h[w].task] /\ call.shouldRetry = h[w].shouldRetry
    BY <1>0 DEF Invocation
  <2> HIDE DEF call
  <2>3. h'[w] = call
    BY <1>0, <2>1 DEF TypeOK
  <2> QED BY <2>1, <2>2, <2>3 DEF Outcome, Quiet, Goes
<1>5. CASE CreatePending(w)
  <2>1. /\ h[w].stage = "loop"
        /\ UNCHANGED <<enabled, registered, ids, installed, sentTo, delivered, listed, spent>>
    BY <1>5 DEF CreatePending, At, userVars, history
  <2>2. PICK d \in h[w].todo :
          \/ d \notin registered /\ Throw(w) /\ UNCHANGED rows
          \/ /\ d \in registered /\ UNCHANGED task
             /\ h' = [h EXCEPT ![w].device = d, ![w].todo = @ \ {d}, ![w].stage = "send"]
    BY <1>5 DEF CreatePending
  <2>3. CASE Throw(w)
    BY <2>1, <2>3 DEF Throw, Outcome, Quiet
  <2>4. CASE /\ d \in registered /\ UNCHANGED task
             /\ h' = [h EXCEPT ![w].device = d, ![w].todo = @ \ {d}, ![w].stage = "send"]
    <3> DEFINE call == [h[w] EXCEPT !.device = d, !.todo = h[w].todo \ {d}, !.stage = "send"]
    <3>1. h' = [h EXCEPT ![w] = call] /\ d \in registered /\ task' = task
      BY <2>4
    <3>2. /\ call.stage = "send" /\ call.task = h[w].task /\ call.device = d
          /\ call.todo = h[w].todo \ {d} /\ call.shouldRetry = h[w].shouldRetry
      BY <1>0 DEF Invocation
    <3> HIDE DEF call
    <3>3. h'[w] = call
      BY <1>0, <3>1 DEF TypeOK
    <3>4. /\ d \in registered /\ Goes(w, "loop", "send")
          /\ h'[w].device = d /\ h'[w].todo = h[w].todo \ {d}
          /\ h'[w].shouldRetry = h[w].shouldRetry
          /\ Quiet /\ UNCHANGED listed
      BY <2>1, <3>1, <3>2, <3>3 DEF Quiet, Goes
    <3> QED BY <2>1, <3>4 DEF Outcome
  <2> QED BY <2>2, <2>3, <2>4
<1>6. CASE Send(w)
  <2>1. /\ h[w].stage = "send"
        /\ UNCHANGED <<enabled, registered, ids, installed, sentTo, listed>>
    BY <1>6 DEF Send, At, userVars, rowVars
  <2>2. CASE SendAccepted(w)
    <3>1. Accept(w) /\ Step(w, "sent") /\ UNCHANGED spent /\ Token(h[w].device) \in installed
      BY <2>2 DEF SendAccepted
    <3>2. Goes(w, "send", "sent") /\ Same(w) /\ h'[w].shouldRetry = h[w].shouldRetry
      BY <1>b, <2>1, <3>1 DEF Stages
    <3> QED BY <2>1, <3>1, <3>2 DEF Outcome
  <2>3. CASE SendLostAnswer(w)
    <3>1. Accept(w) /\ Retry(w) /\ Spend("lostanswer") /\ Token(h[w].device) \in installed
      BY <2>3 DEF SendLostAnswer
    <3>2. Goes(w, "send", "failed") /\ Same(w) /\ h'[w].shouldRetry = TRUE
      BY <1>c, <2>1, <3>1
    <3> QED BY <2>1, <3>1, <3>2 DEF Outcome
  <2>4. CASE SendUnavailable(w)
    <3>1. Retry(w) /\ Spend("unavailable") /\ UNCHANGED delivered
      BY <2>4 DEF SendUnavailable
    <3>2. Goes(w, "send", "failed") /\ Same(w) /\ h'[w].shouldRetry = TRUE
      BY <1>c, <2>1, <3>1
    <3> QED BY <2>1, <3>1, <3>2 DEF Outcome
  <2>5. CASE SendRefused(w)
    <3>1. Step(w, "failed") /\ Spend("refuse") /\ UNCHANGED delivered
      BY <2>5 DEF SendRefused
    <3>2. Goes(w, "send", "failed") /\ Same(w)
      BY <1>b, <2>1, <3>1 DEF Stages
    <3> QED BY <2>1, <3>1, <3>2 DEF Outcome
  <2>6. CASE SendUnregistered(w)
    <3>1. Step(w, "delete") /\ UNCHANGED <<delivered, spent>> /\ Token(h[w].device) \notin installed
      BY <2>6 DEF SendUnregistered
    <3>2. Goes(w, "send", "delete") /\ Same(w) /\ h'[w].shouldRetry = h[w].shouldRetry
      BY <1>b, <2>1, <3>1 DEF Stages
    <3> QED BY <2>1, <3>1, <3>2 DEF Outcome
  <2> QED BY <1>6, <2>2, <2>3, <2>4, <2>5, <2>6 DEF Send
<1>7. CASE MarkSent(w)
  <2>1. /\ h[w].stage = "sent" /\ Step(w, "loop")
        /\ sentTo' = [sentTo EXCEPT ![h[w].task] = @ \cup ({h[w].device} \cap registered)]
        /\ UNCHANGED <<enabled, registered, ids, installed, delivered, listed, spent>>
    BY <1>7 DEF MarkSent, At, userVars, history
  <2>2. Goes(w, "sent", "loop") /\ Same(w) /\ h'[w].shouldRetry = h[w].shouldRetry
    BY <1>b, <2>1 DEF Stages
  <2> QED BY <2>1, <2>2 DEF Outcome
<1>8. CASE DeleteDevice(w)
  <2>1. /\ h[w].stage = "delete" /\ UNCHANGED <<enabled, ids, installed, delivered, listed, spent>>
    BY <1>8 DEF DeleteDevice, At, history
  <2>2. CASE DeleteDeviceRow(h[w].device) /\ Step(w, "failed")
    <3>1. Goes(w, "delete", "failed") /\ Same(w) /\ h'[w].shouldRetry = h[w].shouldRetry
      BY <1>b, <2>1, <2>2 DEF Stages
    <3> QED BY <2>1, <2>2, <3>1 DEF Outcome
  <2>3. CASE Throw(w) /\ UNCHANGED <<registered, sentTo>>
    BY <2>1, <2>3 DEF Throw, Outcome, Quiet
  <2> QED BY <1>8, <2>2, <2>3 DEF DeleteDevice
<1>9. CASE MarkFailed(w)
  <2>1. /\ h[w].stage = "failed" /\ Step(w, "loop")
        /\ UNCHANGED <<enabled, registered, ids, installed, sentTo, delivered, listed, spent>>
    BY <1>9 DEF MarkFailed, At, userVars, history
  <2>2. Goes(w, "failed", "loop") /\ Same(w) /\ h'[w].shouldRetry = h[w].shouldRetry
    BY <1>b, <2>1 DEF Stages
  <2> QED BY <2>1, <2>2 DEF Outcome, Quiet
<1>10. CASE Finish(w)
  <2>1. /\ h[w].stage = "loop" /\ h[w].todo = {}
        /\ UNCHANGED <<enabled, registered, ids, installed, sentTo, delivered, listed, spent>>
        /\ Answer(w, IF h[w].shouldRetry THEN "ready" ELSE "done")
    BY <1>10 DEF Finish, At, history, Return, Throw, userVars, rowVars
  <2> QED BY <2>1 DEF Outcome, Quiet
<1>11. CASE Fail(w)
  <2>1. /\ h[w].stage # "idle" /\ Answer(w, "ready") /\ Spend("fail")
        /\ UNCHANGED <<enabled, registered, ids, installed, sentTo, delivered, listed>>
    BY <1>11 DEF Fail, At, history, Throw, userVars, rowVars
  <2> QED BY <2>1 DEF Outcome
<1> QED BY <1>1, <1>2, <1>3, <1>4, <1>5, <1>6, <1>7, <1>8, <1>9, <1>10, <1>11 DEF Handler

LEMMA AcceptFacts ==
  ASSUME TypeOK, NEW w \in Workers, Accept(w), h[w].task \in Tasks,
         Token(h[w].device) \in Tokens
  PROVE  \A t \in Tasks, k \in Tokens :
            /\ delivered[t][k] \in Nat
            /\ delivered'[t][k] = IF t = h[w].task /\ k = Token(h[w].device)
                                  THEN delivered[t][k] + 1 ELSE delivered[t][k]
  BY DEF Accept, TypeOK

LEMMA SendTypes ==
  ASSUME TypeInv, NEW w \in Workers, h[w].stage \in Open
  PROVE  h[w].task \in Tasks /\ h[w].device \in Devices /\ Token(h[w].device) \in Tokens
  BY DeviceType DEF TypeInv, TypeOK, Invocation, ListInv

LEMMA ServeHandler ==
  ASSUME TypeInv, TypeInv', ServeInv, NEW w \in Workers, Turns(w), Outcome(w),
         UNCHANGED <<enabled, ids, installed>>
  PROVE  ServeInv'
<1>0. /\ TypeOK /\ TypeOK' /\ ListInv(w) /\ h[w].task \in Tasks
      /\ \A k \in Faults : spent[k] \in Nat
  BY DEF TypeInv, TypeOK, Invocation
<1>1. registered' \subseteq registered
  BY DEF Outcome, Quiet, DeleteDeviceRow
<1>2. \A k \in Faults : spent'[k] \in Nat /\ spent'[k] >= spent[k]
  <2>1. \A kind \in Faults : Spend(kind) => \A k \in Faults : spent'[k] \in Nat /\ spent'[k] >= spent[k]
    BY <1>0, SpendGrows
  <2>2. {"fail", "lostanswer", "unavailable", "refuse"} \subseteq Faults
    BY DEF Faults
  <2>3. \/ spent' = spent \/ Spend("fail") \/ Spend("lostanswer")
        \/ Spend("unavailable") \/ Spend("refuse")
    BY DEF Outcome, Quiet
  <2> QED BY <1>0, <2>1, <2>2, <2>3
<1>3. \/ delivered' = delivered
      \/ /\ h[w].stage = "send" /\ h'[w].stage \in {"sent", "failed"} /\ Accept(w)
         /\ Same(w) /\ h'[w].task = h[w].task
  BY DEF Outcome, Quiet, Goes
<1>4. \A t \in Tasks, k \in Tokens : delivered'[t][k] >= delivered[t][k]
  <2>1. CASE delivered' = delivered
    BY <1>0, <2>1 DEF TypeOK
  <2>2. CASE h[w].stage = "send" /\ Accept(w)
    <3>1. \A t \in Tasks, k \in Tokens :
            /\ delivered[t][k] \in Nat
            /\ delivered'[t][k] = IF t = h[w].task /\ k = Token(h[w].device)
                                  THEN delivered[t][k] + 1 ELSE delivered[t][k]
      BY <1>0, <2>2, SendTypes, AcceptFacts DEF Open
    <3> QED BY <3>1
  <2> QED BY <1>3, <2>1, <2>2
<1>5. \A t \in Tasks : task[t].holder # w => listed'[t] = listed[t]
  BY DEF Outcome
<1>6. \A t \in Tasks : \A d \in sentTo'[t] : d \in sentTo[t] \/ delivered'[t][Token(d)] > 0
  <2>1. CASE /\ h[w].stage = "sent" /\ delivered' = delivered
             /\ sentTo' = [sentTo EXCEPT ![h[w].task] = @ \cup ({h[w].device} \cap registered)]
    <3>1. delivered[h[w].task][Token(h[w].device)] > 0
      BY <2>1 DEF ServeInv
    <3> QED BY <1>0, <2>1, <3>1 DEF TypeOK
  <2>2. CASE DeleteDeviceRow(h[w].device)
    BY <2>2 DEF DeleteDeviceRow
  <2>3. CASE sentTo' = sentTo
    BY <2>3
  <2> QED BY <2>1, <2>2, <2>3 DEF Outcome, Quiet, Goes
<1>7. h'[w].stage = "sent" => delivered'[h'[w].task][Token(h'[w].device)] > 0
  <2>1. SUFFICES ASSUME h'[w].stage = "sent"
                 PROVE  delivered'[h'[w].task][Token(h'[w].device)] > 0
    OBVIOUS
  <2>2. \A state \in {"done", "ready"} : ~ Answer(w, state)
    <3>1. SUFFICES ASSUME NEW state \in {"done", "ready"}, Answer(w, state) PROVE FALSE
      OBVIOUS
    <3>2. h'[w].stage = "idle"
      BY <1>0, <3>1, AnswerFacts DEF States
    <3> QED BY <2>1, <3>2
  <2>3. /\ h[w].stage = "send" /\ Accept(w) /\ Same(w) /\ h'[w].task = h[w].task
    BY <2>1, <2>2 DEF Outcome, Goes
  <2>4. h[w].task \in Tasks /\ Token(h[w].device) \in Tokens
    BY <2>3, SendTypes DEF Open
  <2>5. /\ delivered[h[w].task][Token(h[w].device)] \in Nat
        /\ delivered'[h[w].task][Token(h[w].device)]
              = delivered[h[w].task][Token(h[w].device)] + 1
    BY <1>0, <2>3, <2>4, AcceptFacts
  <2> QED BY <2>3, <2>5 DEF Same
<1>8. enabled => h'[w].stage # "disabled"
  <2>1. SUFFICES ASSUME enabled, h'[w].stage = "disabled" PROVE FALSE
    OBVIOUS
  <2>2. \A state \in {"done", "ready"} : ~ Answer(w, state)
    <3>1. SUFFICES ASSUME NEW state \in {"done", "ready"}, Answer(w, state) PROVE FALSE
      OBVIOUS
    <3>2. h'[w].stage = "idle"
      BY <1>0, <3>1, AnswerFacts DEF States
    <3> QED BY <2>1, <3>2
  <2> QED BY <2>1, <2>2 DEF Outcome, Goes
<1>9. ASSUME NEW t \in Tasks, NEW d \in Devices, task[t].holder = w, t = h[w].task,
             Calm', Missed(t, d)', Missed(t, d) => Reaches(w, d)
      PROVE  Reaches(w, d)' \/ Answer(w, "ready")
  <2>0. /\ d \in registered' /\ Token(d) \in installed /\ delivered'[t][Token(d)] = 0
        /\ Token(d) \in Tokens /\ spent'["refuse"] = 0
    BY <1>9, DeviceType DEF Missed, Calm
  <2>1. spent["toggle"] = 0
    BY <1>0, <1>2, <1>9 DEF Calm, Faults
  <2>2. enabled /\ h[w].stage # "disabled"
    BY <2>1 DEF ServeInv
  <2>3. CASE delivered' = delivered /\ listed' = listed
    <3>1. Missed(t, d) /\ Reaches(w, d)
      BY <1>1, <1>9, <2>0, <2>3 DEF Missed
    <3>2. d \notin sentTo[t]
      BY <2>0, <2>3 DEF ServeInv
    <3>3. ~ Spend("refuse")
      <4>1. SUFFICES ASSUME Spend("refuse") PROVE FALSE
        OBVIOUS
      <4>2. spent'["refuse"] = spent["refuse"] + 1 /\ spent["refuse"] \in Nat
        BY <1>0, <4>1, SpendFacts DEF Faults
      <4> QED BY <2>0, <4>2
    <3>4. h'[w].stage = "history" => d \in h'[w].todo
      <4>1. SUFFICES ASSUME h'[w].stage = "history" PROVE d \in h'[w].todo
        OBVIOUS
      <4>2. \A state \in {"done", "ready"} : ~ Answer(w, state)
        <5>1. SUFFICES ASSUME NEW state \in {"done", "ready"}, Answer(w, state) PROVE FALSE
          OBVIOUS
        <5>2. h'[w].stage = "idle"
          BY <1>0, <5>1, AnswerFacts DEF States
        <5> QED BY <4>1, <5>2
      <4> QED BY <1>1, <2>0, <2>2, <4>1, <4>2 DEF Outcome, Goes
    <3>5. CASE /\ h[w].stage = "loop" /\ h[w].todo = {}
               /\ Answer(w, IF h[w].shouldRetry THEN "ready" ELSE "done")
      BY <3>1, <3>5 DEF Reaches
    <3>6. CASE h'[w].stage = "devices"
      BY <3>6 DEF Reaches
    <3>7. CASE Goes(w, "history", "loop") /\ h'[w].todo = h[w].todo \ sentTo[h[w].task]
               /\ h'[w].shouldRetry = h[w].shouldRetry
      BY <1>9, <3>1, <3>2, <3>7 DEF Reaches, Goes
    <3>8. CASE \E e \in h[w].todo : /\ Goes(w, "loop", "send")
                            /\ h'[w].device = e /\ h'[w].todo = h[w].todo \ {e}
                            /\ h'[w].shouldRetry = h[w].shouldRetry
      BY <3>1, <3>8 DEF Reaches, Goes
    <3>9. CASE h'[w].shouldRetry = TRUE
      BY <3>9 DEF Reaches
    <3>10. CASE /\ Same(w) /\ h'[w].shouldRetry = h[w].shouldRetry
                /\ h[w].stage \in {"sent", "delete", "failed"}
      BY <3>1, <3>10 DEF Reaches, Same
    <3>11. CASE Goes(w, "send", "delete") /\ Same(w) /\ Token(h[w].device) \notin installed
                /\ h'[w].shouldRetry = h[w].shouldRetry
      BY <2>0, <3>1, <3>11 DEF Reaches, Same, Goes
    <3>12. CASE h[w].stage = "devices"
      BY <1>1, <2>0, <3>4, <3>12 DEF Outcome, Goes, Reaches
    <3>13. Accept(w) => Token(d) # Token(h[w].device) \/ h[w].stage # "send"
      <4>1. SUFFICES ASSUME Accept(w), h[w].stage = "send", Token(d) = Token(h[w].device)
                     PROVE  FALSE
        OBVIOUS
      <4>2. \A k \in Tokens :
            /\ delivered[t][k] \in Nat
            /\ delivered'[t][k] = IF k = Token(h[w].device)
                                  THEN delivered[t][k] + 1 ELSE delivered[t][k]
        BY <1>0, <1>9, <4>1, SendTypes, AcceptFacts DEF Open
      <4> QED BY <2>0, <2>3, <4>1, <4>2
    <3>14. CASE Goes(w, "send", "sent") /\ Same(w) /\ Accept(w)
                /\ h'[w].shouldRetry = h[w].shouldRetry
      BY <3>1, <3>13, <3>14 DEF Reaches, Same, Goes
    <3> QED BY <1>9, <2>2, <3>3, <3>5, <3>6, <3>7, <3>8, <3>9, <3>10, <3>11, <3>12, <3>14
            DEF Outcome, Goes
  <2>4. CASE h[w].stage = "devices"
    <3>1. CASE registered = {}
      BY <1>1, <2>0, <3>1
    <3>2. CASE registered # {}
      BY <1>1, <2>0, <2>4, <3>2 DEF Outcome, Goes, Reaches
    <3> QED BY <3>1, <3>2
  <2>5. CASE /\ h[w].stage = "send" /\ h'[w].stage \in {"sent", "failed"} /\ Accept(w)
             /\ Same(w) /\ h'[w].task = h[w].task /\ listed' = listed
             /\ (h'[w].shouldRetry = h[w].shouldRetry \/ h'[w].shouldRetry = TRUE)
    <3>1. \A k \in Tokens :
            /\ delivered[t][k] \in Nat
            /\ delivered'[t][k] = IF k = Token(h[w].device)
                                  THEN delivered[t][k] + 1 ELSE delivered[t][k]
      BY <1>0, <1>9, <2>5, SendTypes, AcceptFacts DEF Open
    <3>2. Token(d) # Token(h[w].device) /\ delivered[t][Token(d)] = 0
      BY <2>0, <3>1
    <3>3. Reaches(w, d)
      BY <1>1, <1>9, <2>0, <2>5, <3>2 DEF Missed
    <3> QED BY <2>5, <3>2, <3>3 DEF Reaches, Same
  <2>6. \/ delivered' = delivered /\ listed' = listed
        \/ h[w].stage = "devices"
        \/ /\ h[w].stage = "send" /\ h'[w].stage \in {"sent", "failed"} /\ Accept(w)
           /\ Same(w) /\ h'[w].task = h[w].task /\ listed' = listed
           /\ (h'[w].shouldRetry = h[w].shouldRetry \/ h'[w].shouldRetry = TRUE)
    BY DEF Outcome, Quiet, Goes
  <2> QED BY <2>3, <2>4, <2>5, <2>6
<1> QED BY <1>1, <1>2, <1>4, <1>5, <1>6, <1>7, <1>8, <1>9, ServeTurn

LEMMA ServeUser ==
  ASSUME TypeInv, TypeInv', ServeInv,
         \/ ToggleNotifications
         \/ \E k \in Tokens : Register(k) \/ Uninstall(k)
         \/ \E d \in registered : Unregister(d)
  PROVE  ServeInv'
<1>0. TypeOK /\ \A k \in Faults : spent[k] \in Nat
  BY DEF TypeInv, TypeOK
<1>1. ASSUME UNCHANGED <<task, h, listed, delivered>>,
             \A k \in Faults : spent'[k] \in Nat /\ spent'[k] >= spent[k],
             spent'["toggle"] = 0 => enabled' = enabled,
             \A t \in Tasks : sentTo'[t] \subseteq sentTo[t],
             installed' \subseteq installed,
             \A d \in Devices, t \in Tasks : d \in registered' => d \in registered \/ d \notin listed[t]
      PROVE  ServeInv'
  <2>1. \A k \in {"toggle", "refuse"} : spent'[k] = 0 => spent[k] = 0
    BY <1>0, <1>1 DEF Faults
  <2>2. \A t \in Tasks : \A d \in sentTo'[t] : delivered'[t][Token(d)] > 0
    BY <1>1 DEF ServeInv
  <2>3. \A w \in Workers : h'[w].stage = "sent" => delivered'[h'[w].task][Token(h'[w].device)] > 0
    BY <1>1 DEF ServeInv
  <2>4. spent'["toggle"] = 0 => enabled' /\ \A w \in Workers : h'[w].stage # "disabled"
    BY <1>1, <2>1 DEF ServeInv
  <2>5. ASSUME Calm', NEW t \in Tasks, NEW d \in Devices, Missed(t, d)'
        PROVE  task'[t].state # "done" /\ (task'[t].holder # NoWorker => Reaches(task[t].holder, d)')
    <3>1. Calm /\ Missed(t, d)
      BY <1>1, <2>1, <2>5 DEF Calm, Missed
    <3> QED BY <1>1, <3>1 DEF ServeInv, Reaches
  <2> QED BY <2>2, <2>3, <2>4, <2>5 DEF ServeInv
<1>2. CASE ToggleNotifications
  <2>1. /\ Spend("toggle")
        /\ UNCHANGED <<registered, ids, installed, task, h, rows, sentTo, delivered, listed>>
    BY <1>2 DEF ToggleNotifications, rowVars, history
  <2>2. spent'["toggle"] = spent["toggle"] + 1 /\ spent["toggle"] \in Nat
    BY <1>0, <2>1, SpendFacts DEF Faults
  <2>3. \A k \in Faults : spent'[k] \in Nat /\ spent'[k] >= spent[k]
    BY <1>0, <2>1, SpendGrows DEF Faults
  <2> QED BY <1>1, <2>1, <2>2, <2>3
<1>3. ASSUME NEW k \in Tokens, Uninstall(k) PROVE ServeInv'
  <2>1. /\ Spend("uninstall") /\ installed' \subseteq installed
        /\ UNCHANGED <<enabled, registered, ids, task, h, rows, sentTo, delivered, listed>>
    BY <1>3 DEF Uninstall, rowVars, history
  <2>3. \A n \in Faults : spent'[n] \in Nat /\ spent'[n] >= spent[n]
    BY <1>0, <2>1, SpendGrows DEF Faults
  <2> QED BY <1>1, <2>1, <2>3
<1>4. ASSUME NEW k \in Tokens, Register(k) PROVE ServeInv'
  <2>1. /\ registered' = registered \cup {<<k, ids[k] + 1>>}
        /\ UNCHANGED <<enabled, installed, task, h, rows, sentTo, delivered, listed, spent>>
    BY <1>4 DEF Register, rowVars, history
  <2>2. PICK new : new = <<k, ids[k] + 1>>
    OBVIOUS
  <2>3. ids[k] \in Nat /\ Token(new) = k /\ new[2] = ids[k] + 1
    BY <1>0, <2>2 DEF Token, TypeOK
  <2>4. ~ Known(new)
    BY <2>3 DEF Known
  <2>5. \A t \in Tasks : new \notin listed[t]
    BY <2>4 DEF TypeInv
  <2>6. \A n \in Faults : spent'[n] \in Nat /\ spent'[n] >= spent[n]
    BY <1>0, <2>1
  <2>7. \A d \in Devices, t \in Tasks : d \in registered' => d \in registered \/ d \notin listed[t]
    BY <2>1, <2>2, <2>5
  <2> QED BY <1>1, <2>1, <2>6, <2>7
<1>5. ASSUME NEW d \in registered, Unregister(d) PROVE ServeInv'
  <2>1. /\ Spend("unregister")
        /\ registered' = registered \ {d} /\ sentTo' = [t \in Tasks |-> sentTo[t] \ {d}]
        /\ UNCHANGED <<enabled, installed, ids, task, h, rows, delivered, listed>>
    BY <1>5 DEF Unregister, DeleteDeviceRow, history
  <2>2. \A n \in Faults : spent'[n] \in Nat /\ spent'[n] >= spent[n]
    BY <1>0, <2>1, SpendGrows DEF Faults
  <2> QED BY <1>1, <2>1, <2>2
<1> QED BY <1>2, <1>3, <1>4, <1>5

LEMMA ServeQueue ==
  ASSUME TypeInv, TypeInv', ServeInv,
         \/ \E t \in Tasks : Redeliver(t) \/ Exhaust(t)
         \/ \E w \in Workers, t \in Tasks : Deliver(w, t)
  PROVE  ServeInv'
<1>0. TypeOK /\ \A k \in Faults : spent[k] \in Nat
  BY DEF TypeInv, TypeOK
<1>1. ASSUME NEW t \in Tasks, Redeliver(t) \/ Exhaust(t) PROVE ServeInv'
  <2>1. /\ \A n \in Tasks \ {t} : task'[n] = task[n]
        /\ UNCHANGED <<userVars, h, rowVars, history>>
        /\ \/ /\ Spend("redeliver") /\ task[t].state \in {"out", "done"}
              /\ task'[t].state = "ready" /\ task'[t].holder = NoWorker
           \/ /\ UNCHANGED spent /\ task[t].state = "ready"
              /\ task'[t].state = "dropped" /\ task'[t].holder = task[t].holder
    BY <1>0, <1>1, QueueFacts
  <2>2. UNCHANGED <<enabled, registered, ids, installed, h, rows, sentTo, delivered, listed>>
    BY <2>1 DEF userVars, rowVars, history
  <2>3. \A k \in {"toggle", "refuse"} : spent'[k] = spent[k]
    <3>1. CASE Spend("redeliver")
      BY <1>0, <3>1, SpendFacts DEF Faults
    <3>2. CASE UNCHANGED spent
      BY <3>2
    <3> QED BY <2>1, <3>1, <3>2
  <2>4. HeldInv(t)
    BY DEF TypeInv
  <2>5. task'[t].state # "done" /\ task'[t].holder = NoWorker
    BY <2>1, <2>4 DEF HeldInv
  <2>6. ASSUME Calm', NEW n \in Tasks, NEW d \in Devices, Missed(n, d)'
        PROVE  task'[n].state # "done" /\ (task'[n].holder # NoWorker => Reaches(task[n].holder, d)')
    <3>1. Calm /\ Missed(n, d)
      BY <2>2, <2>3, <2>6 DEF Calm, Missed
    <3>2. CASE n = t
      BY <2>5, <3>2
    <3>3. CASE n # t
      BY <2>1, <2>2, <3>1, <3>3 DEF ServeInv, Reaches
    <3> QED BY <3>2, <3>3
  <2> QED BY <2>2, <2>3, <2>6 DEF ServeInv
<1>2. ASSUME NEW w \in Workers, NEW t \in Tasks, Deliver(w, t) PROVE ServeInv'
  <2>1. /\ \A v \in Workers \ {w} : h'[v] = h[v]
        /\ h'[w].stage = "coupon" /\ h[w].stage = "idle"
        /\ task'[t].state = "out" /\ task'[t].holder = w /\ task[t].state = "ready"
        /\ \A n \in Tasks \ {t} : task'[n] = task[n]
        /\ UNCHANGED <<userVars, rowVars, history, spent>>
    BY <1>0, <1>2, DeliverFacts
  <2>2. UNCHANGED <<enabled, registered, ids, installed, rows, sentTo, delivered, listed, spent>>
    BY <2>1 DEF userVars, rowVars, history
  <2>3. ASSUME Calm', NEW n \in Tasks, NEW d \in Devices, Missed(n, d)'
        PROVE  task'[n].state # "done" /\ (task'[n].holder # NoWorker => Reaches(task[n].holder, d)')
    <3>1. Calm /\ Missed(n, d)
      BY <2>2, <2>3 DEF Calm, Missed
    <3>2. CASE n = t
      BY <2>1, <3>2 DEF Reaches
    <3>3. CASE n # t
      <4>1. HeldInv(n) /\ task[n].holder \in Workers \cup {NoWorker} /\ task'[n] = task[n]
        BY <1>0, <2>1, <3>3 DEF TypeInv, TypeOK
      <4>2. task[n].holder # NoWorker => task[n].holder \in Workers \ {w}
        BY <2>1, <4>1 DEF HeldInv
      <4> QED BY <2>1, <3>1, <4>1, <4>2 DEF ServeInv, Reaches
    <3> QED BY <3>2, <3>3
  <2>4. \A v \in Workers : h'[v].stage = "sent" => delivered'[h'[v].task][Token(h'[v].device)] > 0
    <3>1. ASSUME NEW v \in Workers, h'[v].stage = "sent" PROVE h'[v] = h[v] /\ h[v].stage = "sent"
      BY <2>1, <3>1
    <3> QED BY <2>2, <3>1 DEF ServeInv
  <2>5. spent'["toggle"] = 0 => enabled' /\ \A v \in Workers : h'[v].stage # "disabled"
    BY <2>1, <2>2 DEF ServeInv
  <2> QED BY <2>2, <2>3, <2>4, <2>5 DEF ServeInv
<1> QED BY <1>1, <1>2

LEMMA ServeInit == Init => ServeInv
<1> SUFFICES ASSUME Init PROVE ServeInv
  OBVIOUS
<1>1. \A w \in Workers : h[w].stage = "idle"
  BY IdleType DEF Init
<1>2. enabled /\ \A t \in Tasks : sentTo[t] = {} /\ listed[t] = {}
  BY DEF Init
<1> QED BY <1>1, <1>2 DEF ServeInv, Missed

LEMMA ServeStep == TypeInv /\ TypeInv' /\ ServeInv /\ [Next]_vars => ServeInv'
<1> SUFFICES ASSUME TypeInv, TypeInv', ServeInv, [Next]_vars PROVE ServeInv'
  OBVIOUS
<1>1. CASE \/ ToggleNotifications
           \/ \E k \in Tokens : Register(k) \/ Uninstall(k)
           \/ \E d \in registered : Unregister(d)
  BY <1>1, ServeUser
<1>2. CASE \/ \E t \in Tasks : Redeliver(t) \/ Exhaust(t)
           \/ \E w \in Workers, t \in Tasks : Deliver(w, t)
  BY <1>2, ServeQueue
<1>3. ASSUME NEW w \in Workers, Handler(w) \/ Fail(w) PROVE ServeInv'
  BY <1>3, HandlerTypes, HandlerFacts, ServeHandler
<1>4. CASE UNCHANGED vars
  BY <1>4 DEF vars, userVars, rowVars, history, ServeInv, Missed, Calm, Reaches
<1> QED BY <1>1, <1>2, <1>3, <1>4 DEF Next

(* A device that a task's handler listed stays before that handler, or makes *)
(* it ask for a retry, until the push service took the notification.         *)
THEOREM ServeInvariant == Spec => []ServeInv
<1>1. Init => ServeInv
  BY ServeInit
<1>2. TypeInv /\ TypeInv' /\ ServeInv /\ [Next]_vars => ServeInv'
  BY ServeStep
<1> QED BY <1>1, <1>2, TypeCorrect, PTL DEF Spec

(* NotificationService.dispatch and the controller's 500: unless FCM refused *)
(* a message or notifications were off, a closed task reached every device   *)
(* that was listed for it and still exists.                                  *)
THEOREM ClosedTasksServed == Spec => []DoneServesAll
<1>1. TypeInv /\ ServeInv => DoneServesAll
  <2> SUFFICES ASSUME TypeInv, ServeInv, NEW t \in Tasks, task[t].state = "done", Calm,
                      NEW d \in listed[t] \cap registered, Token(d) \in installed
               PROVE  delivered[t][Token(d)] > 0
    BY DEF DoneServesAll, Calm
  <2>1. d \in Devices /\ delivered \in [Tasks -> [Tokens -> Nat]]
    BY DEF TypeInv, TypeOK
  <2>2. delivered[t][Token(d)] \in Nat
    BY <2>1, DeviceType
  <2>3. ~ Missed(t, d)
    BY <2>1 DEF ServeInv
  <2> QED BY <2>2, <2>3 DEF Missed
<1> QED BY <1>1, TypeCorrect, ServeInvariant, PTL

-----------------------------------------------------------------------------
(* A token gets a notification twice only by a fault.                        *)
LEMMA FewerMove ==
  ASSUME NEW A \in SUBSET Workers, NEW B \in SUBSET Workers, NEW w, B \ {w} \subseteq A \ {w}
  PROVE  /\ Cardinality(A) \in Nat /\ Cardinality(B) \in Nat
         /\ Cardinality(B) <= Cardinality(A) + In(w, B) - In(w, A)
<1>1. ASSUME NEW S \in SUBSET Workers
      PROVE  /\ Cardinality(S) \in Nat /\ Cardinality(S \ {w}) \in Nat
             /\ Cardinality(S) = Cardinality(S \ {w}) + In(w, S)
  <2>1. S \ {w} \in SUBSET Workers /\ (S \ {w}) \ {w} = S \ {w} /\ w \notin S \ {w}
    OBVIOUS
  <2>2. /\ Cardinality(S) \in Nat /\ Cardinality(S \ {w}) \in Nat
        /\ Cardinality(S) = Cardinality(S \ {w}) + In(w, S) - In(w, S \ {w})
    BY <2>1, OneMoves
  <2> QED BY <2>1, <2>2 DEF In
<1>2. IsFiniteSet(A \ {w})
  BY FS_Subset
<1>3. Cardinality(B \ {w}) <= Cardinality(A \ {w})
  BY <1>2, FS_Subset
<1>4. In(w, A) \in {0, 1} /\ In(w, B) \in {0, 1}
  BY DEF In
<1> QED BY <1>1, <1>3, <1>4

LEMMA DebtTypes ==
  /\ \A b : Bit(b) \in {0, 1}
  /\ \A w, t, k : Holds(w, t, k) \in 0..2
  /\ \A t, k : Owed(t, k) \in 0..2 /\ Strays(t, k) \in Nat
<1>1. \A b : Bit(b) \in {0, 1}
  BY DEF Bit
<1>2. ASSUME NEW w, NEW t, NEW k PROVE Holds(w, t, k) \in 0..2
  <2>1. Bit(Lapsed(w, k)) \in {0, 1}
    BY <1>1
  <2>2. Bit(Due(w, t, k)) \in {0, 1}
    BY DEF Bit
  <2> QED BY <2>1, <2>2 DEF Holds
<1>3. ASSUME NEW t, NEW k PROVE Owed(t, k) \in 0..2 /\ Strays(t, k) \in Nat
  <2>1. Bit(~ Served(t, k)) \in 0..2
    BY DEF Bit
  <2>2. Holds(task[t].holder, t, k) \in 0..2
    BY <1>2
  <2>3. Strays(t, k) \in Nat
    BY FS_Subset, FS_CardinalityType DEF Strays
  <2> QED BY <2>1, <2>2, <2>3 DEF Owed
<1> QED BY <1>1, <1>2, <1>3

LEMMA HiddenType == ASSUME TypeOK PROVE Hidden \in Nat
  BY DEF TypeOK, Hidden, Faults

(* Handlers but w, seen by a token whose rows stay: they owe no more.        *)
LEMMA OthersOwe ==
  ASSUME TypeInv, NEW w \in Workers, \A v \in Workers \ {w} : h'[v] = h[v],
         NEW k \in Tokens,
         \A d \in Devices : Token(d) = k => (d \in registered' <=> d \in registered),
         \A d \in Devices, n \in Tasks : Token(d) = k /\ d \in sentTo[n] => d \in sentTo'[n]
  PROVE  /\ \A v \in Workers \ {w} : Sends(v, k)' => Sends(v, k)
         /\ \A t \in Tasks : Served(t, k) => Served(t, k)'
         /\ \A v \in Workers \ {w}, t \in Tasks : Holds(v, t, k)' <= Holds(v, t, k)
<1>0. TypeOK
  BY DEF TypeInv
<1>1. ASSUME NEW v \in Workers \ {w}
      PROVE  /\ Lists(v, k)' => Lists(v, k)
             /\ Sending(v, k)' <=> Sending(v, k)
             /\ Lapsed(v, k)' <=> Lapsed(v, k)
             /\ Marks(v, k)' <=> Marks(v, k)
             /\ Resends(v, k)' => Resends(v, k)
             /\ Sends(v, k)' => Sends(v, k)
  <2>1. h'[v] = h[v] /\ h[v].task \in Tasks /\ h[v].todo \subseteq Devices
    BY <1>0 DEF TypeOK, Invocation
  <2>2. h[v].stage \in {"send", "sent"} => h[v].device \in Devices
    BY DEF TypeInv, ListInv, Open
  <2>3. Lists(v, k)' => Lists(v, k)
    BY <2>1 DEF Lists
  <2>4. Sending(v, k)' <=> Sending(v, k)
    BY <2>1 DEF Sending
  <2>5. Sending(v, k) => (h[v].device \in registered' <=> h[v].device \in registered)
    BY <2>2 DEF Sending
  <2>6. Lapsed(v, k)' <=> Lapsed(v, k)
    BY <2>1, <2>4, <2>5 DEF Lapsed
  <2>7. Marks(v, k)' <=> Marks(v, k)
    BY <2>1, <2>2 DEF Marks
  <2>8. Resends(v, k)' => Resends(v, k)
    BY <2>1, <2>3, <2>4, <2>5 DEF Resends
  <2>9. Sends(v, k)' => Sends(v, k)
    BY <2>1, <2>3, <2>4 DEF Sends
  <2> QED BY <2>3, <2>4, <2>6, <2>7, <2>8, <2>9
<1>2. ASSUME NEW t \in Tasks, Served(t, k) PROVE Served(t, k)'
  <2>1. sentTo[t] \subseteq Devices
    BY <1>0 DEF TypeOK
  <2> QED BY <1>2, <2>1 DEF Served
<1>3. ASSUME NEW v \in Workers \ {w}, NEW t \in Tasks PROVE Holds(v, t, k)' <= Holds(v, t, k)
  <2>1. Bit(Lapsed(v, k))' = Bit(Lapsed(v, k)) /\ Bit(Lapsed(v, k)) \in {0, 1}
    BY <1>1 DEF Bit
  <2>2. /\ Bit(Due(v, t, k))' <= Bit(Due(v, t, k))
        /\ Bit(Due(v, t, k))' \in {0, 1} /\ Bit(Due(v, t, k)) \in {0, 1}
    BY <1>1, <1>2 DEF Bit, Due
  <2> QED BY <2>1, <2>2 DEF Holds
<1> QED BY <1>1, <1>2, <1>3

(* What a turn may add is paid by the fault it is, for the handler's task.   *)
LEMMA PushTurn ==
  ASSUME TypeInv, TypeInv', NEW w \in Workers, Turns(w), NEW t0 \in Tasks, h[w].task = t0,
         NEW k \in Tokens,
         \A d \in Devices : Token(d) = k => (d \in registered' <=> d \in registered),
         \A d \in Devices, n \in Tasks : Token(d) = k /\ d \in sentTo[n] => d \in sentTo'[n],
         \A n \in Tasks \ {t0} : delivered'[n][k] = delivered[n][k],
         Hidden' >= Hidden,
         task[t0].holder # w =>
            delivered'[t0][k] + Bit(Sends(w, k))' <= delivered[t0][k] + Bit(Sends(w, k)) + Hidden' - Hidden,
         task[t0].holder = w =>
            delivered'[t0][k] + Owed(t0, k)' <= delivered[t0][k] + Owed(t0, k) + Hidden' - Hidden,
         NEW t \in Tasks, delivered[t][k] + Strays(t, k) + Owed(t, k) <= 1 + Hidden
  PROVE  delivered'[t][k] + Strays(t, k)' + Owed(t, k)' <= 1 + Hidden'
<1> DEFINE A == {v \in Workers : h[v].task = t /\ task[t].holder # v /\ Sends(v, k)}
           B == {v \in Workers : h'[v].task = t /\ task'[t].holder # v /\ Sends(v, k)'}
<1>0. /\ TypeOK /\ HeldInv(t) /\ HeldInv(t0)
      /\ \A n \in Tasks : delivered[n][k] \in Nat /\ delivered'[n][k] \in Nat
      /\ Hidden \in Nat /\ Hidden' \in Nat
  <2>1. TypeOK /\ TypeOK' /\ HeldInv(t) /\ HeldInv(t0)
    BY DEF TypeInv
  <2>2. Hidden' \in Nat
    BY <2>1 DEF TypeOK, Hidden, Faults
  <2>3. \A n \in Tasks : delivered'[n][k] \in Nat
    BY <2>1 DEF TypeOK
  <2> QED BY <2>1, <2>2, <2>3, HiddenType DEF TypeOK
<1>1. /\ \A v \in Workers \ {w} : h'[v] = h[v]
      /\ h'[w].task = h[w].task \/ h'[w].stage = "idle"
  BY TurnFacts
<1>2. /\ \A v \in Workers \ {w} : Sends(v, k)' => Sends(v, k)
      /\ Served(t, k) => Served(t, k)'
      /\ \A v \in Workers \ {w} : Holds(v, t, k)' <= Holds(v, t, k)
  BY <1>1, OthersOwe
<1>3. \/ task' = task /\ h'[w].task = h[w].task
      \/ /\ h'[w].stage = "idle"
         /\ task'[t] = task[t] \/ (task[t].holder = w /\ task'[t].holder = NoWorker)
  <2>1. CASE task' = task /\ h'[w].task = h[w].task
    BY <2>1
  <2>2. ASSUME NEW state \in {"done", "ready"}, Answer(w, state)
        PROVE  /\ h'[w].stage = "idle"
               /\ task'[t] = task[t] \/ (task[t].holder = w /\ task'[t].holder = NoWorker)
    <3>1. h'[w].stage = "idle"
      BY <1>0, <2>2, AnswerFacts DEF States
    <3> QED BY <2>2, <3>1 DEF Answer
  <2> QED BY <2>1, <2>2 DEF Turns
<1>4. h'[w].stage = "idle" => ~ Sends(w, k)'
  BY DEF Sends, Lists, Sending, Listing
<1>5. B \ {w} \subseteq A \ {w}
  <2>1. ASSUME NEW v \in Workers \ {w}, h'[v].task = t, task'[t].holder # v, Sends(v, k)'
        PROVE  h[v].task = t /\ task[t].holder # v /\ Sends(v, k)
    <3>1. h[v].task = t /\ Sends(v, k)
      BY <1>1, <1>2, <2>1
    <3>2. task[t].holder # v
      BY <1>3, <2>1
    <3> QED BY <3>1, <3>2
  <2> QED BY <2>1
<1>6. Strays(t, k) = Cardinality(A) /\ Strays(t, k)' = Cardinality(B)
  BY DEF Strays
<1>7. /\ Cardinality(A) \in Nat /\ Cardinality(B) \in Nat
      /\ Cardinality(B) <= Cardinality(A) + In(w, B) - In(w, A)
  <2>1. A \in SUBSET Workers /\ B \in SUBSET Workers
    OBVIOUS
  <2> HIDE DEF A, B
  <2> QED BY <1>5, <2>1, FewerMove
<1>8. w \in A <=> t = t0 /\ task[t].holder # w /\ Sends(w, k)
  OBVIOUS
<1>9. w \in B <=> h'[w].task = t /\ task'[t].holder # w /\ Sends(w, k)'
  OBVIOUS
<1> HIDE DEF A, B
<1>10. /\ Owed(t, k) \in 0..2 /\ Owed(t, k)' \in 0..2
       /\ In(w, A) \in {0, 1} /\ In(w, B) \in {0, 1}
  <2>1. Owed(t, k)' \in 0..2
    <3>1. Bit(~ Served(t, k))' \in 0..2
      BY DEF Bit
    <3>2. Holds(task[t].holder, t, k)' \in 0..2
      <4>1. Bit(Lapsed(task[t].holder, k))' \in {0, 1}
        BY DEF Bit
      <4>2. Bit(Due(task[t].holder, t, k))' \in {0, 1}
        BY DEF Bit
      <4> QED BY <4>1, <4>2 DEF Holds
    <3> QED BY <3>1, <3>2 DEF Owed
  <2> QED BY <2>1, DebtTypes DEF In
<1>11. task[t].holder # w => Owed(t, k)' <= Owed(t, k)
  <2>1. SUFFICES ASSUME task[t].holder # w PROVE Owed(t, k)' <= Owed(t, k)
    OBVIOUS
  <2>2. task'[t] = task[t]
    BY <1>3, <2>1
  <2>3. CASE task[t].state = "ready"
    BY <1>2, <2>2, <2>3 DEF Owed, Bit
  <2>4. CASE task[t].state = "out"
    <3>1. PICK v \in Workers \ {w} : v = task[t].holder
      BY <1>0, <2>1, <2>4 DEF TypeOK, HeldInv
    <3>2. Owed(t, k) = Holds(v, t, k)
      BY <2>4, <3>1 DEF Owed
    <3>3. Owed(t, k)' = Holds(v, t, k)'
      BY <2>2, <2>4, <3>1 DEF Owed
    <3> QED BY <1>2, <3>2, <3>3
  <2>5. CASE task[t].state \notin {"ready", "out"}
    BY <2>2, <2>5 DEF Owed
  <2> QED BY <2>3, <2>4, <2>5
<1>12. CASE t = t0 /\ task[t].holder = w
  <2>1. w \notin A /\ w \notin B
    <3>1. w \notin A
      BY <1>8, <1>12
    <3>2. w \notin B
      BY <1>3, <1>4, <1>9, <1>12
    <3> QED BY <3>1, <3>2
  <2>2. In(w, A) = 0 /\ In(w, B) = 0
    BY <2>1 DEF In
  <2>3. delivered'[t][k] + Owed(t, k)' <= delivered[t][k] + Owed(t, k) + Hidden' - Hidden
    BY <1>12
  <2> QED BY <1>0, <1>6, <1>7, <1>10, <2>2, <2>3
<1>13. CASE t = t0 /\ task[t].holder # w
  <2>1. In(w, A) = Bit(Sends(w, k)) /\ In(w, B) <= Bit(Sends(w, k))'
    BY <1>8, <1>9, <1>13 DEF In, Bit
  <2>2. delivered'[t][k] + Bit(Sends(w, k))' <= delivered[t][k] + Bit(Sends(w, k)) + Hidden' - Hidden
    BY <1>13
  <2>3. Bit(Sends(w, k))' \in {0, 1} /\ Bit(Sends(w, k)) \in {0, 1}
    BY DEF Bit
  <2> QED BY <1>0, <1>6, <1>7, <1>10, <1>11, <1>13, <2>1, <2>2, <2>3
<1>14. CASE t # t0
  <2>1. task[t].holder # w
    BY <1>0, <1>14, DispatchAssumption DEF HeldInv
  <2>2. w \notin A /\ w \notin B
    BY <1>1, <1>4, <1>8, <1>9, <1>14
  <2>3. In(w, A) = 0 /\ In(w, B) = 0
    BY <2>2 DEF In
  <2>4. delivered'[t][k] = delivered[t][k]
    BY <1>14
  <2> QED BY <1>0, <1>6, <1>7, <1>10, <1>11, <2>1, <2>3, <2>4
<1> QED BY <1>12, <1>13, <1>14

LEMMA HiddenFacts ==
  ASSUME TypeOK
  PROVE  /\ Hidden \in Nat
         /\ \A kind \in {"fail", "redeliver", "lostanswer", "unregister"} :
               Spend(kind) => Hidden' = Hidden + 1
         /\ \A kind \in {"unavailable", "refuse", "uninstall", "toggle"} :
               Spend(kind) => Hidden' = Hidden
         /\ UNCHANGED spent => Hidden' = Hidden
<1>1. \A kind \in Faults : spent[kind] \in Nat
  BY DEF TypeOK
<1>2. ASSUME NEW kind \in Faults, Spend(kind)
      PROVE  Hidden' = Hidden + (IF kind \in {"fail", "redeliver", "lostanswer", "unregister"}
                                 THEN 1 ELSE 0)
  <2>1. /\ spent'[kind] = spent[kind] + 1
        /\ \A n \in Faults \ {kind} : spent'[n] = spent[n]
    BY <1>2, SpendFacts
  <2> QED BY <1>1, <2>1 DEF Hidden, Faults
<1>3. ASSUME NEW kind \in {"fail", "redeliver", "lostanswer", "unregister"}, Spend(kind)
      PROVE  Hidden' = Hidden + 1
  <2>1. kind \in Faults
    BY DEF Faults
  <2> QED BY <1>2, <1>3, <2>1
<1>4. ASSUME NEW kind \in {"unavailable", "refuse", "uninstall", "toggle"}, Spend(kind)
      PROVE  Hidden' = Hidden
  <2>1. kind \in Faults
    BY DEF Faults
  <2> QED BY <1>2, <1>4, <2>1, HiddenType
<1>5. UNCHANGED spent => Hidden' = Hidden
  BY DEF Hidden
<1> QED BY <1>3, <1>4, <1>5, HiddenType

(* A handler without its task sends what it could send before.               *)
LEMMA StraySends ==
  ASSUME TypeInv, NEW w \in Workers, Outcome(w), NEW t0 \in Tasks, h[w].task = t0,
         NEW k \in installed, k \in Tokens
  PROVE  delivered'[t0][k] + Bit(Sends(w, k))'
           <= delivered[t0][k] + Bit(Sends(w, k)) + Hidden' - Hidden
<1>0. /\ TypeOK /\ ListInv(w) /\ h[w].todo \subseteq Devices /\ delivered[t0][k] \in Nat
      /\ Bit(Sends(w, k)) \in {0, 1} /\ Bit(Sends(w, k))' \in {0, 1}
  BY DEF TypeInv, TypeOK, Invocation, Bit
<1>1. Hidden \in Nat /\ Hidden' \in Nat /\ Hidden' >= Hidden
  <2>1. \/ UNCHANGED spent \/ Spend("fail") \/ Spend("lostanswer") \/ Spend("unavailable")
        \/ Spend("refuse")
    BY DEF Outcome, Quiet
  <2> QED BY <1>0, <2>1, HiddenFacts
<1>2. ASSUME NEW state \in {"done", "ready"}, Answer(w, state) PROVE ~ Sends(w, k)'
  <2>1. h'[w].stage = "idle"
    BY <1>0, <1>2, AnswerFacts DEF States
  <2> QED BY <2>1 DEF Sends, Lists, Sending, Listing
<1>3. ASSUME delivered' = delivered, Sends(w, k)' => Sends(w, k)
      PROVE  delivered'[t0][k] + Bit(Sends(w, k))'
               <= delivered[t0][k] + Bit(Sends(w, k)) + Hidden' - Hidden
  <2>1. Bit(Sends(w, k))' <= Bit(Sends(w, k))
    BY <1>3 DEF Bit
  <2> QED BY <1>0, <1>1, <1>3, <2>1
<1>4. CASE h[w].stage \in {"coupon", "devices"} /\ delivered' = delivered
  BY <1>3, <1>4 DEF Sends
<1>5. CASE (Answer(w, "done") \/ Answer(w, "ready")) /\ delivered' = delivered
  BY <1>2, <1>3, <1>5
<1>6. CASE /\ Goes(w, "history", "loop") /\ h'[w].todo = h[w].todo \ sentTo[h[w].task]
           /\ registered' = registered /\ delivered' = delivered
  <2>1. Lists(w, k)' => Lists(w, k)
    BY <1>6 DEF Goes, Lists, Listing
  <2>2. ~ Sending(w, k)' /\ h'[w].stage = "loop"
    BY <1>6 DEF Goes, Sending
  <2> QED BY <1>3, <1>6, <2>1, <2>2 DEF Sends
<1>7. CASE \E d \in h[w].todo : /\ d \in registered /\ Goes(w, "loop", "send")
                                /\ h'[w].device = d /\ h'[w].todo = h[w].todo \ {d}
                                /\ registered' = registered /\ delivered' = delivered
  <2>1. Lists(w, k)' => Lists(w, k)
    BY <1>7 DEF Goes, Lists, Listing
  <2>2. Sending(w, k)' => Lists(w, k)
    BY <1>7 DEF Goes, Sending, Lists, Listing
  <2>3. h'[w].stage = "send"
    BY <1>7 DEF Goes
  <2> QED BY <1>3, <1>7, <2>1, <2>2, <2>3 DEF Sends
<1>8. CASE /\ Same(w) /\ delivered' = delivered /\ registered' \subseteq registered
           /\ h[w].stage \in {"send", "sent", "delete", "failed"}
           /\ h'[w].stage \in {"failed", "delete", "loop"}
  <2>1. Lists(w, k)' => Lists(w, k)
    BY <1>8 DEF Same, Lists, Listing
  <2>2. ~ Sending(w, k)'
    BY <1>8 DEF Sending
  <2> QED BY <1>3, <1>8, <2>1, <2>2 DEF Sends
<1>9. CASE /\ Same(w) /\ Accept(w) /\ registered' = registered
           /\ h[w].stage = "send" /\ h'[w].stage \in {"sent", "failed"}
  <2>1. delivered'[t0][k] = delivered[t0][k] + (IF k = Token(h[w].device) THEN 1 ELSE 0)
    BY <1>0, <1>9, SendTypes, AcceptFacts DEF Open
  <2>2. Lists(w, k)' => Lists(w, k) /\ k # Token(h[w].device)
    BY <1>0, <1>9 DEF Same, Lists, ListInv, Open, Listing
  <2>3. ~ Sending(w, k)'
    BY <1>9 DEF Sending
  <2>4. Sends(w, k)' => Sends(w, k) /\ k # Token(h[w].device)
    BY <1>9, <2>2, <2>3 DEF Sends
  <2>5. k = Token(h[w].device) => Sends(w, k)
    BY <1>9 DEF Sends, Sending
  <2> QED BY <1>0, <1>1, <2>1, <2>4, <2>5 DEF Bit
<1>10. DeleteDeviceRow(h[w].device) => registered' \subseteq registered
  BY DEF DeleteDeviceRow
<1> QED BY <1>4, <1>5, <1>6, <1>7, <1>8, <1>9, <1>10 DEF Outcome, Goes, Quiet

(* The holder pays for what it sends out of what its task owed.              *)
LEMMA HolderOwes ==
  ASSUME TypeInv, NEW w \in Workers, Outcome(w), NEW t0 \in Tasks, h[w].task = t0,
         task[t0].holder = w, NEW k \in installed, k \in Tokens
  PROVE  delivered'[t0][k] + Owed(t0, k)' <= delivered[t0][k] + Owed(t0, k) + Hidden' - Hidden
<1>0. /\ TypeOK /\ ListInv(w) /\ h[w].todo \subseteq Devices /\ delivered[t0][k] \in Nat
      /\ task[t0].state = "out" /\ sentTo \in [Tasks -> SUBSET registered]
      /\ OnePerToken(registered)
  BY DispatchAssumption DEF TypeInv, TypeOK, Invocation, HeldInv
<1>1. Hidden \in Nat /\ Hidden' \in Nat /\ Hidden' >= Hidden
  <2>1. \/ UNCHANGED spent \/ Spend("fail") \/ Spend("lostanswer") \/ Spend("unavailable")
        \/ Spend("refuse")
    BY DEF Outcome, Quiet
  <2> QED BY <1>0, <2>1, HiddenFacts
<1>2. Owed(t0, k) = Holds(w, t0, k)
  BY <1>0 DEF Owed
<1>3. /\ Bit(Lapsed(w, k)) \in {0, 1} /\ Bit(Lapsed(w, k))' \in {0, 1}
      /\ Bit(Due(w, t0, k)) \in {0, 1} /\ Bit(Due(w, t0, k))' \in {0, 1}
      /\ Owed(t0, k) = Bit(Lapsed(w, k)) + Bit(Due(w, t0, k))
      /\ task' = task => Owed(t0, k)' = Bit(Lapsed(w, k))' + Bit(Due(w, t0, k))'
  <2>1. task' = task => Owed(t0, k)' = Holds(w, t0, k)'
    BY <1>0 DEF Owed
  <2> QED BY <1>2, <2>1 DEF Bit, Holds
<1>4. ASSUME delivered' = delivered, task' = task,
             Lapsed(w, k)' => Lapsed(w, k), Due(w, t0, k)' => Due(w, t0, k)
      PROVE  delivered'[t0][k] + Owed(t0, k)' <= delivered[t0][k] + Owed(t0, k) + Hidden' - Hidden
  <2>1. /\ Bit(Lapsed(w, k))' <= Bit(Lapsed(w, k))
        /\ Bit(Due(w, t0, k))' <= Bit(Due(w, t0, k))
    BY <1>4 DEF Bit
  <2> QED BY <1>0, <1>1, <1>3, <1>4, <2>1
<1>5. \A v : h[v].stage \notin {"send", "sent"} => ~ Lapsed(v, k) /\ ~ Marks(v, k) /\ ~ Sending(v, k)
  BY DEF Lapsed, Marks, Sending
<1>6. h'[w].stage \notin {"send", "sent"} => ~ Lapsed(w, k)' /\ ~ Marks(w, k)' /\ ~ Sending(w, k)'
  BY DEF Lapsed, Marks, Sending
<1>7. sentTo' = sentTo => Served(t0, k)' = Served(t0, k)
  BY DEF Served
<1>8. ASSUME Answer(w, "ready"), delivered' = delivered, sentTo' = sentTo,
             Due(w, t0, k) \/ Served(t0, k) \/ Spend("fail")
      PROVE  delivered'[t0][k] + Owed(t0, k)' <= delivered[t0][k] + Owed(t0, k) + Hidden' - Hidden
  <2>1. task'[t0].state = "ready"
    BY <1>0, <1>8 DEF Answer
  <2>2. Owed(t0, k)' = Bit(~ Served(t0, k))'
    BY <2>1 DEF Owed
  <2>3. Spend("fail") => Hidden' = Hidden + 1
    BY <1>0, HiddenFacts
  <2>4. Bit(~ Served(t0, k))' \in {0, 1} /\ (Served(t0, k) => Bit(~ Served(t0, k))' = 0)
    BY <1>7, <1>8 DEF Bit
  <2>5. Due(w, t0, k) => Bit(Due(w, t0, k)) = 1
    BY DEF Bit
  <2> QED BY <1>0, <1>1, <1>3, <1>8, <2>2, <2>3, <2>4, <2>5
<1>9. ASSUME Answer(w, "done"), delivered' = delivered
      PROVE  delivered'[t0][k] + Owed(t0, k)' <= delivered[t0][k] + Owed(t0, k) + Hidden' - Hidden
  <2>1. task'[t0].state = "done"
    BY <1>0, <1>9 DEF Answer
  <2>2. Owed(t0, k)' = 0
    BY <2>1 DEF Owed
  <2> QED BY <1>0, <1>1, <1>3, <1>9, <2>2
<1>10. CASE /\ Goes(w, "coupon", IF enabled THEN "devices" ELSE "disabled")
            /\ delivered' = delivered /\ sentTo' = sentTo
  <2>1. /\ task' = task /\ h[w].stage = "coupon" /\ h'[w].stage \in {"devices", "disabled"}
    BY <1>10 DEF Goes
  <2>2. ~ Lists(w, k)'
    BY <2>1 DEF Lists, Listing
  <2>3. Due(w, t0, k)' => Due(w, t0, k)
    BY <1>5, <1>6, <1>7, <1>10, <2>1, <2>2 DEF Due, Resends
  <2> QED BY <1>4, <1>6, <1>10, <2>1, <2>3
<1>11. CASE /\ Goes(w, "devices", "history") /\ h'[w].todo = registered
            /\ registered' = registered /\ delivered' = delivered /\ sentTo' = sentTo
  <2>1. task' = task /\ h[w].stage = "devices" /\ h'[w].stage = "history" /\ h'[w].task = t0
    BY <1>11 DEF Goes
  <2>2. Served(t0, k) => ~ Lists(w, k)'
    BY <1>0, <1>11, <2>1 DEF Lists, Served, OnePerToken
  <2>3. Due(w, t0, k)' => Due(w, t0, k)
    BY <1>5, <1>6, <1>7, <1>11, <2>1, <2>2 DEF Due, Resends
  <2> QED BY <1>4, <1>6, <1>11, <2>1, <2>3
<1>12. CASE /\ Goes(w, "history", "loop") /\ h'[w].todo = h[w].todo \ sentTo[h[w].task]
            /\ registered' = registered /\ delivered' = delivered /\ sentTo' = sentTo
  <2>1. task' = task /\ h[w].stage = "history" /\ h'[w].stage = "loop"
    BY <1>12 DEF Goes
  <2>2. Lists(w, k)' => Lists(w, k)
    BY <1>12, <2>1 DEF Lists, Listing
  <2>3. Due(w, t0, k)' => Due(w, t0, k)
    BY <1>5, <1>6, <1>7, <1>12, <2>1, <2>2 DEF Due, Resends
  <2> QED BY <1>4, <1>6, <1>12, <2>1, <2>3
<1>13. CASE \E d \in h[w].todo : /\ d \in registered /\ Goes(w, "loop", "send")
                                 /\ h'[w].device = d /\ h'[w].todo = h[w].todo \ {d}
                                 /\ registered' = registered /\ delivered' = delivered
                                 /\ sentTo' = sentTo
  <2>1. PICK d \in h[w].todo : /\ d \in registered /\ Goes(w, "loop", "send")
                               /\ h'[w].device = d /\ h'[w].todo = h[w].todo \ {d}
                               /\ registered' = registered /\ delivered' = delivered
                               /\ sentTo' = sentTo
    BY <1>13
  <2>2. task' = task /\ h[w].stage = "loop" /\ h'[w].stage = "send"
    BY <2>1 DEF Goes
  <2>3. Lists(w, k)' => Lists(w, k)
    BY <2>1, <2>2 DEF Lists, Listing
  <2>4. Sending(w, k)' => Lists(w, k)
    BY <2>1, <2>2 DEF Sending, Lists, Listing
  <2>5. ~ Lapsed(w, k)'
    BY <2>1 DEF Lapsed
  <2>6. Due(w, t0, k)' => Due(w, t0, k)
    BY <1>5, <1>7, <2>1, <2>2, <2>3, <2>4 DEF Due, Resends
  <2> QED BY <1>4, <2>1, <2>2, <2>5, <2>6
<1>14. CASE /\ Same(w) /\ Accept(w) /\ registered' = registered /\ sentTo' = sentTo
            /\ task' = task /\ h[w].stage = "send"
            /\ h'[w].stage = "sent" \/ (h'[w].stage = "failed" /\ Spend("lostanswer"))
  <2>1. delivered'[t0][k] = delivered[t0][k] + (IF k = Token(h[w].device) THEN 1 ELSE 0)
    BY <1>0, <1>14, SendTypes, AcceptFacts DEF Open
  <2>2. Lists(w, k)' => Lists(w, k) /\ k # Token(h[w].device)
    BY <1>0, <1>14 DEF Same, Lists, ListInv, Open, Listing
  <2>3. ~ Lapsed(w, k)' /\ ~ Sending(w, k)'
    BY <1>14 DEF Lapsed, Sending
  <2>4. Due(w, t0, k)' => ~ Served(t0, k) \/ Lists(w, k)'
    BY <1>7, <1>14, <2>3 DEF Due, Resends
  <2>5. ~ Marks(w, k)
    BY <1>14 DEF Marks
  <2>6. Due(w, t0, k)' => Due(w, t0, k) \/ k = Token(h[w].device)
    BY <2>2, <2>4, <2>5 DEF Due, Resends
  <2>7. ASSUME k = Token(h[w].device), h[w].device \notin registered
        PROVE  Lapsed(w, k) /\ (Due(w, t0, k)' => Due(w, t0, k))
    <3>1. Lapsed(w, k)
      BY <1>14, <2>7 DEF Lapsed, Sending
    <3>2. Due(w, t0, k)' => ~ Served(t0, k)
      BY <2>2, <2>4, <2>7
    <3> QED BY <2>5, <3>1, <3>2 DEF Due
  <2>8. ASSUME k = Token(h[w].device), h[w].device \in registered
        PROVE  Due(w, t0, k) /\ (h'[w].stage = "sent" => ~ Due(w, t0, k)')
    <3>1. Due(w, t0, k)
      BY <1>14, <2>5, <2>8 DEF Due, Resends, Sending
    <3>2. h'[w].stage = "sent" => Marks(w, k)'
      BY <1>14, <2>8 DEF Marks, Same
    <3> QED BY <3>1, <3>2 DEF Due
  <2>9. Spend("lostanswer") => Hidden' = Hidden + 1
    BY <1>0, HiddenFacts
  <2>10. Bit(Lapsed(w, k))' = 0
    BY <2>3 DEF Bit
  <2>11. CASE k # Token(h[w].device)
    <3>1. Bit(Due(w, t0, k))' <= Bit(Due(w, t0, k))
      BY <2>6, <2>11 DEF Bit
    <3> QED BY <1>0, <1>1, <1>3, <1>14, <2>1, <2>10, <2>11, <3>1
  <2>12. CASE k = Token(h[w].device) /\ h[w].device \notin registered
    <3>1. Bit(Due(w, t0, k))' <= Bit(Due(w, t0, k)) /\ Bit(Lapsed(w, k)) = 1
      BY <2>7, <2>12 DEF Bit
    <3> QED BY <1>0, <1>1, <1>3, <1>14, <2>1, <2>10, <2>12, <3>1
  <2>13. CASE k = Token(h[w].device) /\ h[w].device \in registered
    <3>1. Bit(Due(w, t0, k)) = 1 /\ (h'[w].stage = "sent" => Bit(Due(w, t0, k))' = 0)
      BY <2>8, <2>13 DEF Bit
    <3> QED BY <1>0, <1>1, <1>3, <1>14, <2>1, <2>9, <2>10, <2>13, <3>1
  <2> QED BY <2>11, <2>12, <2>13
<1>15. CASE /\ Same(w) /\ delivered' = delivered /\ sentTo' = sentTo /\ registered' = registered
            /\ task' = task /\ h[w].stage \in {"send", "failed"}
            /\ h'[w].stage \in {"failed", "delete", "loop"}
  <2>1. Lists(w, k)' => Lists(w, k)
    BY <1>15 DEF Same, Lists, Listing
  <2>2. ~ Marks(w, k)
    BY <1>15 DEF Marks
  <2>3. Due(w, t0, k)' => Due(w, t0, k)
    BY <1>6, <1>7, <1>15, <2>1, <2>2 DEF Due, Resends
  <2> QED BY <1>4, <1>6, <1>15, <2>3
<1>16. CASE /\ Goes(w, "sent", "loop") /\ Same(w) /\ registered' = registered
            /\ sentTo' = [sentTo EXCEPT ![h[w].task] = @ \cup ({h[w].device} \cap registered)]
            /\ delivered' = delivered
  <2>1. task' = task /\ h[w].stage = "sent" /\ h'[w].stage = "loop"
    BY <1>16 DEF Goes
  <2>2. sentTo'[t0] = sentTo[t0] \cup ({h[w].device} \cap registered)
    BY <1>0, <1>16
  <2>3. Lists(w, k)' => Lists(w, k) /\ k # Token(h[w].device)
    BY <1>0, <1>16, <2>1 DEF Same, Lists, ListInv, Open, Listing
  <2>4. (Served(t0, k) => Served(t0, k)') /\ (Marks(w, k) => Served(t0, k)')
    BY <2>2 DEF Served, Marks
  <2>5. Due(w, t0, k)' => ~ Served(t0, k)' \/ Lists(w, k)'
    BY <1>6, <2>1 DEF Due, Resends
  <2>6. Due(w, t0, k)' => Due(w, t0, k)
    BY <2>3, <2>4, <2>5 DEF Due, Resends, Marks
  <2> QED BY <1>4, <1>6, <1>16, <2>1, <2>6
<1>17. CASE Goes(w, "delete", "failed") /\ Same(w) /\ DeleteDeviceRow(h[w].device) /\ delivered' = delivered
  <2>1. task' = task /\ h[w].stage = "delete" /\ h'[w].stage = "failed"
    BY <1>17 DEF Goes
  <2>2. Token(h[w].device) # k
    BY <1>0, <2>1 DEF ListInv
  <2>3. registered' \subseteq registered /\ sentTo'[t0] = sentTo[t0] \ {h[w].device}
    BY <1>17 DEF DeleteDeviceRow
  <2>4. Lists(w, k)' => Lists(w, k)
    BY <1>17, <2>1, <2>3 DEF Same, Lists, Listing
  <2>5. Served(t0, k) => Served(t0, k)'
    BY <2>2, <2>3 DEF Served
  <2>6. Due(w, t0, k)' => Due(w, t0, k)
    BY <1>5, <1>6, <2>1, <2>4, <2>5 DEF Due, Resends
  <2> QED BY <1>4, <1>6, <1>17, <2>1, <2>6
<1>18. CASE /\ Answer(w, "ready") /\ delivered' = delivered /\ sentTo' = sentTo
            /\ h[w].stage \in {"loop", "delete"} \/ Spend("fail")
  <2>1. h[w].stage \in {"loop", "delete"} => ~ Marks(w, k)
    BY DEF Marks
  <2>2. Due(w, t0, k) \/ Served(t0, k) \/ Spend("fail")
    BY <1>18, <2>1 DEF Due
  <2> QED BY <1>8, <1>18, <2>2
<1>19. CASE Answer(w, "done") /\ delivered' = delivered
  BY <1>9, <1>19
<1>20. CASE /\ Answer(w, IF h[w].shouldRetry THEN "ready" ELSE "done")
            /\ h[w].stage = "loop" /\ delivered' = delivered /\ sentTo' = sentTo
  <2>1. CASE h[w].shouldRetry
    BY <1>18, <1>20, <2>1
  <2>2. CASE ~ h[w].shouldRetry
    BY <1>19, <1>20, <2>2
  <2> QED BY <2>1, <2>2
<1> QED BY <1>10, <1>11, <1>12, <1>13, <1>14, <1>15, <1>16, <1>17, <1>18, <1>19, <1>20
        DEF Outcome, Goes, Quiet

LEMMA PushHandler ==
  ASSUME TypeInv, TypeInv', PushInv, NEW w \in Workers, Turns(w), Outcome(w),
         UNCHANGED <<enabled, ids, installed>>
  PROVE  PushInv'
<1>0. /\ TypeOK /\ ListInv(w) /\ h[w].task \in Tasks
      /\ \A t \in Tasks, k \in Tokens : delivered[t][k] \in Nat
  BY DEF TypeInv, TypeOK, Invocation
<1>1. Hidden \in Nat /\ Hidden' \in Nat /\ Hidden' >= Hidden
  <2>1. \/ UNCHANGED spent \/ Spend("fail") \/ Spend("lostanswer") \/ Spend("unavailable")
        \/ Spend("refuse")
    BY DEF Outcome, Quiet
  <2> QED BY <1>0, <2>1, HiddenFacts
<1>2. \/ delivered' = delivered
      \/ h[w].stage = "send" /\ Accept(w) /\ Token(h[w].device) \in installed
  BY DEF Outcome, Quiet, Goes
<1>3. ASSUME NEW t \in Tasks, NEW k \in Tokens, t # h[w].task \/ k \notin installed
      PROVE  delivered'[t][k] = delivered[t][k]
  <2>1. CASE delivered' = delivered
    BY <2>1
  <2>2. CASE h[w].stage = "send" /\ Accept(w) /\ Token(h[w].device) \in installed
    BY <1>0, <1>3, <2>2, SendTypes, AcceptFacts DEF Open
  <2> QED BY <1>2, <2>1, <2>2
<1>4. ASSUME NEW t \in Tasks, NEW k \in Tokens, k \in installed
      PROVE  delivered'[t][k] + Strays(t, k)' + Owed(t, k)' <= 1 + Hidden'
  <2>1. PICK t0 \in Tasks : t0 = h[w].task
    BY <1>0
  <2>2. /\ \A d \in Devices : Token(d) = k => (d \in registered' <=> d \in registered)
        /\ \A d \in Devices, n \in Tasks : Token(d) = k /\ d \in sentTo[n] => d \in sentTo'[n]
    <3>1. CASE registered' = registered /\ sentTo' = sentTo
      BY <3>1
    <3>2. CASE /\ registered' = registered
               /\ sentTo' = [sentTo EXCEPT ![h[w].task] = @ \cup ({h[w].device} \cap registered)]
      BY <1>0, <3>2 DEF TypeOK
    <3>3. CASE h[w].stage = "delete" /\ DeleteDeviceRow(h[w].device)
      <4>1. Token(h[w].device) # k
        BY <1>0, <1>4, <3>3 DEF ListInv
      <4> QED BY <3>3, <4>1 DEF DeleteDeviceRow
    <3> QED BY <3>1, <3>2, <3>3 DEF Outcome, Quiet, Goes
  <2>3. \A n \in Tasks \ {t0} : delivered'[n][k] = delivered[n][k]
    BY <1>3, <2>1
  <2>4. delivered'[t0][k] + Bit(Sends(w, k))' <= delivered[t0][k] + Bit(Sends(w, k)) + Hidden' - Hidden
    BY <1>4, <2>1, StraySends
  <2>5. task[t0].holder = w =>
            delivered'[t0][k] + Owed(t0, k)' <= delivered[t0][k] + Owed(t0, k) + Hidden' - Hidden
    BY <1>4, <2>1, HolderOwes
  <2>6. delivered[t][k] + Strays(t, k) + Owed(t, k) <= 1 + Hidden
    BY <1>4 DEF PushInv
  <2> QED BY <1>1, <2>1, <2>2, <2>3, <2>4, <2>5, <2>6, PushTurn
<1>5. ASSUME NEW t \in Tasks, NEW k \in Tokens, k \notin installed
      PROVE  delivered'[t][k] <= 1 + Hidden'
  <2>1. delivered[t][k] <= 1 + Hidden /\ delivered'[t][k] = delivered[t][k]
    BY <1>3, <1>5 DEF PushInv
  <2> QED BY <1>0, <1>1, <2>1
<1> QED BY <1>4, <1>5 DEF PushInv

(* The app and the user: only an unregistration lets a task send once more.  *)
LEMMA PushUser ==
  ASSUME TypeInv, TypeInv', PushInv,
         \/ ToggleNotifications
         \/ \E k \in Tokens : Register(k) \/ Uninstall(k)
         \/ \E d \in registered : Unregister(d)
  PROVE  PushInv'
<1>0. /\ TypeOK /\ Hidden \in Nat
      /\ \A t \in Tasks, k \in Tokens : delivered[t][k] \in Nat
      /\ \A t, k : Owed(t, k) \in 0..2 /\ Strays(t, k) \in Nat
  BY DebtTypes, HiddenType DEF TypeInv, TypeOK
<1>1. ASSUME UNCHANGED delivered, installed' \subseteq installed,
             Hidden' = Hidden \/ Hidden' = Hidden + 1,
             \A t \in Tasks, k \in Tokens : k \in installed' =>
                Strays(t, k)' + Owed(t, k)' <= Strays(t, k) + Owed(t, k) + Hidden' - Hidden
      PROVE  PushInv'
  <2>1. ASSUME NEW t \in Tasks, NEW k \in Tokens, k \in installed'
        PROVE  delivered'[t][k] + Strays(t, k)' + Owed(t, k)' <= 1 + Hidden'
    <3>1. delivered[t][k] + Strays(t, k) + Owed(t, k) <= 1 + Hidden
      BY <1>1, <2>1 DEF PushInv
    <3>2. Strays(t, k)' + Owed(t, k)' <= Strays(t, k) + Owed(t, k) + Hidden' - Hidden
      BY <1>1, <2>1
    <3>3. Owed(t, k)' \in Int /\ Strays(t, k)' \in Int
      <4>1. Strays(t, k)' \in Nat
        BY FS_Subset, FS_CardinalityType DEF Strays
      <4>2. Owed(t, k)' \in Int
        BY DEF Owed, Holds, Bit
      <4> QED BY <4>1, <4>2
    <3> QED BY <1>0, <1>1, <3>1, <3>2, <3>3
  <2>2. ASSUME NEW t \in Tasks, NEW k \in Tokens PROVE delivered'[t][k] <= 1 + Hidden'
    <3>1. delivered[t][k] <= 1 + Hidden
      BY <1>0 DEF PushInv
    <3> QED BY <1>0, <1>1, <3>1
  <2> QED BY <2>1, <2>2 DEF PushInv
<1>2. ASSUME UNCHANGED <<task, h, sentTo>>,
             \A d \in Devices, k \in Tokens : Known(d) => (d \in registered' <=> d \in registered)
      PROVE  \A t \in Tasks, k \in Tokens :
                Strays(t, k)' + Owed(t, k)' <= Strays(t, k) + Owed(t, k)
  <2> SUFFICES ASSUME NEW t \in Tasks, NEW k \in Tokens
               PROVE  Strays(t, k)' + Owed(t, k)' <= Strays(t, k) + Owed(t, k)
    OBVIOUS
  <2>1. ASSUME NEW v \in Workers
        PROVE  /\ Lists(v, k)' <=> Lists(v, k)
               /\ Sending(v, k)' <=> Sending(v, k)
               /\ Lapsed(v, k)' <=> Lapsed(v, k)
               /\ Marks(v, k)' <=> Marks(v, k)
    <3>1. ListInv(v) /\ h'[v] = h[v] /\ h[v].todo \subseteq Devices
      BY <1>0, <1>2 DEF TypeInv, TypeOK, Invocation
    <3>2. Lists(v, k)' <=> Lists(v, k)
      BY <1>2, <3>1 DEF Lists, ListInv
    <3>3. Sending(v, k)' <=> Sending(v, k)
      BY <3>1 DEF Sending
    <3>4. h[v].stage \in {"send", "sent"} => (h[v].device \in registered' <=> h[v].device \in registered)
      BY <1>2, <3>1 DEF ListInv, Open
    <3> QED BY <3>1, <3>2, <3>3, <3>4 DEF Lapsed, Marks, Sending
  <2>2. Served(t, k)' = Served(t, k)
    BY <1>2 DEF Served
  <2>3. ASSUME NEW v \in Workers PROVE (Sends(v, k)' <=> Sends(v, k)) /\ Holds(v, t, k)' = Holds(v, t, k)
    <3>1. Resends(v, k)' <=> Resends(v, k)
      BY <1>2, <2>1 DEF Resends, Lapsed, Sending
    <3>2. Due(v, t, k)' <=> Due(v, t, k)
      BY <2>1, <2>2, <3>1 DEF Due
    <3>3. Sends(v, k)' <=> Sends(v, k)
      BY <1>2, <2>1 DEF Sends
    <3> QED BY <2>1, <3>2, <3>3 DEF Holds, Bit
  <2>4. Strays(t, k)' = Strays(t, k)
    <3>1. {v \in Workers : h'[v].task = t /\ task'[t].holder # v /\ Sends(v, k)'}
            = {v \in Workers : h[v].task = t /\ task[t].holder # v /\ Sends(v, k)}
      BY <1>2, <2>3
    <3> QED BY <3>1 DEF Strays
  <2>5. Owed(t, k)' = Owed(t, k)
    <3>1. CASE task[t].state = "out"
      <4>1. PICK v \in Workers : v = task[t].holder
        BY <1>0, <3>1 DEF TypeInv, TypeOK, HeldInv
      <4>2. Owed(t, k) = Holds(v, t, k)
        BY <3>1, <4>1 DEF Owed
      <4>3. Owed(t, k)' = Holds(v, t, k)'
        BY <1>2, <3>1, <4>1 DEF Owed
      <4> QED BY <2>3, <4>2, <4>3
    <3>2. CASE task[t].state # "out"
      BY <1>2, <2>2, <3>2 DEF Owed, Bit
    <3> QED BY <3>1, <3>2
  <2> QED BY <1>0, <2>4, <2>5
<1>3. CASE ToggleNotifications
  <2>1. /\ Spend("toggle")
        /\ UNCHANGED <<registered, installed, task, h, sentTo, delivered>>
    BY <1>3 DEF ToggleNotifications, rowVars, history
  <2>2. Hidden' = Hidden
    BY <1>0, <2>1, HiddenFacts
  <2> QED BY <1>0, <1>1, <1>2, <2>1, <2>2
<1>4. ASSUME NEW k \in Tokens, Uninstall(k) PROVE PushInv'
  <2>1. /\ Spend("uninstall") /\ installed' \subseteq installed
        /\ UNCHANGED <<registered, task, h, sentTo, delivered>>
    BY <1>4 DEF Uninstall, rowVars, history
  <2>2. Hidden' = Hidden
    BY <1>0, <2>1, HiddenFacts
  <2> QED BY <1>0, <1>1, <1>2, <2>1, <2>2
<1>5. ASSUME NEW k \in Tokens, Register(k) PROVE PushInv'
  <2>1. /\ registered' = registered \cup {<<k, ids[k] + 1>>}
        /\ UNCHANGED <<installed, task, h, sentTo, delivered, spent>>
    BY <1>5 DEF Register, rowVars, history
  <2>2. PICK new : new = <<k, ids[k] + 1>>
    OBVIOUS
  <2>3. ids[k] \in Nat /\ Token(new) = k /\ new[2] = ids[k] + 1
    BY <1>0, <2>2 DEF Token, TypeOK
  <2>4. ~ Known(new)
    BY <2>3 DEF Known
  <2>5. Hidden' = Hidden
    BY <1>0, <2>1, HiddenFacts
  <2>6. \A d \in Devices : Known(d) => (d \in registered' <=> d \in registered)
    BY <2>1, <2>2, <2>4
  <2> QED BY <1>0, <1>1, <1>2, <2>1, <2>5, <2>6
<1>6. ASSUME NEW d \in registered, Unregister(d) PROVE PushInv'
  <2>1. /\ Spend("unregister")
        /\ registered' = registered \ {d} /\ sentTo' = [t \in Tasks |-> sentTo[t] \ {d}]
        /\ UNCHANGED <<installed, task, h, delivered>>
    BY <1>6 DEF Unregister, DeleteDeviceRow, history
  <2>2. Hidden' = Hidden + 1
    BY <1>0, <2>1, HiddenFacts
  <2>3. ASSUME NEW v \in Workers, NEW k \in Tokens
        PROVE  /\ Sends(v, k)' => Sends(v, k)
               /\ \A t \in Tasks : Holds(v, t, k)' <= Holds(v, t, k) + 1
    <3>1. h'[v] = h[v] /\ h[v].task \in Tasks /\ ListInv(v)
      BY <1>0, <2>1 DEF TypeInv, TypeOK, Invocation
    <3>2. Lists(v, k)' => Lists(v, k)
      BY <2>1, <3>1 DEF Lists
    <3>3. Sending(v, k)' <=> Sending(v, k)
      BY <3>1 DEF Sending
    <3>4. Sends(v, k)' => Sends(v, k)
      BY <3>1, <3>2, <3>3 DEF Sends
    <3>5. Lapsed(v, k)' /\ ~ Lapsed(v, k) => \A t \in Tasks : Due(v, t, k)
      BY <3>1, <3>3 DEF Lapsed, Due, Resends, Marks, Sending
    <3>6. ASSUME NEW t \in Tasks PROVE Holds(v, t, k)' <= Holds(v, t, k) + 1
      <4>1. /\ Bit(Lapsed(v, k)) \in {0, 1} /\ Bit(Lapsed(v, k))' \in {0, 1}
            /\ Bit(Due(v, t, k)) \in {0, 1} /\ Bit(Due(v, t, k))' \in {0, 1}
        BY DEF Bit
      <4>2. Bit(Lapsed(v, k))' <= Bit(Lapsed(v, k)) \/ Bit(Due(v, t, k)) = 1
        BY <3>5 DEF Bit
      <4> QED BY <4>1, <4>2 DEF Holds
    <3> QED BY <3>4, <3>6
  <2>4. ASSUME NEW t \in Tasks, NEW k \in Tokens
        PROVE  Strays(t, k)' + Owed(t, k)' <= Strays(t, k) + Owed(t, k) + 1
    <3> DEFINE A == {v \in Workers : h[v].task = t /\ task[t].holder # v /\ Sends(v, k)}
               B == {v \in Workers : h'[v].task = t /\ task'[t].holder # v /\ Sends(v, k)'}
    <3>1. B \subseteq A
      BY <2>1, <2>3
    <3>2. IsFiniteSet(A)
      BY FS_Subset
    <3>3. Strays(t, k) = Cardinality(A) /\ Strays(t, k)' = Cardinality(B)
      BY DEF Strays
    <3>4. Strays(t, k)' <= Strays(t, k) /\ Strays(t, k)' \in Nat
      <4> HIDE DEF A, B
      <4>1. Cardinality(B) <= Cardinality(A) /\ IsFiniteSet(B)
        BY <3>1, <3>2, FS_Subset
      <4> QED BY <3>3, <4>1, FS_CardinalityType
    <3> HIDE DEF A, B
    <3>5. Owed(t, k)' <= Owed(t, k) + 1 /\ Owed(t, k)' \in Int
      <4>1. CASE task[t].state = "out"
        <5>1. PICK v \in Workers : v = task[t].holder
          BY <1>0, <4>1 DEF TypeInv, TypeOK, HeldInv
        <5>2. Owed(t, k) = Holds(v, t, k)
          BY <4>1, <5>1 DEF Owed
        <5>3. Owed(t, k)' = Holds(v, t, k)'
          BY <2>1, <4>1, <5>1 DEF Owed
        <5>4. Holds(v, t, k)' \in Int
          BY DEF Holds, Bit
        <5> QED BY <2>3, <5>2, <5>3, <5>4
      <4>2. CASE task[t].state # "out"
        <5>1. Owed(t, k)' \in {0, 1}
          BY <2>1, <4>2 DEF Owed, Bit
        <5> QED BY <1>0, <5>1
      <4> QED BY <4>1, <4>2
    <3> QED BY <1>0, <3>4, <3>5
  <2> QED BY <1>0, <1>1, <2>1, <2>2, <2>4
<1> QED BY <1>3, <1>4, <1>5, <1>6

(* The queue: a task that is delivered again leaves its handler astray.      *)
LEMMA PushQueue ==
  ASSUME TypeInv, TypeInv', PushInv,
         \/ \E t \in Tasks : Redeliver(t) \/ Exhaust(t)
         \/ \E w \in Workers, t \in Tasks : Deliver(w, t)
  PROVE  PushInv'
<1>0. /\ TypeOK /\ Hidden \in Nat
      /\ \A t \in Tasks, k \in Tokens : delivered[t][k] \in Nat
      /\ \A t, k : Owed(t, k) \in 0..2 /\ Strays(t, k) \in Nat
  BY DebtTypes, HiddenType DEF TypeInv, TypeOK
<1>1. ASSUME UNCHANGED <<delivered, installed>>,
             Hidden' = Hidden \/ Hidden' = Hidden + 1,
             \A t \in Tasks, k \in Tokens :
                Strays(t, k)' + Owed(t, k)' <= Strays(t, k) + Owed(t, k) + Hidden' - Hidden
      PROVE  PushInv'
  <2>1. ASSUME NEW t \in Tasks, NEW k \in Tokens, k \in installed'
        PROVE  delivered'[t][k] + Strays(t, k)' + Owed(t, k)' <= 1 + Hidden'
    <3>1. delivered[t][k] + Strays(t, k) + Owed(t, k) <= 1 + Hidden
      BY <1>1, <2>1 DEF PushInv
    <3>2. Strays(t, k)' + Owed(t, k)' <= Strays(t, k) + Owed(t, k) + Hidden' - Hidden
      BY <1>1, <2>1
    <3>3. Owed(t, k)' \in Int /\ Strays(t, k)' \in Int
      <4>1. Strays(t, k)' \in Nat
        BY FS_Subset, FS_CardinalityType DEF Strays
      <4>2. Owed(t, k)' \in Int
        BY DEF Owed, Holds, Bit
      <4> QED BY <4>1, <4>2
    <3> QED BY <1>0, <1>1, <3>1, <3>2, <3>3
  <2>2. ASSUME NEW t \in Tasks, NEW k \in Tokens PROVE delivered'[t][k] <= 1 + Hidden'
    <3>1. delivered[t][k] <= 1 + Hidden
      BY <1>0 DEF PushInv
    <3> QED BY <1>0, <1>1, <3>1
  <2> QED BY <2>1, <2>2 DEF PushInv
<1>2. ASSUME UNCHANGED <<registered, sentTo>>, NEW v, h'[v] = h[v], NEW k \in Tokens, NEW t \in Tasks
      PROVE  (Sends(v, k)' <=> Sends(v, k)) /\ Holds(v, t, k)' = Holds(v, t, k)
  <2>1. (Lists(v, k)' <=> Lists(v, k)) /\ (Sending(v, k)' <=> Sending(v, k))
    BY <1>2 DEF Lists, Sending
  <2>2. (Lapsed(v, k)' <=> Lapsed(v, k)) /\ (Marks(v, k)' <=> Marks(v, k))
    BY <1>2, <2>1 DEF Lapsed, Marks
  <2>3. (Resends(v, k)' <=> Resends(v, k)) /\ Served(t, k)' = Served(t, k)
    BY <1>2, <2>1 DEF Resends, Served
  <2>4. Sends(v, k)' <=> Sends(v, k)
    BY <1>2, <2>1 DEF Sends
  <2>5. Due(v, t, k)' <=> Due(v, t, k)
    BY <2>2, <2>3 DEF Due
  <2> QED BY <2>2, <2>4, <2>5 DEF Holds, Bit
<1>3. ASSUME UNCHANGED <<registered, sentTo>>, NEW t \in Tasks, NEW k \in Tokens,
             task'[t] = task[t], task[t].holder # NoWorker => h'[task[t].holder] = h[task[t].holder]
      PROVE  Owed(t, k)' = Owed(t, k)
  <2>1. CASE task[t].state = "out"
    <3>1. PICK v \in Workers : v = task[t].holder /\ v # NoWorker
      BY <1>0, <2>1, DispatchAssumption DEF TypeInv, TypeOK, HeldInv
    <3>2. Owed(t, k) = Holds(v, t, k)
      BY <2>1, <3>1 DEF Owed
    <3>3. Owed(t, k)' = Holds(v, t, k)'
      BY <1>3, <2>1, <3>1 DEF Owed
    <3>4. h'[v] = h[v]
      BY <1>3, <3>1
    <3> QED BY <1>2, <1>3, <3>2, <3>3, <3>4
  <2>2. CASE task[t].state # "out"
    BY <1>3, <2>2 DEF Owed, Bit, Served
  <2> QED BY <2>1, <2>2
<1>4. ASSUME NEW t \in Tasks, Redeliver(t) \/ Exhaust(t) PROVE PushInv'
  <2>1. /\ \A n \in Tasks \ {t} : task'[n] = task[n]
        /\ UNCHANGED <<registered, installed, h, sentTo, delivered>>
        /\ \/ /\ Spend("redeliver") /\ task[t].state \in {"out", "done"}
              /\ task'[t].state = "ready" /\ task'[t].holder = NoWorker
           \/ /\ UNCHANGED spent /\ task[t].state = "ready"
              /\ task'[t].state = "dropped" /\ task'[t].holder = task[t].holder
    BY <1>0, <1>4, QueueFacts DEF userVars, rowVars, history
  <2>2. (Spend("redeliver") => Hidden' = Hidden + 1) /\ (UNCHANGED spent => Hidden' = Hidden)
    BY <1>0, HiddenFacts
  <2>3. HeldInv(t)
    BY DEF TypeInv
  <2>4. ASSUME NEW n \in Tasks, NEW k \in Tokens
        PROVE  Strays(n, k)' + Owed(n, k)' <= Strays(n, k) + Owed(n, k) + Hidden' - Hidden
    <3> DEFINE A == {v \in Workers : h[v].task = n /\ task[n].holder # v /\ Sends(v, k)}
               B == {v \in Workers : h'[v].task = n /\ task'[n].holder # v /\ Sends(v, k)'}
    <3>1. A \in SUBSET Workers /\ B \in SUBSET Workers
      OBVIOUS
    <3>2. Strays(n, k) = Cardinality(A) /\ Strays(n, k)' = Cardinality(B)
      BY DEF Strays
    <3>3. \A v \in Workers : Sends(v, k)' <=> Sends(v, k)
      BY <1>2, <2>1
    <3>4. task'[n].holder = task[n].holder => A = B
      BY <2>1, <3>3
    <3>5. CASE n # t
      <4>1. task'[n] = task[n] /\ A = B
        BY <2>1, <3>4, <3>5
      <4> HIDE DEF A, B
      <4>2. Owed(n, k)' = Owed(n, k)
        BY <1>3, <2>1, <4>1
      <4> QED BY <1>0, <2>1, <2>2, <3>2, <4>1, <4>2
    <3>6. CASE n = t /\ task[t].holder = NoWorker
      <4>1. A = B
        BY <2>1, <3>4, <3>6
      <4> HIDE DEF A, B
      <4>2. task[t].state # "out"
        BY <2>3, <3>6 DEF HeldInv
      <4>3. Owed(n, k)' \in {0, 1} /\ (task'[t].state = "dropped" => Owed(n, k)' = 0)
        BY <2>1, <3>6 DEF Owed, Bit
      <4> QED BY <1>0, <2>1, <2>2, <3>2, <4>1, <4>3
    <3>7. CASE n = t /\ task[t].holder # NoWorker
      <4>1. PICK w \in Workers : w = task[t].holder /\ task[t].state = "out" /\ h[w].task = t
        BY <1>0, <2>3, <3>7 DEF TypeOK, HeldInv
      <4>2. task'[t].state = "ready" /\ task'[t].holder = NoWorker /\ Hidden' = Hidden + 1
        BY <2>1, <2>2, <4>1
      <4>3. A \ {w} = B \ {w} /\ w \notin A /\ (w \in B <=> Sends(w, k))
        BY <2>1, <3>3, <3>7, <4>1, <4>2, DispatchAssumption
      <4> HIDE DEF A, B
      <4>4. /\ Cardinality(A) \in Nat /\ Cardinality(B) \in Nat
            /\ Cardinality(B) = Cardinality(A) + In(w, B) - In(w, A)
        BY <3>1, <4>3, OneMoves
      <4>5. In(w, A) = 0 /\ In(w, B) = Bit(Sends(w, k)) /\ Bit(Sends(w, k)) \in {0, 1}
        BY <4>3 DEF In, Bit
      <4>6. Owed(n, k)' = Bit(~ Served(t, k))
        BY <2>1, <3>7, <4>2 DEF Owed, Bit, Served
      <4>7. Owed(n, k) = Bit(Lapsed(w, k)) + Bit(Due(w, t, k))
        BY <3>7, <4>1 DEF Owed, Holds
      <4>8. /\ Bit(Lapsed(w, k)) \in {0, 1} /\ Bit(Due(w, t, k)) \in {0, 1}
            /\ Bit(~ Served(t, k)) \in {0, 1}
        BY DEF Bit
      <4>9. Sends(w, k) => ~ Marks(w, k)
        <5>1. ListInv(w)
          BY DEF TypeInv
        <5> QED BY <5>1 DEF Sends, Lists, Sending, Marks, ListInv, Open
      <4>10. Bit(Sends(w, k)) = 1 /\ Bit(~ Served(t, k)) = 1 => Bit(Due(w, t, k)) = 1
        BY <4>9 DEF Bit, Due
      <4> QED BY <1>0, <3>2, <4>2, <4>4, <4>5, <4>6, <4>7, <4>8, <4>10
    <3> QED BY <3>5, <3>6, <3>7
  <2> QED BY <1>1, <2>1, <2>2, <2>4
<1>5. ASSUME NEW w \in Workers, NEW t \in Tasks, Deliver(w, t) PROVE PushInv'
  <2>1. /\ \A v \in Workers \ {w} : h'[v] = h[v]
        /\ h'[w].stage = "coupon" /\ h'[w].task = t /\ h[w].stage = "idle"
        /\ task'[t].state = "out" /\ task'[t].holder = w /\ task[t].state = "ready"
        /\ \A n \in Tasks \ {t} : task'[n] = task[n]
        /\ UNCHANGED <<registered, installed, sentTo, delivered, spent>>
    BY <1>0, <1>5, DeliverFacts DEF userVars, rowVars, history
  <2>2. Hidden' = Hidden
    BY <1>0, <2>1, HiddenFacts
  <2>3. \A n \in Tasks : HeldInv(n) /\ task[n].holder \in Workers \cup {NoWorker}
    BY <1>0 DEF TypeInv, TypeOK
  <2>4. ASSUME NEW n \in Tasks, NEW k \in Tokens
        PROVE  Strays(n, k)' + Owed(n, k)' <= Strays(n, k) + Owed(n, k)
    <3> DEFINE A == {v \in Workers : h[v].task = n /\ task[n].holder # v /\ Sends(v, k)}
               B == {v \in Workers : h'[v].task = n /\ task'[n].holder # v /\ Sends(v, k)'}
    <3>1. Strays(n, k) = Cardinality(A) /\ Strays(n, k)' = Cardinality(B)
      BY DEF Strays
    <3>2. \A v \in Workers \ {w} : Sends(v, k)' <=> Sends(v, k)
      BY <1>2, <2>1
    <3>3. ~ Sends(w, k)
      BY <2>1 DEF Sends, Lists, Sending, Listing
    <3>4. CASE n # t
      <4>1. task'[n] = task[n] /\ h'[w].task # n
        BY <2>1, <3>4
      <4>2. A = B
        BY <2>1, <3>2, <3>3, <4>1
      <4> HIDE DEF A, B
      <4>3. task[n].holder # NoWorker => h'[task[n].holder] = h[task[n].holder]
        BY <2>1, <2>3 DEF HeldInv
      <4>4. Owed(n, k)' = Owed(n, k)
        BY <1>3, <2>1, <4>1, <4>3
      <4> QED BY <1>0, <3>1, <4>2, <4>4
    <3>5. CASE n = t
      <4>1. task[t].holder = NoWorker
        BY <2>1, <2>3 DEF HeldInv
      <4>2. A = B
        BY <2>1, <3>2, <3>3, <3>5, <4>1, DispatchAssumption
      <4> HIDE DEF A, B
      <4>3. Owed(n, k) = Bit(~ Served(t, k))
        BY <2>1, <3>5 DEF Owed
      <4>4. Owed(n, k)' = Holds(w, t, k)'
        BY <2>1, <3>5 DEF Owed
      <4>5. ~ Lapsed(w, k)' /\ (Due(w, t, k)' <=> ~ Served(t, k))
        BY <2>1 DEF Lapsed, Due, Marks, Resends, Lists, Sending, Listing, Served
      <4>6. Holds(w, t, k)' = Bit(~ Served(t, k))
        BY <4>5 DEF Holds, Bit
      <4> QED BY <1>0, <3>1, <4>2, <4>3, <4>4, <4>6
    <3> QED BY <3>4, <3>5
  <2> QED BY <1>0, <1>1, <2>1, <2>2, <2>4
<1> QED BY <1>4, <1>5

LEMMA PushInit == Init => PushInv
<1> SUFFICES ASSUME Init PROVE PushInv
  OBVIOUS
<1>1. \A w \in Workers : h[w].stage = "idle"
  BY IdleType DEF Init
<1>2. Hidden = 0
  BY DEF Init, Hidden, Faults
<1>3. ASSUME NEW t \in Tasks, NEW k \in Tokens
      PROVE  delivered[t][k] = 0 /\ Strays(t, k) = 0 /\ Owed(t, k) \in {0, 1}
  <2>1. {w \in Workers : h[w].task = t /\ task[t].holder # w /\ Sends(w, k)} = {}
    BY <1>1 DEF Sends, Lists, Sending, Listing
  <2>2. Strays(t, k) = 0
    BY <2>1, FS_EmptySet DEF Strays
  <2>3. task[t].state = "ready" /\ delivered[t][k] = 0
    BY DEF Init
  <2> QED BY <2>2, <2>3 DEF Owed, Bit
<1> QED BY <1>2, <1>3 DEF PushInv

LEMMA PushStep == TypeInv /\ TypeInv' /\ PushInv /\ [Next]_vars => PushInv'
<1> SUFFICES ASSUME TypeInv, TypeInv', PushInv, [Next]_vars PROVE PushInv'
  OBVIOUS
<1>1. CASE \/ ToggleNotifications
           \/ \E k \in Tokens : Register(k) \/ Uninstall(k)
           \/ \E d \in registered : Unregister(d)
  BY <1>1, PushUser
<1>2. CASE \/ \E t \in Tasks : Redeliver(t) \/ Exhaust(t)
           \/ \E w \in Workers, t \in Tasks : Deliver(w, t)
  BY <1>2, PushQueue
<1>3. ASSUME NEW w \in Workers, Handler(w) \/ Fail(w) PROVE PushInv'
  BY <1>3, HandlerTypes, HandlerFacts, PushHandler
<1>4. CASE UNCHANGED vars
  BY <1>4 DEF vars, userVars, rowVars, history, PushInv, Hidden, Strays, Owed, Holds, Due,
              Sends, Lists, Sending, Lapsed, Marks, Resends, Served, Bit
<1> QED BY <1>1, <1>2, <1>3, <1>4 DEF Next

(* What a token got, what strayed handlers may still send it, and what the   *)
(* task itself still owes it never exceed one notification and the faults    *)
(* that hide one.                                                            *)
THEOREM PushInvariant == Spec => []PushInv
<1>1. Init => PushInv
  BY PushInit
<1>2. TypeInv /\ TypeInv' /\ PushInv /\ [Next]_vars => PushInv'
  BY PushStep
<1> QED BY <1>1, <1>2, TypeCorrect, PTL DEF Spec

(* NotificationService.dispatch: reading the sent rows before the loop keeps *)
(* every retry from repeating a notification, but for the four faults.       *)
THEOREM DuplicatesAreFaults == Spec => []DuplicatesNeedFault
<1>1. TypeInv /\ PushInv => DuplicatesNeedFault
  <2> SUFFICES ASSUME TypeInv, PushInv, NEW t \in Tasks, NEW k \in Tokens
               PROVE  delivered[t][k] <= 1 + spent["fail"] + spent["redeliver"] + spent["lostanswer"]
                                           + spent["unregister"]
    BY DEF DuplicatesNeedFault
  <2>1. TypeOK /\ delivered[t][k] \in Nat /\ Owed(t, k) \in 0..2 /\ Strays(t, k) \in Nat
    BY DebtTypes DEF TypeInv, TypeOK
  <2>2. Hidden \in Nat /\ delivered[t][k] <= 1 + Hidden
    BY <2>1, HiddenType DEF PushInv
  <2>3. \A kind \in Faults : spent[kind] \in Nat
    BY <2>1 DEF TypeOK
  <2> QED BY <2>1, <2>2, <2>3 DEF Hidden, Faults
<1> QED BY <1>1, TypeCorrect, PushInvariant, PTL

-----------------------------------------------------------------------------
(* Every delivery is on record as sent.                                      *)
RecordInv == DeliveriesRecorded /\ \A t \in Tasks : IsFiniteSet(Pushes(t))

Unrecorded(t) == Cardinality(Pushes(t)) - rows[t]["sent"] - Cardinality(InHand(t))
KeepsSent == \A t \in Tasks : rows'[t]["sent"] = rows[t]["sent"]
Paid == spent["fail"] + spent["lostanswer"]

LEMMA SentRows ==
  ASSUME TypeOK, NEW t \in Tasks
  PROVE  /\ \A status \in Statuses : AddRow(t, status) /\ status # "sent" => KeepsSent
         /\ MoveRow(t, "failed") => KeepsSent
         /\ MoveRow(t, "sent") =>
               /\ rows'[t]["sent"] = rows[t]["sent"] + 1
               /\ \A n \in Tasks \ {t} : rows'[n]["sent"] = rows[n]["sent"]
<1>0. rows \in [Tasks -> [Statuses -> Nat]] /\ rows[t] \in [Statuses -> Nat]
  BY DEF TypeOK
<1>1. ASSUME NEW status \in Statuses, AddRow(t, status), status # "sent" PROVE KeepsSent
  <2> DEFINE row == [rows[t] EXCEPT ![status] = rows[t][status] + 1]
  <2>1. rows' = [rows EXCEPT ![t] = row]
    BY <1>1 DEF AddRow
  <2>2. row["sent"] = rows[t]["sent"]
    BY <1>0, <1>1 DEF Statuses
  <2> HIDE DEF row
  <2> QED BY <1>0, <2>1, <2>2 DEF KeepsSent
<1>2. ASSUME NEW status \in {"sent", "failed"}, MoveRow(t, status)
      PROVE  /\ rows'[t]["sent"] = rows[t]["sent"] + (IF status = "sent" THEN 1 ELSE 0)
             /\ \A n \in Tasks \ {t} : rows'[n] = rows[n]
  <2> DEFINE open == [rows[t] EXCEPT !["pending"] = rows[t]["pending"] - 1]
             row == [open EXCEPT ![status] = open[status] + 1]
  <2>1. rows' = [rows EXCEPT ![t] = row]
    BY <1>0, <1>2 DEF MoveRow, Statuses
  <2>2. open["sent"] = rows[t]["sent"] /\ DOMAIN open = Statuses /\ rows[t]["sent"] \in Nat
    BY <1>0 DEF Statuses
  <2>3. status \in Statuses /\ "sent" \in Statuses
    BY DEF Statuses
  <2>4. row["sent"] = rows[t]["sent"] + (IF status = "sent" THEN 1 ELSE 0)
    <3> HIDE DEF open
    <3> QED BY <2>2, <2>3
  <2> HIDE DEF row
  <2> QED BY <1>0, <2>1, <2>4
<1>3. MoveRow(t, "failed") => KeepsSent
  <2> SUFFICES ASSUME MoveRow(t, "failed"), NEW n \in Tasks
               PROVE  rows'[n]["sent"] = rows[n]["sent"]
    BY DEF KeepsSent
  <2>1. /\ rows'[t]["sent"] = rows[t]["sent"] + 0
        /\ \A m \in Tasks \ {t} : rows'[m] = rows[m]
    BY <1>2
  <2>2. rows[t]["sent"] \in Nat
    BY <1>0 DEF Statuses
  <2> QED BY <2>1, <2>2
<1> QED BY <1>1, <1>2, <1>3

(* A push is a new one, numbered after the token's others.                   *)
LEMMA AcceptPushes ==
  ASSUME TypeOK, NEW w \in Workers, Accept(w), h[w].task \in Tasks,
         Token(h[w].device) \in Tokens, NEW t \in Tasks, IsFiniteSet(Pushes(t))
  PROVE  /\ IsFiniteSet(Pushes(t)') /\ Cardinality(Pushes(t)) \in Nat
         /\ Cardinality(Pushes(t)') =
               Cardinality(Pushes(t)) + (IF t = h[w].task THEN 1 ELSE 0)
<1>0. Cardinality(Pushes(t)) \in Nat
  BY FS_CardinalityType
<1>1. \A k \in Tokens :
         /\ delivered[t][k] \in Nat
         /\ delivered'[t][k] = IF t = h[w].task /\ k = Token(h[w].device)
                               THEN delivered[t][k] + 1 ELSE delivered[t][k]
  BY AcceptFacts
<1>2. CASE t # h[w].task
  <2>1. \A k \in Tokens : delivered'[t][k] = delivered[t][k]
    BY <1>1, <1>2
  <2>2. Pushes(t)' = Pushes(t)
    BY <2>1 DEF Pushes
  <2> QED BY <1>0, <1>2, <2>2
<1>3. CASE t = h[w].task
  <2> DEFINE k0 == Token(h[w].device)
             push == <<k0, delivered[t][k0] + 1>>
  <2>1. delivered[t][k0] \in Nat /\ delivered'[t][k0] = delivered[t][k0] + 1
    BY <1>1, <1>3
  <2>2. \A k \in Tokens : k # k0 => delivered'[t][k] = delivered[t][k]
    BY <1>1
  <2>3. \A n : n \in 1..(delivered[t][k0] + 1)
                  <=> n \in 1..delivered[t][k0] \/ n = delivered[t][k0] + 1
    BY <2>1
  <2>4. Pushes(t)' = Pushes(t) \cup {push}
    <3>1. ASSUME NEW p PROVE p \in Pushes(t)' <=> p \in Pushes(t) \cup {push}
      <4>1. p \in Pushes(t)' <=> \E k \in Tokens : p \in {k} \X (1..delivered'[t][k])
        BY DEF Pushes
      <4>2. p \in Pushes(t) <=> \E k \in Tokens : p \in {k} \X (1..delivered[t][k])
        BY DEF Pushes
      <4>3. ASSUME NEW k \in Tokens, k # k0
            PROVE  p \in {k} \X (1..delivered'[t][k]) <=> p \in {k} \X (1..delivered[t][k])
        BY <2>2, <4>3
      <4>4. p \in {k0} \X (1..delivered'[t][k0])
              <=> p \in {k0} \X (1..delivered[t][k0]) \/ p = push
        BY <2>1, <2>3
      <4> HIDE DEF k0, push
      <4>5. k0 \in Tokens
        BY DEF k0
      <4> QED BY <4>1, <4>2, <4>3, <4>4, <4>5
    <3> QED BY <3>1
  <2>5. push \notin Pushes(t)
    BY <2>1 DEF Pushes
  <2> HIDE DEF push
  <2> QED BY <1>0, <1>3, <2>4, <2>5, FS_AddElement
<1> QED BY <1>2, <1>3

(* What a turn does to the pushes and the sent rows.                         *)
LEMMA RecordFacts ==
  ASSUME TypeInv, NEW w \in Workers, Handler(w) \/ Fail(w)
  PROVE  \/ /\ h[w].stage # "sent" /\ h'[w].stage # "sent"
            /\ UNCHANGED delivered /\ KeepsSent
         \/ /\ h[w].stage = "send" /\ h'[w].stage = "sent" /\ h'[w].task = h[w].task
            /\ Accept(w) /\ UNCHANGED spent /\ KeepsSent
         \/ /\ h[w].stage = "send" /\ h'[w].stage = "failed"
            /\ Accept(w) /\ Spend("lostanswer") /\ KeepsSent
         \/ /\ h[w].stage = "sent" /\ h'[w].stage = "loop"
            /\ UNCHANGED <<delivered, spent>> /\ MoveRow(h[w].task, "sent")
         \/ /\ h'[w].stage = "idle" /\ Spend("fail")
            /\ UNCHANGED delivered /\ KeepsSent
<1>0. TypeOK /\ h[w].task \in Tasks
  BY DEF TypeInv, TypeOK, Invocation
<1>1. Outcome(w)
  BY HandlerFacts
<1>2. UNCHANGED rows => KeepsSent
  BY DEF KeepsSent
<1>3. \A state \in States : Answer(w, state) => h'[w].stage = "idle"
  BY <1>0, AnswerFacts
<1>4. {"done", "ready"} \subseteq States
  BY DEF States
<1>5. CASE Fail(w)
  BY <1>2, <1>3, <1>4, <1>5 DEF Fail, Throw, history, rowVars
<1>6. CASE MarkSent(w)
  <2>1. h'[w].stage = "loop"
    BY <1>0, <1>6, StepFacts DEF MarkSent, Stages
  <2> QED BY <1>6, <2>1 DEF MarkSent, At, history
<1>7. CASE Send(w)
  <2>1. h[w].stage = "send" /\ KeepsSent
    BY <1>2, <1>7 DEF Send, At, rowVars
  <2>2. CASE SendAccepted(w)
    <3>1. h'[w].stage = "sent" /\ h'[w].task = h[w].task
      BY <1>0, <2>2, StepFacts DEF SendAccepted, Stages
    <3> QED BY <2>1, <2>2, <3>1 DEF SendAccepted
  <2>3. CASE SendLostAnswer(w)
    <3>1. h'[w].stage = "failed"
      BY <1>0, <2>3, RetryFacts DEF SendLostAnswer
    <3> QED BY <2>1, <2>3, <3>1 DEF SendLostAnswer
  <2>4. CASE SendUnavailable(w)
    <3>1. h'[w].stage = "failed"
      BY <1>0, <2>4, RetryFacts DEF SendUnavailable
    <3> QED BY <2>1, <2>4, <3>1 DEF SendUnavailable
  <2>5. CASE SendRefused(w)
    <3>1. h'[w].stage = "failed"
      BY <1>0, <2>5, StepFacts DEF SendRefused, Stages
    <3> QED BY <2>1, <2>5, <3>1 DEF SendRefused
  <2>6. CASE SendUnregistered(w)
    <3>1. h'[w].stage = "delete"
      BY <1>0, <2>6, StepFacts DEF SendUnregistered, Stages
    <3> QED BY <2>1, <2>6, <3>1 DEF SendUnregistered
  <2> QED BY <1>7, <2>2, <2>3, <2>4, <2>5, <2>6 DEF Send
<1>8. CASE MarkFailed(w)
  <2>1. KeepsSent
    BY <1>0, <1>8, SentRows DEF MarkFailed
  <2>2. h'[w].stage = "loop"
    BY <1>0, <1>8, StepFacts DEF MarkFailed, Stages
  <2> QED BY <1>8, <2>1, <2>2 DEF MarkFailed, At, history
<1>9. CASE SkipDisabled(w)
  <2>1. KeepsSent
    BY <1>0, <1>9, SentRows DEF SkipDisabled, Statuses
  <2> QED BY <1>3, <1>4, <1>9, <2>1 DEF SkipDisabled, Return, At, history
<1>10. CASE CreatePending(w)
  <2>1. KeepsSent
    BY <1>0, <1>2, <1>10, SentRows DEF CreatePending, Statuses
  <2>2. h[w].stage = "loop" /\ UNCHANGED delivered
    BY <1>10 DEF CreatePending, At, history
  <2>3. h'[w].stage # "sent"
    BY <1>1, <1>3, <1>4, <2>2 DEF Outcome, Goes
  <2> QED BY <2>1, <2>2, <2>3
<1>11. CASE LoadCoupon(w) \/ FindDevices(w) \/ FindSentDevices(w) \/ DeleteDevice(w) \/ Finish(w)
  <2>1. h[w].stage \in {"coupon", "devices", "history", "delete", "loop"}
        /\ UNCHANGED <<rows, delivered>>
    BY <1>11 DEF LoadCoupon, FindDevices, FindSentDevices, DeleteDevice, Finish, At, rowVars,
                 history
  <2>2. h'[w].stage # "sent"
    BY <1>1, <1>3, <1>4, <2>1 DEF Outcome, Goes
  <2> QED BY <1>2, <2>1, <2>2
<1> QED BY <1>5, <1>6, <1>7, <1>8, <1>9, <1>10, <1>11 DEF Handler

LEMMA InHandStep ==
  ASSUME NEW w \in Workers, \A v \in Workers \ {w} : h'[v] = h[v], NEW t
  PROVE  /\ Cardinality(InHand(t)) \in Nat
         /\ Cardinality(InHand(t)') = Cardinality(InHand(t))
              + (IF h'[w].stage = "sent" /\ h'[w].task = t THEN 1 ELSE 0)
              - (IF h[w].stage = "sent" /\ h[w].task = t THEN 1 ELSE 0)
<1> DEFINE A == InHand(t)
           B == InHand(t)'
<1>1. A \in SUBSET Workers /\ B \in SUBSET Workers /\ A \ {w} = B \ {w}
  BY DEF InHand, At
<1>2. /\ In(w, A) = IF h[w].stage = "sent" /\ h[w].task = t THEN 1 ELSE 0
      /\ In(w, B) = IF h'[w].stage = "sent" /\ h'[w].task = t THEN 1 ELSE 0
  BY DEF In, InHand, At
<1> HIDE DEF A, B
<1>3. /\ Cardinality(A) \in Nat
      /\ Cardinality(B) = Cardinality(A) + In(w, B) - In(w, A)
  BY <1>1, OneMoves
<1> QED BY <1>2, <1>3 DEF A, B

LEMMA PaidFacts ==
  ASSUME TypeOK
  PROVE  /\ Paid \in Nat
         /\ \A kind \in {"fail", "lostanswer"} : Spend(kind) => Paid' = Paid + 1
         /\ \A kind \in Faults : Spend(kind) => Paid' \in Nat /\ Paid' >= Paid
         /\ UNCHANGED spent => Paid' = Paid
<1>1. \A kind \in Faults : spent[kind] \in Nat
  BY DEF TypeOK
<1>2. ASSUME NEW kind \in Faults, Spend(kind)
      PROVE  Paid' = Paid + (IF kind \in {"fail", "lostanswer"} THEN 1 ELSE 0)
  <2>1. /\ spent'[kind] = spent[kind] + 1
        /\ \A n \in Faults \ {kind} : spent'[n] = spent[n]
    BY <1>2, SpendFacts
  <2> QED BY <1>1, <2>1 DEF Paid, Faults
<1>3. Paid \in Nat
  BY <1>1 DEF Paid, Faults
<1>4. {"fail", "lostanswer"} \subseteq Faults
  BY DEF Faults
<1>5. UNCHANGED spent => Paid' = Paid
  BY DEF Paid
<1> QED BY <1>2, <1>3, <1>4, <1>5

(* Steps of the others write no sent row and push nothing.                   *)
LEMMA RecordKept ==
  ASSUME TypeOK, RecordInv, UNCHANGED <<h, delivered, rows>>,
         UNCHANGED spent \/ \E kind \in Faults : Spend(kind)
  PROVE  RecordInv'
<1>1. \A t : Pushes(t)' = Pushes(t) /\ InHand(t)' = InHand(t)
  BY DEF Pushes, InHand, At
<1>2. Paid \in Nat /\ Paid' \in Nat /\ Paid' >= Paid
  BY PaidFacts
<1>3. ASSUME NEW t \in Tasks PROVE Unrecorded(t)' \in 0..Paid' /\ IsFiniteSet(Pushes(t)')
  <2>1. Unrecorded(t)' = Unrecorded(t)
    BY <1>1 DEF Unrecorded
  <2>2. Unrecorded(t) \in 0..Paid /\ IsFiniteSet(Pushes(t))
    BY DEF RecordInv, DeliveriesRecorded, Unrecorded, Paid
  <2> QED BY <1>1, <1>2, <2>1, <2>2
<1> QED BY <1>3 DEF RecordInv, DeliveriesRecorded, Unrecorded, Paid

LEMMA RecordHandler ==
  ASSUME TypeInv, RecordInv, NEW w \in Workers, Handler(w) \/ Fail(w)
  PROVE  RecordInv'
<1>0. TypeOK /\ h[w].task \in Tasks
  BY DEF TypeInv, TypeOK, Invocation
<1>1. \A v \in Workers \ {w} : h'[v] = h[v]
  BY HandlerTypes, TurnFacts
<1>2. UNCHANGED spent \/ \E kind \in Faults : Spend(kind)
  BY HandlerFacts DEF Outcome, Quiet, Faults
<1>3. Paid \in Nat /\ Paid' \in Nat /\ Paid' >= Paid
  BY <1>0, <1>2, PaidFacts
<1>4. SUFFICES ASSUME NEW t \in Tasks
               PROVE  Unrecorded(t)' \in 0..Paid' /\ IsFiniteSet(Pushes(t)')
  BY DEF RecordInv, DeliveriesRecorded, Unrecorded, Paid
<1> DEFINE pushes == Cardinality(Pushes(t))
           inHand == Cardinality(InHand(t))
           sent == rows[t]["sent"]
<1>5. /\ IsFiniteSet(Pushes(t)) /\ pushes \in Nat
      /\ pushes - sent - inHand \in 0..Paid
      /\ Unrecorded(t)' = pushes' - sent' - inHand'
      /\ sent \in Nat
  BY <1>0, FS_CardinalityType DEF RecordInv, DeliveriesRecorded, Paid, Unrecorded, TypeOK, Statuses
<1>6. /\ inHand \in Nat
      /\ inHand' = inHand + (IF h'[w].stage = "sent" /\ h'[w].task = t THEN 1 ELSE 0)
                          - (IF h[w].stage = "sent" /\ h[w].task = t THEN 1 ELSE 0)
  BY <1>1, InHandStep
<1>7. UNCHANGED delivered => Pushes(t)' = Pushes(t) /\ pushes' = pushes
  BY DEF Pushes
<1>8. h[w].stage = "send" /\ Accept(w) =>
         /\ IsFiniteSet(Pushes(t)')
         /\ pushes' = pushes + (IF t = h[w].task THEN 1 ELSE 0)
  BY <1>0, <1>5, SendTypes, AcceptPushes DEF Open
<1>9. KeepsSent => sent' = sent
  BY DEF KeepsSent
<1> HIDE DEF pushes, inHand, sent
<1>10. CASE /\ h[w].stage # "sent" /\ h'[w].stage # "sent"
            /\ UNCHANGED delivered /\ KeepsSent
  BY <1>3, <1>5, <1>6, <1>7, <1>9, <1>10
<1>11. CASE /\ h[w].stage = "send" /\ h'[w].stage = "sent" /\ h'[w].task = h[w].task
            /\ Accept(w) /\ UNCHANGED spent /\ KeepsSent
  BY <1>3, <1>5, <1>6, <1>8, <1>9, <1>11
<1>12. CASE /\ h[w].stage = "send" /\ h'[w].stage = "failed"
            /\ Accept(w) /\ Spend("lostanswer") /\ KeepsSent
  <2>1. Paid' = Paid + 1
    BY <1>0, <1>12, PaidFacts
  <2> QED BY <1>3, <1>5, <1>6, <1>8, <1>9, <1>12, <2>1
<1>13. CASE /\ h[w].stage = "sent" /\ h'[w].stage = "loop"
            /\ UNCHANGED <<delivered, spent>> /\ MoveRow(h[w].task, "sent")
  <2>1. sent' = sent + (IF t = h[w].task THEN 1 ELSE 0)
    BY <1>0, <1>5, <1>13, SentRows DEF sent
  <2> QED BY <1>3, <1>5, <1>6, <1>7, <1>13, <2>1
<1>14. CASE /\ h'[w].stage = "idle" /\ Spend("fail")
            /\ UNCHANGED delivered /\ KeepsSent
  <2>1. Paid' = Paid + 1
    BY <1>0, <1>14, PaidFacts
  <2> QED BY <1>3, <1>5, <1>6, <1>7, <1>9, <1>14, <2>1
<1> QED BY <1>10, <1>11, <1>12, <1>13, <1>14, RecordFacts

LEMMA RecordInit == Init => RecordInv
<1> SUFFICES ASSUME Init, NEW t \in Tasks
             PROVE  /\ Cardinality(Pushes(t)) - rows[t]["sent"] - Cardinality(InHand(t)) = 0
                    /\ IsFiniteSet(Pushes(t)) /\ spent["fail"] + spent["lostanswer"] = 0
  BY DEF RecordInv, DeliveriesRecorded
<1>1. InHand(t) = {}
  BY IdleType DEF Init, InHand, At
<1>2. \A k \in Tokens : delivered[t][k] = 0
  BY DEF Init
<1>3. Pushes(t) = {}
  BY <1>2 DEF Pushes
<1>4. rows[t]["sent"] = 0 /\ spent["fail"] + spent["lostanswer"] = 0
  BY DEF Init, Statuses, Faults
<1> QED BY <1>1, <1>3, <1>4, FS_EmptySet

LEMMA RecordStep == TypeInv /\ RecordInv /\ [Next]_vars => RecordInv'
<1> SUFFICES ASSUME TypeInv, RecordInv, [Next]_vars PROVE RecordInv'
  OBVIOUS
<1>0. TypeOK /\ Faults = {"fail", "redeliver", "lostanswer", "unavailable", "refuse",
                          "uninstall", "unregister", "toggle"}
  BY DEF TypeInv, Faults
<1>1. CASE \/ ToggleNotifications
           \/ \E k \in Tokens : Register(k) \/ Uninstall(k)
           \/ \E d \in registered : Unregister(d)
           \/ UNCHANGED vars
  BY <1>0, <1>1, RecordKept DEF ToggleNotifications, Register, Uninstall, Unregister, vars,
                                rowVars, history
<1>2. ASSUME NEW t \in Tasks, Redeliver(t) \/ Exhaust(t) PROVE RecordInv'
  BY <1>0, <1>2, RecordKept DEF Redeliver, Exhaust, rowVars, history
<1>3. ASSUME NEW w \in Workers, NEW t \in Tasks, Deliver(w, t) PROVE RecordInv'
  <2>1. /\ \A v \in Workers \ {w} : h'[v] = h[v]
        /\ h'[w].stage = "coupon" /\ h[w].stage = "idle"
        /\ UNCHANGED <<rows, delivered, spent>>
    BY <1>0, <1>3, DeliverFacts DEF rowVars, history
  <2>2. \A n : InHand(n)' = InHand(n) /\ Pushes(n)' = Pushes(n)
    BY <2>1 DEF InHand, At, Pushes
  <2> QED BY <2>1, <2>2 DEF RecordInv, DeliveriesRecorded
<1>4. ASSUME NEW w \in Workers, Handler(w) \/ Fail(w) PROVE RecordInv'
  BY <1>4, RecordHandler
<1> QED BY <1>1, <1>2, <1>3, <1>4 DEF Next

(* NotificationService.dispatch: a message FCM accepted has its sent row, or *)
(* the handler is about to write it; only a handler cut short or an answer   *)
(* lost leaves one unrecorded, and no row says sent without a delivery.      *)
THEOREM SentIsRecorded == Spec => []DeliveriesRecorded
<1>1. Init => RecordInv
  BY RecordInit
<1>2. TypeInv /\ RecordInv /\ [Next]_vars => RecordInv'
  BY RecordStep
<1>3. RecordInv => DeliveriesRecorded
  BY DEF RecordInv
<1> QED BY <1>1, <1>2, <1>3, TypeCorrect, PTL DEF Spec

=============================================================================
