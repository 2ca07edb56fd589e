------------------------ MODULE NotificationDispatch ------------------------
(***************************************************************************)
(* Push dispatch: Cloud Tasks calls the worker with a coupon's new_coupon  *)
(* or expiry_reminder task, and the handler sends the notification to      *)
(* every device of the user, one notifications row per attempt.  Devices   *)
(* are registered and deleted by the app meanwhile.                        *)
(*                                                                         *)
(* The tasks are those of one user.  A coupon is never deleted and its     *)
(* status never leaves 'active' in the program, so the first two early     *)
(* returns of dispatch are not taken.                                      *)
(***************************************************************************)
EXTENDS Integers, FiniteSets, Functions

CONSTANTS
    Workers,       \* handler invocations that can be in flight at once
    Tasks,         \* Cloud Tasks of the user's coupons
    MaxAttempts,   \* max_attempts of each task's queue
    Tokens,        \* FCM tokens of the user's app installations
    MaxIds,        \* bound: device rows a token ever gets
    Budget,        \* bound: how often each kind of fault may happen
    MaxFaults      \* bound: faults of all kinds together

Faults == {"fail", "redeliver", "lostanswer", "unavailable", "refuse",
           "uninstall", "unregister", "toggle"}

NoWorker == "none"
NoDevice == <<>>

(* A devices row: registering a token again after its row was deleted makes  *)
(* a row with a new id.                                                      *)
Devices == Tokens \X (1..MaxIds)
Token(d) == d[1]

ASSUME DispatchAssumption ==
    /\ MaxAttempts \in [Tasks -> Nat]
    /\ MaxIds \in Nat /\ Tasks # {} /\ IsFiniteSet(Workers)
    /\ Budget \in [Faults -> Nat] /\ MaxFaults \in Nat
    /\ NoWorker \notin Workers /\ NoDevice \notin Devices

Stages == {"idle", "coupon", "disabled", "devices", "history", "loop", "send",
           "sent", "delete", "failed"}
Invocation == [stage: Stages, task: Tasks, todo: SUBSET Devices,
               device: Devices \cup {NoDevice}, shouldRetry: BOOLEAN]

States   == {"ready", "out", "done", "dropped"}
Statuses == {"pending", "sent", "failed", "skipped_disabled"}

VARIABLES
    enabled,     \* users.notifications_enabled
    registered,  \* devices rows
    ids,         \* device rows each token had so far
    installed,   \* tokens FCM still delivers to
    task,        \* the queue: state, attempts and handler of each task
    h,           \* the handler invocations, with the task they run
    rows,        \* notifications rows of each task, by send_status
    sentTo,      \* devices with a sent row, by task (deleted ones are NULL)
    \* History, by task: notifications that reached each token, and devices
    \* the handler that held it listed.
    delivered, listed,
    spent

userVars == <<enabled, registered, ids, installed>>
rowVars  == <<rows, sentTo>>
history == <<delivered, listed>>
vars == <<userVars, task, h, rowVars, history, spent>>

TypeOK ==
    /\ enabled \in BOOLEAN
    /\ registered \subseteq Devices
    /\ ids \in [Tokens -> 0..MaxIds]
    /\ installed \subseteq Tokens
    /\ task \in [Tasks -> [state: States, attempts: Nat, holder: Workers \cup {NoWorker}]]
    /\ h \in [Workers -> Invocation]
    /\ rows \in [Tasks -> [Statuses -> Nat]]
    /\ sentTo \in [Tasks -> SUBSET registered]
    /\ delivered \in [Tasks -> [Tokens -> Nat]]
    /\ listed \in [Tasks -> SUBSET Devices]
    /\ spent \in [Faults -> Nat]

-----------------------------------------------------------------------------
Spend(kind) == /\ spent[kind] < Budget[kind] /\ SumFunction(spent) < MaxFaults
               /\ spent' = [spent EXCEPT ![kind] = @ + 1]

At(w, stage) == h[w].stage = stage
Idle == [stage |-> "idle", task |-> CHOOSE t \in Tasks : TRUE, todo |-> {},
         device |-> NoDevice, shouldRetry |-> FALSE]

(* The answer of PushDispatchController.run: 2xx closes the task, 500 or a   *)
(* lost instance leaves it to be tried again.                                *)
Answer(w, state) ==
    /\ h' = [h EXCEPT ![w] = Idle]
    /\ task' = [t \in Tasks |->
                  IF task[t].holder = w
                  THEN [state |-> state, attempts |-> task[t].attempts, holder |-> NoWorker]
                  ELSE task[t]]
Return(w) == Answer(w, "done")
Throw(w)  == Answer(w, "ready")

Step(w, stage) == /\ h' = [h EXCEPT ![w].stage = stage]
                  /\ UNCHANGED task

AddRow(t, status) == rows' = [rows EXCEPT ![t][status] = @ + 1]
MoveRow(t, status) == rows' = [rows EXCEPT ![t]["pending"] = @ - 1,
                                           ![t][status] = @ + 1]

\* Mutant: notifications rows keep the id of a deleted device.
DeleteDeviceRowOnly(d) == registered' = registered \ {d} /\ UNCHANGED sentTo

(* Deleting a device sets device_id of its notifications rows to NULL.       *)
DeleteDeviceRow(d) ==
    /\ registered' = registered \ {d}
    /\ sentTo' = [t \in Tasks |-> sentTo[t] \ {d}]

Init ==
    /\ enabled = TRUE /\ registered = {} /\ installed = Tokens
    /\ ids = [k \in Tokens |-> 0]
    /\ task = [t \in Tasks |-> [state |-> "ready", attempts |-> 0, holder |-> NoWorker]]
    /\ h = [w \in Workers |-> Idle]
    /\ rows = [t \in Tasks |-> [s \in Statuses |-> 0]]
    /\ sentTo = [t \in Tasks |-> {}]
    /\ delivered = [t \in Tasks |-> [k \in Tokens |-> 0]]
    /\ listed = [t \in Tasks |-> {}]
    /\ spent = [k \in Faults |-> 0]

-----------------------------------------------------------------------------
(* The app and the user.                                                     *)

\* DevicesService.register: the upsert on (userId, fcmToken) changes nothing
\* the dispatch reads when the token has a row.
Register(k) ==
    /\ k \in installed
    /\ \A d \in registered : Token(d) # k
    /\ ids[k] < MaxIds
    /\ ids' = [ids EXCEPT ![k] = @ + 1]
    /\ registered' = registered \cup {<<k, ids[k] + 1>>}
    /\ UNCHANGED <<enabled, installed, task, h, rowVars, history, spent>>

\* DevicesService.unregister, when the user logs out.
Unregister(d) ==
    /\ Spend("unregister")
    /\ DeleteDeviceRow(d)
    /\ UNCHANGED <<enabled, ids, installed, task, h, rows, history>>

Uninstall(k) ==
    /\ k \in installed
    /\ Spend("uninstall")
    /\ installed' = installed \ {k}
    /\ UNCHANGED <<enabled, registered, ids, task, h, rowVars, history>>

ToggleNotifications ==
    /\ Spend("toggle")
    /\ enabled' = ~ enabled
    /\ UNCHANGED <<registered, ids, installed, task, h, rowVars, history>>

-----------------------------------------------------------------------------
(* The queue.                                                                *)
Deliver(w, t) ==
    /\ task[t].state = "ready" /\ task[t].attempts < MaxAttempts[t]
    /\ At(w, "idle")
    /\ task' = [task EXCEPT ![t] = [state |-> "out", attempts |-> @.attempts + 1,
                                    holder |-> w]]
    /\ h' = [h EXCEPT ![w] = [Idle EXCEPT !.stage = "coupon", !.task = t]]
    /\ UNCHANGED <<userVars, rowVars, history, spent>>

\* The dispatch deadline passes under a running handler, or Cloud Tasks calls
\* twice.
Redeliver(t) ==
    /\ task[t].state \in {"out", "done"}
    /\ Spend("redeliver")
    /\ task' = [task EXCEPT ![t].state = "ready", ![t].holder = NoWorker]
    /\ UNCHANGED <<userVars, h, rowVars, history>>

Exhaust(t) ==
    /\ task[t].state = "ready" /\ task[t].attempts >= MaxAttempts[t]
    /\ task' = [task EXCEPT ![t].state = "dropped"]
    /\ UNCHANGED <<userVars, h, rowVars, history, spent>>

-----------------------------------------------------------------------------
(* NotificationService.dispatch, one await at a time.                        *)
LoadCoupon(w) ==
    /\ At(w, "coupon")
    /\ Step(w, IF enabled THEN "devices" ELSE "disabled")
    /\ UNCHANGED <<userVars, rowVars, history, spent>>

SkipDisabled(w) ==
    /\ At(w, "disabled")
    /\ AddRow(h[w].task, "skipped_disabled")
    /\ Return(w)
    /\ UNCHANGED <<userVars, sentTo, history, spent>>

FindDevices(w) ==
    /\ At(w, "devices")
    /\ IF registered = {}
       THEN Return(w)
       ELSE /\ h' = [h EXCEPT ![w].todo = registered, ![w].stage = "history"]
            /\ UNCHANGED task
    /\ listed' = [t \in Tasks |-> IF task[t].holder = w THEN listed[t] \cup registered
                                                       ELSE listed[t]]
    /\ UNCHANGED <<userVars, rowVars, delivered, spent>>

\* Mutant: the sent rows are not read.
FindNoHistory(w) ==
    /\ At(w, "history")
    /\ h' = [h EXCEPT ![w].stage = "loop"]
    /\ UNCHANGED <<userVars, task, rowVars, history, spent>>

\* sentDeviceIds: devices of the list that are served already are passed over.
FindSentDevices(w) ==
    /\ At(w, "history")
    /\ h' = [h EXCEPT ![w].todo = @ \ sentTo[h[w].task], ![w].stage = "loop"]
    /\ UNCHANGED <<userVars, task, rowVars, history, spent>>

\* The pending row of the next device; a device deleted since it was listed
\* breaks the foreign key.
CreatePending(w) ==
    /\ At(w, "loop")
    /\ \E d \in h[w].todo :
         \/ /\ d \notin registered
            /\ Throw(w)
            /\ UNCHANGED rows
         \/ /\ d \in registered
            /\ AddRow(h[w].task, "pending")
            /\ h' = [h EXCEPT ![w].device = d, ![w].todo = @ \ {d}, ![w].stage = "send"]
            /\ UNCHANGED task
    /\ UNCHANGED <<userVars, sentTo, history, spent>>

(* FcmClient.send.  FCM accepts a message for an installed app; its answer   *)
(* may be lost, which is a network error like a request that never arrived.  *)
Accept(w) == delivered' = [delivered EXCEPT ![h[w].task][Token(h[w].device)] = @ + 1]
\* Mutant: a failure counts as permanent.
GiveUp(w) == /\ h' = [h EXCEPT ![w].stage = "failed"]
             /\ UNCHANGED task
Retry(w) == /\ h' = [h EXCEPT ![w].shouldRetry = TRUE, ![w].stage = "failed"]
            /\ UNCHANGED task

\* Mutant: the row of an accepted message stays pending.
SendUnrecorded(w) == /\ Token(h[w].device) \in installed
                     /\ Accept(w) /\ Step(w, "loop") /\ UNCHANGED spent
SendAccepted(w) == /\ Token(h[w].device) \in installed
                   /\ Accept(w) /\ Step(w, "sent") /\ UNCHANGED spent
SendLostAnswer(w) == /\ Token(h[w].device) \in installed
                     /\ Spend("lostanswer") /\ Accept(w) /\ Retry(w)
SendUnavailable(w) == Spend("unavailable") /\ Retry(w) /\ UNCHANGED delivered
SendRefused(w) == Spend("refuse") /\ Step(w, "failed") /\ UNCHANGED delivered
SendUnregistered(w) == /\ Token(h[w].device) \notin installed
                       /\ Step(w, "delete") /\ UNCHANGED <<delivered, spent>>

Send(w) ==
    /\ At(w, "send")
    /\ \/ SendAccepted(w) \/ SendLostAnswer(w) \/ SendUnavailable(w)
       \/ SendRefused(w) \/ SendUnregistered(w)
    /\ UNCHANGED <<userVars, rowVars, listed>>

MarkSent(w) ==
    /\ At(w, "sent")
    /\ MoveRow(h[w].task, "sent")
    /\ sentTo' = [sentTo EXCEPT ![h[w].task] = @ \cup ({h[w].device} \cap registered)]
    /\ Step(w, "loop")
    /\ UNCHANGED <<userVars, history, spent>>

\* device.delete throws when the row is gone already.
DeleteDevice(w) ==
    /\ At(w, "delete")
    /\ \/ /\ h[w].device \in registered
          /\ DeleteDeviceRow(h[w].device)
          /\ Step(w, "failed")
       \/ /\ h[w].device \notin registered
          /\ Throw(w)
          /\ UNCHANGED <<registered, sentTo>>
    /\ UNCHANGED <<enabled, ids, installed, rows, history, spent>>

MarkFailed(w) ==
    /\ At(w, "failed")
    /\ MoveRow(h[w].task, "failed")
    /\ Step(w, "loop")
    /\ UNCHANGED <<userVars, sentTo, history, spent>>

\* Mutant: the controller does not turn shouldRetry into a 500.
FinishAlwaysDone(w) ==
    /\ At(w, "loop") /\ h[w].todo = {}
    /\ Return(w)
    /\ UNCHANGED <<userVars, rowVars, history, spent>>

Finish(w) ==
    /\ At(w, "loop") /\ h[w].todo = {}
    /\ IF h[w].shouldRetry THEN Throw(w) ELSE Return(w)
    /\ UNCHANGED <<userVars, rowVars, history, spent>>

\* A database call throws or the instance is replaced.
Fail(w) ==
    /\ ~ At(w, "idle")
    /\ Spend("fail")
    /\ Throw(w)
    /\ UNCHANGED <<userVars, rowVars, history>>

Handler(w) ==
    \/ LoadCoupon(w) \/ SkipDisabled(w) \/ FindDevices(w) \/ FindSentDevices(w)
    \/ CreatePending(w) \/ Send(w) \/ MarkSent(w) \/ DeleteDevice(w)
    \/ MarkFailed(w) \/ Finish(w)

Next ==
    \/ ToggleNotifications
    \/ \E k \in Tokens : Register(k) \/ Uninstall(k)
    \/ \E d \in registered : Unregister(d)
    \/ \E t \in Tasks : Redeliver(t) \/ Exhaust(t)
    \/ \E w \in Workers : Handler(w) \/ Fail(w)
    \/ \E w \in Workers, t \in Tasks : Deliver(w, t)

Spec == Init /\ [][Next]_vars

(* Handlers make progress, and Cloud Tasks tries every task again until it   *)
(* is done or its attempts are used up.                                      *)
Fairness ==
    /\ \A w \in Workers : WF_vars(Handler(w))
    /\ \A t \in Tasks : SF_vars(\E w \in Workers : Deliver(w, t)) /\ WF_vars(Exhaust(t))

FairSpec == Spec /\ Fairness

-----------------------------------------------------------------------------
(* A token gets a task's notification twice only by a fault that hides the   *)
(* first delivery from the retry: a handler cut short after sending, a lost  *)
(* answer, a second handler of the task, or a registration under a new id.   *)
(* Unavailability, refusals, dead tokens, and other devices' failures never  *)
(* repeat a notification.                                                    *)
DuplicatesNeedFault == \A t \in Tasks, k \in Tokens :
    delivered[t][k] <= 1 + spent["fail"] + spent["redeliver"] + spent["lostanswer"]
                         + spent["unregister"]

(* Every delivery is on record as sent, but for those in hand and at most    *)
(* one per handler cut short or answer lost.                                 *)
Pushes(t) == UNION {{k} \X (1..delivered[t][k]) : k \in Tokens}
InHand(t) == {w \in Workers : At(w, "sent") /\ h[w].task = t}
DeliveriesRecorded == \A t \in Tasks :
    Cardinality(Pushes(t)) - rows[t]["sent"] - Cardinality(InHand(t))
      \in 0..(spent["fail"] + spent["lostanswer"])

(* A task is closed only when every device that a handler holding it listed  *)
(* and that is still registered got the notification, whatever failed for    *)
(* the other devices, unless FCM refused it or notifications were off.       *)
DoneServesAll == \A t \in Tasks :
    task[t].state = "done" /\ spent["refuse"] = 0 /\ spent["toggle"] = 0
      => \A d \in listed[t] \cap registered :
            Token(d) \in installed => delivered[t][Token(d)] > 0

(* A device registered while a task waits is served by it, unless it is      *)
(* removed, FCM refuses the message, notifications are turned off, or the    *)
(* attempts of the task run out.                                             *)
Excused(t, d) ==
    \/ d \notin registered \/ Token(d) \notin installed
    \/ task[t].state = "dropped"
    \/ spent["refuse"] > 0 \/ spent["toggle"] > 0
WaitingTaskServes == \A t \in Tasks, d \in Devices :
    task[t].state = "ready" /\ d \in registered
        ~> delivered[t][Token(d)] > 0 \/ Excused(t, d)

=============================================================================
