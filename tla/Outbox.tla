------------------------------- MODULE Outbox -------------------------------
(***************************************************************************)
(* OutboxService and OutboxWorker: the rows of outbox_events, the workers  *)
(* that claim and handle them, and what a handling leaves behind.          *)
(*                                                                         *)
(* A worker claims a batch in one transaction (FOR UPDATE SKIP LOCKED) and *)
(* works on copies of the rows from then on: every statement of a handler  *)
(* and the write of its outcome is a step of its own, and the outcome is   *)
(* written by id, whatever the row has become.  available_at and claimed_at*)
(* count only through the comparisons with NOW() that the claim makes.     *)
(***************************************************************************)
EXTENDS Naturals, Sequences, FiniteSets

CONSTANTS MaxEvents,    \* bound: events ever enqueued
          Announced,    \* events with a mail or a realtime message
          Recipients,   \* [Events -> Seq(Users)]: who is notified, in order
          Users,        \* users, with one device each
          Workers,      \* worker processes
          BatchSize,    \* WORKER_BATCH_SIZE
          MaxAttempts,  \* attempts before an event is given up, 5 in the code
          MaxStalls     \* bound: crashes and handlings slower than the timeout

Events == 1 .. MaxEvents   \* in the order of created_at

ASSUME OutboxAssumption ==
  /\ MaxEvents \in Nat /\ BatchSize \in Nat \ {0}
  /\ MaxAttempts \in Nat \ {0} /\ MaxStalls \in Nat
  /\ Announced \subseteq Events
  /\ Recipients \in [Events -> Seq(Users)]

VARIABLES
  eventStatus,  \* outbox_events.status, "none" before the row exists
  attempts,     \* outbox_events.attempts
  available,    \* events with available_at <= NOW()
  timedOut,     \* events whose claimed_at is older than the claim timeout
  claimed,      \* attempts in the copies a worker holds, 0 when it holds none
  step,         \* the statement a worker executes next for its oldest copy
  position,     \* the recipient it has got to
  announcements,\* events whose mail or message has gone out
  notified,     \* <<event, user>> with a notifications row
  delivery,     \* notification_deliveries.status, "none" without a row
  activeDevices,\* users with an active device who have not opted out of push
  stalls        \* crashes and timeouts of live claims so far

rowVars == <<eventStatus, attempts, available, timedOut>>
workerVars == <<claimed, step, position>>
effectVars == <<announcements, notified, delivery, activeDevices>>
vars == <<rowVars, workerVars, effectVars, stalls>>

EventStatuses == {"pending", "processing", "published", "failed", "dead_letter"}
Steps == {"announce", "find", "insert", "look", "push", "sent", "skipped"}

TypeOK ==
  /\ eventStatus \in [Events -> EventStatuses \cup {"none"}]
  /\ attempts \in [Events -> Nat]
  /\ available \in SUBSET Events
  /\ timedOut \in SUBSET Events
  /\ claimed \in [Workers -> [Events -> Nat]]
  /\ step \in [Workers -> Steps]
  /\ position \in [Workers -> Nat \ {0}]
  /\ announcements \in SUBSET Events
  /\ notified \in SUBSET (Events \X Users)
  /\ delivery \in [Events \X Users -> {"none", "sent", "skipped"}]
  /\ activeDevices \in SUBSET Users
  /\ stalls \in Nat

Init ==
  /\ eventStatus = [e \in Events |-> "none"]
  /\ attempts = [e \in Events |-> 0]
  /\ available = {}
  /\ timedOut = {}
  /\ claimed = [w \in Workers |-> [e \in Events |-> 0]]
  /\ step = [w \in Workers |-> "announce"]
  /\ position = [w \in Workers |-> 1]
  /\ announcements = {}
  /\ notified = {}
  /\ delivery = [n \in Events \X Users |-> "none"]
  /\ activeDevices \in SUBSET Users
  /\ stalls = 0

-----------------------------------------------------------------------------
\* OutboxService.enqueue, in the transaction of whoever changes the state.
Enqueue(e) ==
  /\ eventStatus[e] = "none"
  /\ \A d \in 1 .. (e - 1) : eventStatus[d] # "none"
  /\ eventStatus' = [eventStatus EXCEPT ![e] = "pending"]
  /\ available' = available \cup {e}
  /\ UNCHANGED <<attempts, timedOut, workerVars, effectVars, stalls>>

\* Time passes: a backoff ends ...
BackoffEnds(e) ==
  /\ eventStatus[e] # "none" /\ e \notin available
  /\ available' = available \cup {e}
  /\ UNCHANGED <<eventStatus, attempts, timedOut, workerVars, effectVars, stalls>>

Holds(w, e) == claimed[w][e] > 0

\* ... or a claim times out, of a worker that died or of a slow one.
ClaimTimesOut(e) ==
  /\ eventStatus[e] = "processing" /\ e \notin timedOut
  /\ IF \E w \in Workers : Holds(w, e)
     THEN stalls < MaxStalls /\ stalls' = stalls + 1
     ELSE UNCHANGED stalls
  /\ timedOut' = timedOut \cup {e}
  /\ UNCHANGED <<eventStatus, attempts, available, workerVars, effectVars>>

-----------------------------------------------------------------------------
\* A fault: every unfinished row is claimed, whoever is handling it.
ClaimableAnyProcessing(e) ==
  /\ eventStatus[e] \in {"pending", "failed", "processing"}
  /\ e \in available

\* A fault: a row whose worker died is never claimed again.
ClaimableNeverStale(e) ==
  /\ eventStatus[e] \in {"pending", "failed"}
  /\ e \in available

\* The rows the claim selects.
Claimable(e) ==
  /\ \/ eventStatus[e] \in {"pending", "failed"}
     \/ eventStatus[e] = "processing" /\ e \in timedOut
  /\ e \in available

\* The oldest of them, up to the limit.
NextBatch ==
  {e \in Events : /\ Claimable(e)
                  /\ Cardinality({d \in 1 .. (e - 1) : Claimable(d)}) < BatchSize}

\* The claim of processBatch.
Claim(w) ==
  /\ \A e \in Events : ~ Holds(w, e)
  /\ NextBatch # {}
  /\ eventStatus' = [e \in Events |-> IF e \in NextBatch THEN "processing" ELSE eventStatus[e]]
  /\ attempts' = [e \in Events |-> IF e \in NextBatch THEN attempts[e] + 1 ELSE attempts[e]]
  /\ timedOut' = timedOut \ NextBatch
  /\ claimed' = [claimed EXCEPT ![w] = [e \in Events |-> IF e \in NextBatch
                                                         THEN attempts[e] + 1 ELSE 0]]
  /\ step' = [step EXCEPT ![w] = "announce"]
  /\ position' = [position EXCEPT ![w] = 1]
  /\ UNCHANGED <<available, effectVars, stalls>>

\* The copies are handled in turn.
Current(w, e) ==
  /\ Holds(w, e)
  /\ \A d \in 1 .. (e - 1) : ~ Holds(w, d)

\* The worker turns to the next copy of its batch.
NextCopy(w, e) ==
  /\ claimed' = [claimed EXCEPT ![w][e] = 0]
  /\ step' = [step EXCEPT ![w] = "announce"]
  /\ position' = [position EXCEPT ![w] = 1]

\* The handler goes on to its next statement.
Goto(w, s) ==
  /\ step' = [step EXCEPT ![w] = s]
  /\ UNCHANGED <<claimed, position>>

\* The handler goes on with the user after this one.
NextRecipient(w) ==
  /\ step' = [step EXCEPT ![w] = "find"]
  /\ position' = [position EXCEPT ![w] = @ + 1]
  /\ UNCHANGED claimed

\* A fault: the last attempt is not made.
FailedTooEarly(w, e) ==
  /\ eventStatus' = [eventStatus EXCEPT
       ![e] = IF claimed[w][e] + 1 >= MaxAttempts THEN "dead_letter" ELSE "failed"]
  /\ available' = available \ {e}
  /\ NextCopy(w, e)
  /\ UNCHANGED <<attempts, timedOut>>

\* The catch branch: the handler threw.
Failed(w, e) ==
  /\ eventStatus' = [eventStatus EXCEPT
       ![e] = IF claimed[w][e] >= MaxAttempts THEN "dead_letter" ELSE "failed"]
  /\ available' = available \ {e}
  /\ NextCopy(w, e)
  /\ UNCHANGED <<attempts, timedOut>>

-----------------------------------------------------------------------------
\* The mail or the realtime message of the event, if it has one.
Announce(w, e) ==
  /\ Current(w, e) /\ step[w] = "announce"
  /\ IF e \in Announced
     THEN \/ /\ announcements' = announcements \cup {e}
             /\ Goto(w, "find")
             /\ UNCHANGED rowVars
          \/ /\ Failed(w, e)
             /\ UNCHANGED announcements
     ELSE /\ Goto(w, "find")
          /\ UNCHANGED <<announcements, rowVars>>
  /\ UNCHANGED <<notified, delivery, activeDevices, stalls>>

\* The user persistAndPush is called for.
InTurn(w, e, u) ==
  /\ Current(w, e)
  /\ position[w] \in DOMAIN Recipients[e]
  /\ u = Recipients[e][position[w]]

\* A fault: a user who has the notification is taken to have had the push too.
FindNotificationDone(w, e, u) ==
  /\ InTurn(w, e, u) /\ step[w] = "find"
  /\ IF <<e, u>> \in notified THEN NextRecipient(w) ELSE Goto(w, "insert")
  /\ UNCHANGED <<rowVars, effectVars, stalls>>

\* persistAndPush: the read of the notification ...
FindNotification(w, e, u) ==
  /\ InTurn(w, e, u) /\ step[w] = "find"
  /\ Goto(w, IF <<e, u>> \in notified THEN "look" ELSE "insert")
  /\ UNCHANGED <<rowVars, effectVars, stalls>>

\* ... its insert, which a unique index on user and event guards ...
InsertNotification(w, e, u) ==
  /\ InTurn(w, e, u) /\ step[w] = "insert"
  /\ IF <<e, u>> \in notified
     THEN Failed(w, e) /\ UNCHANGED notified
     ELSE /\ notified' = notified \cup {<<e, u>>}
          /\ Goto(w, "look")
          /\ UNCHANGED rowVars
  /\ UNCHANGED <<announcements, delivery, activeDevices, stalls>>

\* ... the read of the device and of its delivery ...
LookUpDelivery(w, e, u) ==
  /\ InTurn(w, e, u) /\ step[w] = "look"
  /\ IF u \in activeDevices /\ delivery[<<e, u>>] = "none"
     THEN Goto(w, "push")
     ELSE NextRecipient(w)
  /\ UNCHANGED <<rowVars, effectVars, stalls>>

\* ... the call of the push provider, which also throws ...
Push(w, e, u) ==
  /\ InTurn(w, e, u) /\ step[w] = "push"
  /\ \/ \E s \in {"sent", "skipped"} : Goto(w, s) /\ UNCHANGED rowVars
     \/ Failed(w, e)
  /\ UNCHANGED <<effectVars, stalls>>

\* ... and the save of its result, guarded by a unique index as well.  A token
\* the provider no longer knows is disabled first.
SaveDelivery(w, e, u) ==
  /\ InTurn(w, e, u) /\ step[w] \in {"sent", "skipped"}
  /\ activeDevices' = IF step[w] = "skipped" THEN activeDevices \ {u} ELSE activeDevices
  /\ IF delivery[<<e, u>>] = "none"
     THEN /\ delivery' = [delivery EXCEPT ![<<e, u>>] = step[w]]
          /\ NextRecipient(w)
          /\ UNCHANGED rowVars
     ELSE Failed(w, e) /\ UNCHANGED delivery
  /\ UNCHANGED <<announcements, notified, stalls>>

\* The handler returned: the row is published.
Publish(w, e) ==
  /\ Current(w, e) /\ step[w] = "find" /\ position[w] > Len(Recipients[e])
  /\ eventStatus' = [eventStatus EXCEPT ![e] = "published"]
  /\ NextCopy(w, e)
  /\ UNCHANGED <<attempts, available, timedOut, effectVars, stalls>>

\* The worker dies and a new one starts in its place; its copies are lost.
Crash(w) ==
  /\ \E e \in Events : Holds(w, e)
  /\ stalls < MaxStalls
  /\ stalls' = stalls + 1
  /\ claimed' = [claimed EXCEPT ![w] = [e \in Events |-> 0]]
  /\ UNCHANGED <<rowVars, step, position, effectVars>>

-----------------------------------------------------------------------------
Handle(w) ==
  \E e \in Events :
    \/ Announce(w, e)
    \/ \E u \in Users :
         \/ FindNotification(w, e, u)
         \/ InsertNotification(w, e, u)
         \/ LookUpDelivery(w, e, u)
         \/ Push(w, e, u)
         \/ SaveDelivery(w, e, u)
    \/ Publish(w, e)

Next ==
  \/ \E e \in Events : Enqueue(e) \/ BackoffEnds(e) \/ ClaimTimesOut(e)
  \/ \E w \in Workers : Claim(w) \/ Handle(w) \/ Crash(w)

\* Time passes and the worker loop runs; how a handling ends is open.
Fairness ==
  /\ \A e \in Events : WF_vars(BackoffEnds(e)) /\ WF_vars(ClaimTimesOut(e))
  /\ \A w \in Workers : WF_vars(Claim(w)) /\ WF_vars(Handle(w))

Spec == Init /\ [][Next]_vars
FairSpec == Spec /\ Fairness

-----------------------------------------------------------------------------
\* Delivered to u: the notification is stored, and pushed if u has a device.
DeliveredTo(e, u) ==
  /\ <<e, u>> \in notified
  /\ u \in activeDevices => delivery[<<e, u>>] # "none"

\* At-least-once delivery: an event is published only when its mail and its
\* notifications have gone out, whatever failed, stalled or ran twice before.
PublishedIsDelivered ==
  \A e \in Events :
    eventStatus[e] = "published" =>
      /\ e \in Announced => e \in announcements
      /\ \A i \in DOMAIN Recipients[e] : DeliveredTo(e, Recipients[e][i])

\* An event is given up only after the attempts it is entitled to, and the
\* copies of stale workers never run ahead of the row.
GivenUpLate ==
  \A e \in Events :
    /\ eventStatus[e] = "dead_letter" => attempts[e] >= MaxAttempts
    /\ \A w \in Workers : claimed[w][e] <= attempts[e]

\* Two workers handle the same event only after one of them has stalled, and as
\* different attempts.
HandledAlone ==
  \A e \in Events, w, v \in Workers :
    w # v /\ Holds(w, e) /\ Holds(v, e) =>
      stalls > 0 /\ claimed[w][e] # claimed[v][e]

\* Every enqueued event is published or given up, once the stalls have ended.
EveryEventSettles ==
  \A e \in Events :
    eventStatus[e] # "none" ~> [](eventStatus[e] \in {"published", "dead_letter"})
=============================================================================
