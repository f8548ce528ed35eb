---------------------------- MODULE OutboxProofs ----------------------------
(***************************************************************************)
(* Proofs about Outbox, for every number of events, workers, recipients,   *)
(* attempts and stalls.                                                    *)
(***************************************************************************)
EXTENDS Outbox, TLAPS

-----------------------------------------------------------------------------
(* What the steps of a handler have in common.                              *)

\* The four ways a statement of a handler ends keep the workers and rows typed.
LEMMA HandlerType ==
  ASSUME TypeOK, NEW w \in Workers, NEW e \in Events,
         \/ UNCHANGED rowVars /\ \E s \in Steps : Goto(w, s)
         \/ UNCHANGED rowVars /\ NextRecipient(w)
         \/ Failed(w, e)
  PROVE  /\ eventStatus' \in [Events -> EventStatuses \cup {"none"}]
         /\ attempts' \in [Events -> Nat]
         /\ available' \in SUBSET Events
         /\ timedOut' \in SUBSET Events
         /\ claimed' \in [Workers -> [Events -> Nat]]
         /\ step' \in [Workers -> Steps]
         /\ position' \in [Workers -> Nat \ {0}]
<1> USE DEF TypeOK
<1>1. CASE UNCHANGED rowVars /\ \E s \in Steps : Goto(w, s)
  BY <1>1 DEF Goto, rowVars
<1>2. CASE UNCHANGED rowVars /\ NextRecipient(w)
  BY <1>2 DEF NextRecipient, rowVars, Steps
<1>3. CASE Failed(w, e)
  BY <1>3 DEF Failed, NextCopy, EventStatuses, Steps
<1> QED BY <1>1, <1>2, <1>3

\* Every variable keeps its type in every reachable state.
THEOREM OutboxTypeCorrect == Spec => []TypeOK
<1>1. Init => TypeOK
  BY DEF Init, TypeOK, Steps
<1>2. TypeOK /\ [Next]_vars => TypeOK'
  <2> SUFFICES ASSUME TypeOK, [Next]_vars PROVE TypeOK'
    OBVIOUS
  <2> USE DEF TypeOK
  <2>1. ASSUME NEW e \in Events, Enqueue(e) \/ BackoffEnds(e) PROVE TypeOK'
    BY <2>1 DEF Enqueue, BackoffEnds, EventStatuses, workerVars, effectVars
  <2>2. ASSUME NEW e \in Events, ClaimTimesOut(e) PROVE TypeOK'
    BY <2>2 DEF ClaimTimesOut, workerVars, effectVars
  <2>3. ASSUME NEW w \in Workers, Claim(w) PROVE TypeOK'
    BY <2>3 DEF Claim, EventStatuses, Steps, effectVars
  <2>4. ASSUME NEW w \in Workers, NEW e \in Events, Announce(w, e) PROVE TypeOK'
    BY <2>4, HandlerType DEF Announce, Steps
  <2>5. ASSUME NEW w \in Workers, NEW e \in Events, NEW u \in Users,
               FindNotification(w, e, u) \/ LookUpDelivery(w, e, u) \/ Push(w, e, u)
        PROVE  TypeOK'
    BY <2>5, HandlerType DEF FindNotification, LookUpDelivery, Push, Steps, effectVars
  <2>6. ASSUME NEW w \in Workers, NEW e \in Events, NEW u \in Users,
               InsertNotification(w, e, u)
        PROVE  TypeOK'
    BY <2>6, HandlerType DEF InsertNotification, Steps
  <2>7. ASSUME NEW w \in Workers, NEW e \in Events, NEW u \in Users, SaveDelivery(w, e, u)
        PROVE  TypeOK'
    BY <2>7, HandlerType DEF SaveDelivery
  <2>8. ASSUME NEW w \in Workers, NEW e \in Events, Publish(w, e) PROVE TypeOK'
    BY <2>8 DEF Publish, NextCopy, EventStatuses, Steps, effectVars
  <2>9. ASSUME NEW w \in Workers, Crash(w) PROVE TypeOK'
    BY <2>9 DEF Crash, rowVars, effectVars
  <2>10. CASE UNCHANGED vars
    BY <2>10 DEF vars, rowVars, workerVars, effectVars
  <2> QED BY <2>1, <2>2, <2>3, <2>4, <2>5, <2>6, <2>7, <2>8, <2>9, <2>10 DEF Next, Handle
<1> QED BY <1>1, <1>2, PTL DEF Spec

\* A statement of a handler only drops the copy it works on, and touches only
\* the row of that copy.
DropsAtMost(w, e) ==
  /\ UNCHANGED <<attempts, timedOut, stalls>>
  /\ \/ UNCHANGED <<claimed, eventStatus>>
     \/ /\ claimed' = [claimed EXCEPT ![w][e] = 0]
        /\ eventStatus' \in {[eventStatus EXCEPT ![e] = s] : s \in EventStatuses}

\* A step of a handler changes the copy and the row of one event it holds.
LEMMA HandleDropsAtMost ==
  ASSUME TypeOK, NEW w \in Workers, Handle(w)
  PROVE  \E e \in Events :
           /\ DropsAtMost(w, e)
           /\ Holds(w, e)
           /\ eventStatus'[e] = "dead_letter" =>
                eventStatus[e] = "dead_letter" \/ claimed[w][e] >= MaxAttempts
<1> DEFINE Good(e) == /\ DropsAtMost(w, e)
                      /\ Holds(w, e)
                      /\ eventStatus'[e] = "dead_letter" =>
                           eventStatus[e] = "dead_letter" \/ claimed[w][e] >= MaxAttempts
<1>0. ASSUME NEW e \in Events, Holds(w, e), UNCHANGED stalls,
             \/ UNCHANGED rowVars /\ \E s \in Steps : Goto(w, s)
             \/ UNCHANGED rowVars /\ NextRecipient(w)
             \/ Failed(w, e)
      PROVE  Good(e)
  <2>1. CASE UNCHANGED rowVars /\ UNCHANGED claimed
    BY <1>0, <2>1 DEF rowVars, DropsAtMost
  <2>2. CASE Failed(w, e)
    BY <1>0, <2>2 DEF Failed, NextCopy, DropsAtMost, EventStatuses, TypeOK
  <2> QED BY <1>0, <2>1, <2>2 DEF Goto, NextRecipient
<1>1. ASSUME NEW e \in Events, Announce(w, e) PROVE Good(e)
  BY <1>0, <1>1 DEF Announce, Current, Steps
<1>2. ASSUME NEW e \in Events, NEW u \in Users,
             FindNotification(w, e, u) \/ LookUpDelivery(w, e, u) \/ Push(w, e, u)
      PROVE  Good(e)
  BY <1>0, <1>2 DEF FindNotification, LookUpDelivery, Push, InTurn, Current, Steps
<1>3. ASSUME NEW e \in Events, NEW u \in Users,
             InsertNotification(w, e, u) \/ SaveDelivery(w, e, u)
      PROVE  Good(e)
  BY <1>0, <1>3 DEF InsertNotification, SaveDelivery, InTurn, Current, Steps
<1>4. ASSUME NEW e \in Events, Publish(w, e) PROVE Good(e)
  BY <1>4 DEF Publish, NextCopy, Current, DropsAtMost, EventStatuses, TypeOK
<1> QED BY <1>1, <1>2, <1>3, <1>4 DEF Handle

-----------------------------------------------------------------------------
(* Claims and attempts.                                                     *)

\* Copies of one row carry different attempts, and while nothing has stalled a
\* row with a copy is being processed and its claim has not timed out.
ClaimsInv ==
  /\ GivenUpLate
  /\ \A e \in Events, w, v \in Workers :
       w # v /\ Holds(w, e) /\ Holds(v, e) => claimed[w][e] # claimed[v][e]
  /\ stalls = 0 =>
       \A e \in Events, w \in Workers :
         Holds(w, e) => /\ eventStatus[e] = "processing" /\ e \notin timedOut
                        /\ \A v \in Workers : Holds(v, e) => v = w

\* Copies never run ahead of their rows and differ while two are held.
LEMMA ClaimsStep == TypeOK /\ ClaimsInv /\ [Next]_vars => ClaimsInv'
<1> SUFFICES ASSUME TypeOK, ClaimsInv, [Next]_vars PROVE ClaimsInv'
  OBVIOUS
<1> USE DEF TypeOK, ClaimsInv, GivenUpLate, Holds
<1>1. ASSUME NEW e \in Events, Enqueue(e) \/ BackoffEnds(e) PROVE ClaimsInv'
  BY <1>1 DEF Enqueue, BackoffEnds, workerVars
<1>2. ASSUME NEW e \in Events, ClaimTimesOut(e) PROVE ClaimsInv'
  BY <1>2 DEF ClaimTimesOut, workerVars
<1>3. ASSUME NEW w \in Workers, Claim(w) PROVE ClaimsInv'
  <2>1. \A e \in Events :
          \/ /\ e \in NextBatch /\ Claimable(e)
             /\ eventStatus'[e] = "processing" /\ e \notin timedOut'
             /\ attempts'[e] = attempts[e] + 1 /\ claimed'[w][e] = attempts[e] + 1
          \/ /\ eventStatus'[e] = eventStatus[e] /\ (e \in timedOut' <=> e \in timedOut)
             /\ attempts'[e] = attempts[e] /\ claimed'[w][e] = 0
    BY <1>3 DEF Claim, NextBatch
  <2>2. \A v \in Workers \ {w}, e \in Events : claimed'[v][e] = claimed[v][e]
    BY <1>3 DEF Claim
  <2>3. stalls' = stalls /\ \A e \in Events : claimed[w][e] = 0
    BY <1>3 DEF Claim
  <2>4. stalls = 0 => \A e \in Events, v \in Workers : Claimable(e) => claimed[v][e] = 0
    BY DEF Claimable
  <2>n. /\ \A e \in Events : attempts[e] \in Nat
        /\ \A e \in Events, v \in Workers :
             claimed[v][e] \in Nat /\ claimed[v][e] <= attempts[e]
        /\ MaxAttempts \in Nat
    BY OutboxAssumption
  <2>5. GivenUpLate'
    <3> SUFFICES ASSUME NEW e \in Events, NEW v \in Workers
                 PROVE  /\ eventStatus'[e] = "dead_letter" => attempts'[e] >= MaxAttempts
                        /\ claimed'[v][e] <= attempts'[e]
      OBVIOUS
    <3>1. CASE v = w
      BY <2>1, <2>n, <3>1
    <3>2. CASE v # w
      BY <2>1, <2>2, <2>n, <3>2
    <3> QED BY <3>1, <3>2
  <2>6. ASSUME NEW e \in Events, NEW x \in Workers, NEW y \in Workers, x # y,
               claimed'[x][e] > 0, claimed'[y][e] > 0
        PROVE  claimed'[x][e] # claimed'[y][e]
    <3>1. CASE x = w
      BY <2>1, <2>2, <2>6, <2>n, <3>1
    <3>2. CASE y = w
      BY <2>1, <2>2, <2>6, <2>n, <3>2
    <3>3. CASE x # w /\ y # w
      BY <2>2, <2>6, <3>3
    <3> QED BY <3>1, <3>2, <3>3
  <2>7. stalls = 0 =>
          \A e \in Events, x \in Workers :
            claimed'[x][e] > 0 => /\ eventStatus'[e] = "processing" /\ e \notin timedOut'
                                  /\ \A y \in Workers : claimed'[y][e] > 0 => y = x
    BY <2>1, <2>2, <2>4
  <2> QED BY <2>3, <2>5, <2>6, <2>7
<1>4. ASSUME NEW w \in Workers, Handle(w) PROVE ClaimsInv'
  <2>1. PICK e \in Events :
          /\ DropsAtMost(w, e)
          /\ Holds(w, e)
          /\ eventStatus'[e] = "dead_letter" =>
               eventStatus[e] = "dead_letter" \/ claimed[w][e] >= MaxAttempts
    BY <1>4, HandleDropsAtMost
  <2>2. /\ UNCHANGED <<attempts, timedOut, stalls>>
        /\ \A v \in Workers, d \in Events :
             claimed'[v][d] = claimed[v][d] \/ (v = w /\ d = e /\ claimed'[v][d] = 0)
        /\ \A d \in Events :
             \/ eventStatus'[d] = eventStatus[d]
             \/ d = e /\ claimed'[w][e] = 0
    BY <2>1 DEF DropsAtMost
  <2>3. attempts[e] \in Nat /\ claimed[w][e] \in Nat /\ MaxAttempts \in Nat
    BY OutboxAssumption
  <2>4. GivenUpLate'
    <3> SUFFICES ASSUME NEW d \in Events, NEW v \in Workers
                 PROVE  /\ eventStatus'[d] = "dead_letter" => attempts'[d] >= MaxAttempts
                        /\ claimed'[v][d] <= attempts'[d]
      OBVIOUS
    <3>1. attempts[d] \in Nat /\ claimed[v][d] \in Nat
      OBVIOUS
    <3>2. claimed[v][d] <= attempts[d] /\ claimed[w][e] <= attempts[e]
      OBVIOUS
    <3>3. eventStatus[d] = "dead_letter" => attempts[d] >= MaxAttempts
      OBVIOUS
    <3>4. claimed'[v][d] <= attempts'[d]
      BY <2>2, <3>1, <3>2
    <3>5. CASE d = e
      BY <2>1, <2>2, <2>3, <3>2, <3>3, <3>4, <3>5
    <3>6. CASE d # e
      BY <2>2, <3>3, <3>4, <3>6
    <3> QED BY <3>5, <3>6
  <2>5. \A d \in Events, x, y \in Workers :
          x # y /\ claimed'[x][d] > 0 /\ claimed'[y][d] > 0 => claimed'[x][d] # claimed'[y][d]
    BY <2>2
  <2>6. stalls = 0 =>
          \A d \in Events, x \in Workers :
            claimed'[x][d] > 0 => /\ eventStatus'[d] = "processing" /\ d \notin timedOut'
                                  /\ \A y \in Workers : claimed'[y][d] > 0 => y = x
    BY <2>1, <2>2
  <2> QED BY <2>2, <2>4, <2>5, <2>6
<1>5. ASSUME NEW w \in Workers, Crash(w) PROVE ClaimsInv'
  <2>1. /\ UNCHANGED <<eventStatus, attempts, timedOut>> /\ stalls' # 0
        /\ \A v \in Workers, d \in Events :
             claimed'[v][d] = claimed[v][d] \/ claimed'[v][d] = 0
    BY <1>5 DEF Crash, rowVars
  <2>2. \A d \in Events : attempts[d] \in Nat
    OBVIOUS
  <2>3. \A d \in Events, v \in Workers : claimed'[v][d] <= attempts[d]
    <3> TAKE d \in Events, v \in Workers
    <3>1. claimed[v][d] <= attempts[d] /\ 0 <= attempts[d]
      BY <2>2
    <3> QED BY <2>1, <3>1
  <2>4. GivenUpLate'
    BY <2>1, <2>3
  <2> QED BY <2>1, <2>4
<1>6. CASE UNCHANGED vars
  BY <1>6 DEF vars, rowVars, workerVars
<1> QED BY <1>1, <1>2, <1>3, <1>4, <1>5, <1>6 DEF Next

\* The invariant of the claims holds in every state.
LEMMA ClaimsCorrect == Spec => []ClaimsInv
<1>1. Init => ClaimsInv
  BY DEF Init, ClaimsInv, GivenUpLate, Holds
<1> QED BY <1>1, ClaimsStep, OutboxTypeCorrect, PTL DEF Spec

\* No worker, however stale its copy, gives an event up before its last attempt.
THEOREM GivenUpCorrect == Spec => []GivenUpLate
<1>1. ClaimsInv => GivenUpLate
  BY DEF ClaimsInv
<1> QED BY <1>1, ClaimsCorrect, PTL

\* While no worker stalls, no event is handled by two of them.
THEOREM HandledAloneCorrect == Spec => []HandledAlone
<1>1. TypeOK /\ ClaimsInv => HandledAlone
  BY DEF ClaimsInv, HandledAlone, TypeOK
<1> QED BY <1>1, ClaimsCorrect, OutboxTypeCorrect, PTL

-----------------------------------------------------------------------------
(* Delivery.                                                                *)

\* How far the handler of a copy has got: past the announcement, the recipients
\* before the current one are served, and the current one has his notification
\* once the handler looks at devices.
HandlerOK(w) ==
  \A e \in Events :
    Current(w, e) =>
      /\ step[w] # "announce" /\ e \in Announced => e \in announcements
      /\ \A i \in DOMAIN Recipients[e] :
           /\ i < position[w] => DeliveredTo(e, Recipients[e][i])
           /\ i = position[w] /\ step[w] \in {"look", "push", "sent", "skipped"} =>
                <<e, Recipients[e][i]>> \in notified

HandlerInv == \A w \in Workers : HandlerOK(w)

DeliveryInv == HandlerInv /\ PublishedIsDelivered

\* What has gone out stays out: nothing is delivered less than before.
LEMMA DeliveredStays ==
  TypeOK /\ [Next]_vars =>
    /\ announcements \subseteq announcements'
    /\ notified \subseteq notified'
    /\ activeDevices' \subseteq activeDevices
    /\ \A n \in Events \X Users : delivery[n] # "none" => delivery'[n] # "none"
<1> SUFFICES ASSUME TypeOK, [Next]_vars
             PROVE  /\ announcements \subseteq announcements'
                    /\ notified \subseteq notified'
                    /\ activeDevices' \subseteq activeDevices
                    /\ \A n \in Events \X Users : delivery[n] # "none" => delivery'[n] # "none"
  OBVIOUS
<1>1. CASE UNCHANGED effectVars
  BY <1>1 DEF effectVars
<1>2. ASSUME NEW w \in Workers, NEW e \in Events, NEW u \in Users, SaveDelivery(w, e, u)
      PROVE  /\ announcements \subseteq announcements'
             /\ notified \subseteq notified'
             /\ activeDevices' \subseteq activeDevices
             /\ \A n \in Events \X Users : delivery[n] # "none" => delivery'[n] # "none"
  <2>1. \A n \in Events \X Users : delivery[n] # "none" => delivery'[n] # "none"
    BY <1>2 DEF SaveDelivery, TypeOK
  <2> QED BY <1>2, <2>1 DEF SaveDelivery
<1>3. ASSUME NEW w \in Workers, Handle(w)
      PROVE  /\ announcements \subseteq announcements'
             /\ notified \subseteq notified'
             /\ activeDevices' \subseteq activeDevices
             /\ \A n \in Events \X Users : delivery[n] # "none" => delivery'[n] # "none"
  BY <1>1, <1>2, <1>3 DEF Handle, Announce, FindNotification, InsertNotification,
                          LookUpDelivery, Push, Publish
<1> QED BY <1>1, <1>3 DEF Next, Enqueue, BackoffEnds, ClaimTimesOut, Claim, Crash, vars

\* A worker that does not move keeps its place.
LEMMA OthersKeep ==
  ASSUME TypeOK, [Next]_vars, NEW v \in Workers, HandlerOK(v),
         claimed'[v] = claimed[v], step'[v] = step[v], position'[v] = position[v]
  PROVE  HandlerOK(v)'
<1>1. \A e \in Events : Current(v, e)' <=> Current(v, e)
  BY DEF Current, Holds
<1>2. \A e \in Events : \A i \in DOMAIN Recipients[e] : Recipients[e][i] \in Users
  BY OutboxAssumption
<1>3. \A e \in Events, u \in Users : DeliveredTo(e, u) => DeliveredTo(e, u)'
  BY DeliveredStays DEF DeliveredTo
<1> QED BY <1>1, <1>2, <1>3, DeliveredStays DEF HandlerOK

\* A worker that turns to a new copy has promised nothing yet.
LEMMA NewCopyOK ==
  ASSUME NEW w \in Workers, step'[w] = "announce", position'[w] = 1
  PROVE  HandlerOK(w)'
<1>1. \A e \in Events : \A i \in DOMAIN Recipients[e] : ~ (i < 1)
  BY OutboxAssumption
<1> QED BY <1>1 DEF HandlerOK

\* A worker that keeps its copies works on the same one.
LEMMA CurrentIsOne ==
  ASSUME NEW w \in Workers, NEW e \in Events, Current(w, e), claimed' = claimed
  PROVE  \A d \in Events : Current(w, d)' => d = e
<1> SUFFICES ASSUME NEW d \in Events, Current(w, d)' PROVE d = e
  OBVIOUS
<1>1. Current(w, d)
  BY DEF Current, Holds
<1>2. ~ (d < e) /\ ~ (e < d)
  <2>1. \A x, y \in Events : x < y => x \in 1 .. (y - 1)
    BY OutboxAssumption DEF Events
  <2> QED BY <1>1, <2>1 DEF Current
<1>3. d \in Nat /\ e \in Nat
  BY OutboxAssumption DEF Events
<1> QED BY <1>2, <1>3

\* A statement of a handler keeps the promise of its worker.
LEMMA HandleOK ==
  ASSUME TypeOK, TypeOK', NEW w \in Workers, HandlerOK(w), Handle(w)
  PROVE  HandlerOK(w)'
<1>n. [Next]_vars
  BY DEF Next
<1>u. \A e \in Events : \A i \in DOMAIN Recipients[e] : i \in Nat /\ Recipients[e][i] \in Users
  BY OutboxAssumption
<1>m. \A e \in Events, u \in Users : DeliveredTo(e, u) => DeliveredTo(e, u)'
  BY <1>n, DeliveredStays DEF DeliveredTo
<1>f. ASSUME NEW e \in Events, Failed(w, e) PROVE HandlerOK(w)'
  <2>1. step'[w] = "announce" /\ position'[w] = 1
    BY <1>f DEF Failed, NextCopy, TypeOK
  <2> QED BY <2>1, NewCopyOK
<1>g. ASSUME NEW e \in Events, NEW s \in Steps \ {"announce"}, Current(w, e), Goto(w, s),
             e \in Announced => e \in announcements',
             s \in {"look", "push", "sent", "skipped"} =>
               (position[w] \in DOMAIN Recipients[e] =>
                  <<e, Recipients[e][position[w]]>> \in notified')
      PROVE  HandlerOK(w)'
  <2>1. step'[w] = s /\ position'[w] = position[w] /\ claimed' = claimed
    BY <1>g DEF Goto, TypeOK
  <2>2. \A d \in Events : Current(w, d)' => d = e
    BY <1>g, <2>1, CurrentIsOne
  <2>3. \A i \in DOMAIN Recipients[e] : i < position[w] => DeliveredTo(e, Recipients[e][i])'
    BY <1>g, <1>u, <1>m DEF HandlerOK
  <2> QED BY <1>g, <2>1, <2>2, <2>3 DEF HandlerOK
<1>r. ASSUME NEW e \in Events, NEW u \in Users, Current(w, e), NextRecipient(w),
             step[w] # "announce",
             position[w] \in DOMAIN Recipients[e], u = Recipients[e][position[w]],
             DeliveredTo(e, u)'
      PROVE  HandlerOK(w)'
  <2>1. step'[w] = "find" /\ position'[w] = position[w] + 1 /\ claimed' = claimed
    BY <1>r DEF NextRecipient, TypeOK
  <2>2. \A d \in Events : Current(w, d)' => d = e
    BY <1>r, <2>1, CurrentIsOne
  <2>3. \A i \in DOMAIN Recipients[e] :
          i < position'[w] => DeliveredTo(e, Recipients[e][i])'
    <3> TAKE i \in DOMAIN Recipients[e]
    <3>1. CASE i = position[w]
      BY <1>r, <3>1
    <3>2. CASE i < position[w]
      BY <1>r, <1>u, <1>m, <3>2 DEF HandlerOK
    <3>3. i \in Nat /\ position[w] \in Nat
      BY <1>u DEF TypeOK
    <3> QED BY <2>1, <3>1, <3>2, <3>3
  <2>4. e \in Announced => e \in announcements'
    BY <1>n, <1>r, DeliveredStays DEF HandlerOK
  <2> QED BY <2>1, <2>2, <2>3, <2>4 DEF HandlerOK
<1>a. ASSUME NEW e \in Events, Current(w, e), step[w] # "announce"
      PROVE  e \in Announced => e \in announcements'
  BY <1>n, <1>a, DeliveredStays DEF HandlerOK
<1>1. ASSUME NEW e \in Events, Announce(w, e) PROVE HandlerOK(w)'
  <2>1. Current(w, e) /\ "find" \in Steps \ {"announce"}
    BY <1>1 DEF Announce, Steps
  <2>2. \/ Failed(w, e)
        \/ Goto(w, "find") /\ (e \in Announced => e \in announcements')
    BY <1>1 DEF Announce
  <2> QED BY <1>f, <1>g, <2>1, <2>2
<1>2. ASSUME NEW e \in Events, NEW u \in Users, FindNotification(w, e, u)
      PROVE  HandlerOK(w)'
  <2>1. /\ Current(w, e) /\ step[w] # "announce" /\ u = Recipients[e][position[w]]
        /\ UNCHANGED notified
    BY <1>2 DEF FindNotification, InTurn, effectVars
  <2>2. \/ Goto(w, "look") /\ <<e, u>> \in notified
        \/ Goto(w, "insert")
    BY <1>2 DEF FindNotification
  <2> QED BY <1>a, <1>g, <2>1, <2>2 DEF Steps
<1>3. ASSUME NEW e \in Events, NEW u \in Users, InsertNotification(w, e, u)
      PROVE  HandlerOK(w)'
  <2>1. Current(w, e) /\ step[w] # "announce" /\ u = Recipients[e][position[w]]
    BY <1>3 DEF InsertNotification, InTurn
  <2>2. \/ Failed(w, e)
        \/ Goto(w, "look") /\ <<e, u>> \in notified'
    BY <1>3 DEF InsertNotification
  <2> QED BY <1>a, <1>f, <1>g, <2>1, <2>2 DEF Steps
<1>4. ASSUME NEW e \in Events, NEW u \in Users, LookUpDelivery(w, e, u)
      PROVE  HandlerOK(w)'
  <2>1. /\ Current(w, e) /\ step[w] = "look" /\ u = Recipients[e][position[w]]
        /\ position[w] \in DOMAIN Recipients[e]
        /\ UNCHANGED effectVars
    BY <1>4 DEF LookUpDelivery, InTurn
  <2>2. <<e, u>> \in notified /\ UNCHANGED <<notified, delivery, activeDevices>>
    BY <2>1 DEF HandlerOK, effectVars
  <2>3. CASE Goto(w, "push")
    BY <1>a, <1>g, <2>1, <2>2, <2>3 DEF Steps
  <2>4. CASE NextRecipient(w) /\ ~ (u \in activeDevices /\ delivery[<<e, u>>] = "none")
    <3>1. DeliveredTo(e, u)'
      BY <2>2, <2>4 DEF DeliveredTo
    <3> QED BY <1>r, <2>1, <2>4, <3>1
  <2> QED BY <1>4, <2>3, <2>4 DEF LookUpDelivery
<1>5. ASSUME NEW e \in Events, NEW u \in Users, Push(w, e, u) PROVE HandlerOK(w)'
  <2>1. /\ Current(w, e) /\ step[w] = "push" /\ u = Recipients[e][position[w]]
        /\ position[w] \in DOMAIN Recipients[e]
        /\ UNCHANGED notified
    BY <1>5 DEF Push, InTurn, effectVars
  <2>2. <<e, u>> \in notified
    BY <2>1 DEF HandlerOK
  <2>3. Failed(w, e) \/ Goto(w, "sent") \/ Goto(w, "skipped")
    BY <1>5 DEF Push
  <2> QED BY <1>a, <1>f, <1>g, <2>1, <2>2, <2>3 DEF Steps
<1>6. ASSUME NEW e \in Events, NEW u \in Users, SaveDelivery(w, e, u) PROVE HandlerOK(w)'
  <2>1. /\ Current(w, e) /\ step[w] \in {"sent", "skipped"}
        /\ u = Recipients[e][position[w]] /\ position[w] \in DOMAIN Recipients[e]
    BY <1>6 DEF SaveDelivery, InTurn
  <2>2. <<e, u>> \in notified
    BY <2>1 DEF HandlerOK
  <2>3. CASE NextRecipient(w) /\ delivery' = [delivery EXCEPT ![<<e, u>>] = step[w]]
    <3>1. delivery'[<<e, u>>] # "none" /\ UNCHANGED notified
      BY <1>6, <2>1, <2>3 DEF SaveDelivery, TypeOK
    <3>2. DeliveredTo(e, u)'
      BY <2>2, <3>1 DEF DeliveredTo
    <3> QED BY <1>r, <2>1, <2>3, <3>2
  <2> QED BY <1>6, <1>f, <2>3 DEF SaveDelivery
<1>7. ASSUME NEW e \in Events, Publish(w, e) PROVE HandlerOK(w)'
  <2>1. step'[w] = "announce" /\ position'[w] = 1
    BY <1>7 DEF Publish, NextCopy, TypeOK
  <2> QED BY <2>1, NewCopyOK
<1> QED BY <1>1, <1>2, <1>3, <1>4, <1>5, <1>6, <1>7 DEF Handle

\* A handler touches no other worker.
LEMMA HandleIsLocal ==
  ASSUME TypeOK, NEW w \in Workers, NEW v \in Workers \ {w}, Handle(w)
  PROVE  claimed'[v] = claimed[v] /\ step'[v] = step[v] /\ position'[v] = position[v]
<1>1. \/ \E s \in Steps : Goto(w, s)
      \/ NextRecipient(w)
      \/ \E e \in Events : NextCopy(w, e)
  BY DEF Handle, Announce, FindNotification, InsertNotification, LookUpDelivery, Push,
         SaveDelivery, Publish, Failed, Steps
<1> QED BY <1>1 DEF Goto, NextRecipient, NextCopy, TypeOK

\* A row becomes published only through the handler that served everybody.
LEMMA PublishedStep ==
  ASSUME TypeOK, HandlerInv, PublishedIsDelivered, [Next]_vars
  PROVE  PublishedIsDelivered'
<1>u. \A e \in Events : \A i \in DOMAIN Recipients[e] :
        i \in Nat /\ i <= Len(Recipients[e]) /\ Recipients[e][i] \in Users
  BY OutboxAssumption
<1>m. \A e \in Events, u \in Users : DeliveredTo(e, u) => DeliveredTo(e, u)'
  BY DeliveredStays DEF DeliveredTo
<1>1. ASSUME \A e \in Events : eventStatus'[e] = "published" => eventStatus[e] = "published"
      PROVE  PublishedIsDelivered'
  BY <1>1, <1>u, <1>m, DeliveredStays DEF PublishedIsDelivered
<1>2. ASSUME NEW w \in Workers, NEW e \in Events, Publish(w, e)
      PROVE  PublishedIsDelivered'
  <2>1. /\ Current(w, e) /\ step[w] = "find" /\ position[w] > Len(Recipients[e])
        /\ \A d \in Events \ {e} : eventStatus'[d] = eventStatus[d]
        /\ Len(Recipients[e]) \in Nat /\ position[w] \in Nat
    BY <1>2, OutboxAssumption DEF Publish, TypeOK
  <2>2. \A i \in DOMAIN Recipients[e] : i < position[w]
    BY <1>u, <2>1
  <2>3. /\ e \in Announced => e \in announcements
        /\ \A i \in DOMAIN Recipients[e] : DeliveredTo(e, Recipients[e][i])
    BY <2>1, <2>2 DEF HandlerInv, HandlerOK
  <2> QED BY <1>u, <1>m, <2>1, <2>3, DeliveredStays DEF PublishedIsDelivered
<1>3. ASSUME NEW w \in Workers, Handle(w), ~ \E e \in Events : Publish(w, e)
      PROVE  PublishedIsDelivered'
  <2>1. \/ UNCHANGED eventStatus
        \/ \E e \in Events : Failed(w, e)
    BY <1>3 DEF Handle, Announce, FindNotification, InsertNotification, LookUpDelivery,
                Push, SaveDelivery, rowVars
  <2> QED BY <1>1, <2>1 DEF Failed, TypeOK
<1>4. ASSUME NEW e \in Events, Enqueue(e) \/ BackoffEnds(e) \/ ClaimTimesOut(e)
      PROVE  PublishedIsDelivered'
  BY <1>1, <1>4 DEF Enqueue, BackoffEnds, ClaimTimesOut, TypeOK
<1>5. ASSUME NEW w \in Workers, Claim(w) \/ Crash(w) PROVE PublishedIsDelivered'
  BY <1>1, <1>5 DEF Claim, Crash, rowVars
<1>6. CASE UNCHANGED vars
  BY <1>1, <1>6 DEF vars, rowVars
<1> QED BY <1>2, <1>3, <1>4, <1>5, <1>6 DEF Next

\* At-least-once delivery, for any number of crashes and slow workers.
THEOREM DeliveredCorrect == Spec => []PublishedIsDelivered
<1>1. Init => DeliveryInv
  BY DEF Init, DeliveryInv, HandlerInv, HandlerOK, Current, Holds, PublishedIsDelivered
<1>2. TypeOK /\ TypeOK' /\ DeliveryInv /\ [Next]_vars => DeliveryInv'
  <2> SUFFICES ASSUME TypeOK, TypeOK', HandlerInv, PublishedIsDelivered, [Next]_vars
               PROVE  HandlerInv' /\ PublishedIsDelivered'
    BY DEF DeliveryInv
  <2>1. ASSUME NEW v \in Workers PROVE HandlerOK(v)'
    <3>0. HandlerOK(v)
      BY DEF HandlerInv
    <3>1. CASE UNCHANGED workerVars
      BY <3>0, <3>1, OthersKeep DEF workerVars
    <3>2. ASSUME NEW w \in Workers, Claim(w) PROVE HandlerOK(v)'
      <4>1. CASE v = w
        BY <3>2, <4>1, NewCopyOK DEF Claim, TypeOK
      <4>2. CASE v # w
        BY <3>0, <3>2, <4>2, OthersKeep DEF Claim, TypeOK
      <4> QED BY <4>1, <4>2
    <3>3. ASSUME NEW w \in Workers, Handle(w) PROVE HandlerOK(v)'
      <4>1. CASE v = w
        BY <3>0, <3>3, <4>1, HandleOK
      <4>2. CASE v # w
        BY <3>0, <3>3, <4>2, HandleIsLocal, OthersKeep
      <4> QED BY <4>1, <4>2
    <3>4. ASSUME NEW w \in Workers, Crash(w) PROVE HandlerOK(v)'
      <4>1. CASE v = w
        BY <3>4, <4>1 DEF Crash, HandlerOK, Current, Holds, TypeOK
      <4>2. CASE v # w
        BY <3>0, <3>4, <4>2, OthersKeep DEF Crash, TypeOK
      <4> QED BY <4>1, <4>2
    <3> QED BY <3>1, <3>2, <3>3, <3>4 DEF Next, Enqueue, BackoffEnds, ClaimTimesOut, vars
  <2>2. HandlerInv'
    BY <2>1 DEF HandlerInv
  <2> QED BY <2>2, PublishedStep
<1>3. DeliveryInv => PublishedIsDelivered
  BY DEF DeliveryInv
<1> QED BY <1>1, <1>2, <1>3, OutboxTypeCorrect, PTL DEF Spec
=============================================================================
