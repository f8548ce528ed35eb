-------------------------- MODULE StorefrontProofs --------------------------
(***************************************************************************)
(* Proofs about Storefront, for every length of the day and the week, every*)
(* clock change, all times and any number of requests.                     *)
(***************************************************************************)
EXTENDS Storefront, TLAPS

JobSteps == {"idle", "price", "load", "schedule", "place", "placed", "save_item"}

\* Whatever a checkout goes on with has the type of what was read.
LEMMA EnterType ==
  ASSUME TypeOK, NEW r \in Requests, NEW s \in JobSteps, NEW w \in Wish, NEW k \in Seen,
         Enter(r, s, w, k)
  PROVE  /\ step' \in [Requests -> JobSteps] /\ wish' \in [Requests -> Wish]
         /\ seen' \in [Requests -> Seen] /\ edited' \in [Requests -> BOOLEAN]
BY DEF Enter, TypeOK, JobSteps

LEMMA ContinueType ==
  ASSUME TypeOK, NEW r \in Requests, NEW s \in JobSteps, NEW k \in Seen, Continue(r, s, k)
  PROVE  /\ step' \in [Requests -> JobSteps] /\ wish' \in [Requests -> Wish]
         /\ seen' \in [Requests -> Seen] /\ edited' \in [Requests -> BOOLEAN]
BY DEF Continue, TypeOK, JobSteps

LEMMA NothingType == NoItem \in Item /\ NoWish \in Wish /\ Nothing \in Seen
BY DEF NoItem, Item, NoWish, Wish, OrderTypes, Nothing, Seen

LEMMA OverType ==
  ASSUME TypeOK, NEW r \in Requests, Over(r)
  PROVE  /\ step' \in [Requests -> JobSteps] /\ wish' \in [Requests -> Wish]
         /\ seen' \in [Requests -> Seen] /\ edited' \in [Requests -> BOOLEAN]
BY NothingType DEF Over, TypeOK, JobSteps

LEMMA InitType == Init => TypeOK
<1> SUFFICES ASSUME Init PROVE TypeOK
  OBVIOUS
<1>1. hours \in [Weekdays -> HoursRow]
  BY DEF Init, HoursRow
<1>2. item \in Item /\ delivery \in Nat
  BY StorefrontAssumption DEF Init, Item
<1> QED BY <1>1, <1>2, NothingType, StorefrontAssumption DEF Init, TypeOK

LEMMA StepType == TypeOK /\ [Next]_vars => TypeOK'
<1> SUFFICES ASSUME TypeOK, [Next]_vars PROVE TypeOK'
  OBVIOUS
<1>1. CASE Tick
  BY <1>1 DEF Tick, TypeOK, shopVars, jobVars
<1>2. ASSUME NEW d \in Weekdays,
             NEW row \in [kind : {"open"}, opens : Openings, closes : Openings]
                           \cup [kind : {"closed"}, opens : {0}, closes : {0}],
             UpsertBusinessHours(d, row)
      PROVE  TypeOK'
  <2>1. row \in HoursRow
    <3>1. Openings \subseteq Nat
      BY StorefrontAssumption, HoursAssumption
    <3>2. \A k \in {"open", "closed"}, T \in SUBSET Nat :
            [kind : {k}, opens : T, closes : T] \subseteq HoursRow
      BY DEF HoursRow
    <3>3. Openings \in SUBSET Nat /\ {0} \in SUBSET Nat
      BY <3>1
    <3> QED BY <3>2, <3>3
  <2>2. hours' \in [Weekdays -> HoursRow]
    BY <1>2, <2>1 DEF UpsertBusinessHours, TypeOK
  <2>3. edited' \in [Requests -> BOOLEAN]
    BY <1>2 DEF UpsertBusinessHours
  <2> QED BY <1>2, <2>2, <2>3 DEF UpsertBusinessHours, TypeOK
<1>3. ASSUME NEW t \in DeliveryTimes, UpdateRestaurant(t) PROVE TypeOK'
  BY <1>3, StorefrontAssumption DEF UpdateRestaurant, TypeOK, jobVars
<1>4. ASSUME NEW r \in Requests, ReadItem(r) PROVE TypeOK'
  <2>1. [Nothing EXCEPT !.item = item] \in Seen
    BY NothingType DEF TypeOK, Seen
  <2> QED BY <1>4, <2>1, NothingType, EnterType DEF ReadItem, TypeOK, shopVars, JobSteps
<1>5. ASSUME NEW r \in Requests, NEW prep \in PrepTimes, NEW active \in BOOLEAN,
             SaveItem(r, prep, active)
      PROVE  TypeOK'
  <2>1. seen[r].item \in Item /\ prep \in Nat
    BY StorefrontAssumption DEF TypeOK, Seen
  <2>2. /\ [seen[r].item EXCEPT !.prep = prep, !.active = active] \in Item
        /\ [seen[r].item EXCEPT !.active = FALSE, !.archived = TRUE] \in Item
    BY <2>1 DEF Item
  <2>3. item' \in Item
    BY <1>5, <2>2 DEF SaveItem
  <2> QED BY <1>5, <2>3, OverType DEF SaveItem, TypeOK, JobSteps
<1>6. ASSUME NEW r \in Requests, NEW w \in Wishes, ReadRestaurant(r, w) PROVE TypeOK'
  <2>1. w \in Wish
    BY StorefrontAssumption DEF Wishes, Wish
  <2>2. [Nothing EXCEPT !.delivery = delivery] \in Seen
    BY NothingType DEF TypeOK, Seen
  <2> QED BY <1>6, <2>1, <2>2, EnterType DEF ReadRestaurant, TypeOK, shopVars, JobSteps
<1>7. ASSUME NEW r \in Requests, Price(r) \/ Place(r) PROVE TypeOK'
  <2>1. seen[r] \in Seen
    BY DEF TypeOK
  <2> QED BY <1>7, <2>1, ContinueType DEF Price, Place, TypeOK, shopVars, JobSteps
<1>8. ASSUME NEW r \in Requests, LoadItem(r) PROVE TypeOK'
  <2>1. [seen[r] EXCEPT !.item.prep = item.prep] \in Seen
    BY DEF TypeOK, Seen, Item
  <2> QED BY <1>8, <2>1, ContinueType DEF LoadItem, TypeOK, shopVars, JobSteps
<1>9. ASSUME NEW r \in Requests, Schedule(r) PROVE TypeOK'
  <2>1. [seen[r] EXCEPT !.now = now] \in Seen
    BY DEF TypeOK, Seen
  <2> QED BY <1>9, <2>1, ContinueType DEF Schedule, TypeOK, shopVars, JobSteps
<1>10. ASSUME NEW r \in Requests, Fail(r) PROVE TypeOK'
  BY <1>10, OverType DEF Fail, TypeOK, shopVars, JobSteps
<1>11. CASE UNCHANGED vars
  BY <1>11 DEF vars, TypeOK, shopVars, jobVars
<1> QED BY <1>1, <1>2, <1>3, <1>4, <1>5, <1>6, <1>7, <1>8, <1>9, <1>10, <1>11
        DEF Next, Edit, Handle

\* Every variable keeps its type in every reachable state.
THEOREM StorefrontTypeCorrect == Spec => []TypeOK
<1> QED BY InitType, StepType, PTL DEF Spec

-----------------------------------------------------------------------------
(* What a scheduled order was checked against.                              *)

\* Its time was possible, and within the hours if nobody has edited them since.
Scheduled(s, w, k, e, h) ==
  /\ s \in {"place", "placed"} =>
       \A at \in w.at : InTime(k.now, w.type, PrepOf(k), k.delivery, at)
  /\ s = "place" /\ ~e => IsOpenAt(h, Service(w, k))
ScheduledInv ==
  \A r \in Requests : Scheduled(step[r], wish[r], seen[r], edited[r], hours)

\* One request moves, to what has been scheduled, and the hours stay.
LEMMA OneMoves ==
  ASSUME TypeOK, ScheduledInv, NEW r \in Requests, UNCHANGED hours,
         \A q \in Requests \ {r} : step'[q] = step[q] /\ wish'[q] = wish[q]
                                   /\ seen'[q] = seen[q] /\ edited'[q] = edited[q],
         Scheduled(step'[r], wish'[r], seen'[r], edited'[r], hours)
  PROVE  ScheduledInv'
<1>1. ASSUME NEW q \in Requests
      PROVE  Scheduled(step'[q], wish'[q], seen'[q], edited'[q], hours)
  BY DEF ScheduledInv
<1> QED BY <1>1 DEF ScheduledInv, Scheduled

LEMMA InitScheduled == Init => ScheduledInv
BY DEF Init, ScheduledInv, Scheduled

LEMMA StepScheduled == TypeOK /\ ScheduledInv /\ [Next]_vars => ScheduledInv'
<1> SUFFICES ASSUME TypeOK, ScheduledInv, [Next]_vars PROVE ScheduledInv'
  OBVIOUS
<1>1. CASE UNCHANGED <<hours, jobVars>>
  BY <1>1 DEF ScheduledInv, Scheduled, jobVars
<1>2. ASSUME NEW d \in Weekdays, NEW row, UpsertBusinessHours(d, row) PROVE ScheduledInv'
  <2>1. /\ UNCHANGED <<step, wish, seen>>
        /\ \A q \in Requests : edited'[q] = (step[q] # "idle")
    BY <1>2 DEF UpsertBusinessHours
  <2> QED BY <2>1 DEF ScheduledInv, Scheduled
<1>3. ASSUME NEW r \in Requests, NEW s \in {"price", "save_item"}, NEW w, NEW k,
             Enter(r, s, w, k), UNCHANGED hours
      PROVE  ScheduledInv'
  <2>1. /\ \A q \in Requests \ {r} : step'[q] = step[q] /\ wish'[q] = wish[q]
                                     /\ seen'[q] = seen[q] /\ edited'[q] = edited[q]
        /\ step'[r] = s
    BY <1>3 DEF Enter, TypeOK
  <2> QED BY <1>3, <2>1, OneMoves DEF Scheduled
<1>4. ASSUME NEW r \in Requests, Over(r), UNCHANGED hours PROVE ScheduledInv'
  <2>1. /\ \A q \in Requests \ {r} : step'[q] = step[q] /\ wish'[q] = wish[q]
                                     /\ seen'[q] = seen[q] /\ edited'[q] = edited[q]
        /\ step'[r] = "idle"
    BY <1>4 DEF Over, TypeOK
  <2> QED BY <1>4, <2>1, OneMoves DEF Scheduled
<1>5. ASSUME NEW r \in Requests, NEW s, NEW k, Continue(r, s, k), UNCHANGED hours,
             Scheduled(s, wish[r], k, edited[r], hours)
      PROVE  ScheduledInv'
  <2>1. /\ \A q \in Requests \ {r} : step'[q] = step[q] /\ wish'[q] = wish[q]
                                     /\ seen'[q] = seen[q] /\ edited'[q] = edited[q]
        /\ step'[r] = s /\ wish'[r] = wish[r] /\ seen'[r] = k /\ edited'[r] = edited[r]
    BY <1>5 DEF Continue, TypeOK
  <2> QED BY <1>5, <2>1, OneMoves
<1>6. ASSUME NEW r \in Requests, Price(r) \/ LoadItem(r) PROVE ScheduledInv'
  BY <1>5, <1>6 DEF Price, LoadItem, Scheduled, shopVars
<1>7. ASSUME NEW r \in Requests, Schedule(r) PROVE ScheduledInv'
  <2> DEFINE k == [seen[r] EXCEPT !.now = now]
  <2>1. /\ \A at \in wish[r].at : InTime(now, wish[r].type, PrepOf(k), k.delivery, at)
        /\ IsOpenAt(hours, Service(wish[r], k)) /\ Continue(r, "place", k) /\ UNCHANGED hours
    BY <1>7 DEF Schedule, shopVars
  <2>2. k.now = now
    BY DEF TypeOK, Seen
  <2>3. Scheduled("place", wish[r], k, edited[r], hours)
    BY <2>1, <2>2 DEF Scheduled
  <2> QED BY <1>5, <2>1, <2>3
<1>8. ASSUME NEW r \in Requests, Place(r) PROVE ScheduledInv'
  <2>1. step[r] = "place" /\ Continue(r, "placed", seen[r]) /\ UNCHANGED hours
    BY <1>8 DEF Place, shopVars
  <2>2. Scheduled("placed", wish[r], seen[r], edited[r], hours)
    BY <2>1 DEF ScheduledInv, Scheduled
  <2> QED BY <1>5, <2>1, <2>2
<1>9. ASSUME NEW r \in Requests, Handle(r) PROVE ScheduledInv'
  <2>1. CASE ReadItem(r)
    BY <1>3, <2>1 DEF ReadItem, shopVars
  <2>2. ASSUME NEW w \in Wishes, ReadRestaurant(r, w) PROVE ScheduledInv'
    BY <1>3, <2>2 DEF ReadRestaurant, shopVars
  <2>3. CASE Fail(r) \/ \E prep \in PrepTimes, active \in BOOLEAN : SaveItem(r, prep, active)
    BY <1>4, <2>3 DEF Fail, SaveItem, shopVars
  <2> QED BY <1>6, <1>7, <1>8, <1>9, <2>1, <2>2, <2>3 DEF Handle
<1>10. CASE Tick \/ (\E t \in DeliveryTimes : UpdateRestaurant(t)) \/ UNCHANGED vars
  BY <1>1, <1>10 DEF Tick, UpdateRestaurant, vars, shopVars
<1> QED BY <1>2, <1>9, <1>10 DEF Next, Edit

LEMMA InvCorrect == Spec => [](TypeOK /\ ScheduledInv)
<1> QED BY InitType, StepType, InitScheduled, StepScheduled, PTL DEF Spec

\* A placed order leaves the kitchen its time, but for the shortest way.
THEOREM KitchenCorrect == Spec => []KitchenHasItsTime
<1>1. ASSUME TypeOK, ScheduledInv, NEW r \in Requests, step[r] = "placed"
      PROVE  LET ready == Ready(wish[r], seen[r])
                 least == seen[r].now + PrepOf(seen[r])
             IN \/ ready >= least
                \/ /\ wish[r].type = "delivery" /\ wish[r].at # {}
                   /\ seen[r].delivery - PrepOf(seen[r]) < MinTransit
                   /\ ready >= least - MinTransit
  <2>0. /\ seen[r].now \in Int /\ seen[r].delivery \in Nat /\ PrepOf(seen[r]) \in Nat
        /\ MinTransit \in Nat
    BY <1>1, HoursAssumption DEF TypeOK, Seen, Item, PrepOf, Max2
  <2>1. CASE wish[r].at = {}
    BY <2>0, <2>1 DEF Ready
  <2>2. CASE wish[r].at # {}
    <3>1. PICK at \in wish[r].at : at = Service(wish[r], seen[r])
      BY <2>2 DEF Service
    <3>2. at \in Int /\ at >= seen[r].now + Lead(wish[r].type, PrepOf(seen[r]), seen[r].delivery)
      BY <1>1, <3>1 DEF ScheduledInv, Scheduled, InTime, TypeOK, Wish
    <3>3. Ready(wish[r], seen[r]) = at - Transit(wish[r].type, PrepOf(seen[r]), seen[r].delivery)
      BY <2>2, <3>1 DEF Ready, ReadyAt
    <3> QED BY <2>0, <2>2, <3>2, <3>3 DEF Lead, Transit, Max2
  <2> QED BY <2>1, <2>2
<1>2. TypeOK /\ ScheduledInv => KitchenHasItsTime
  BY <1>1 DEF KitchenHasItsTime
<1> QED BY <1>2, InvCorrect, PTL

\* An order is placed in the hours, unless they were edited since it began.
THEOREM InHoursCorrect == Spec => OrdersAreInHours
<1>1. ASSUME TypeOK, ScheduledInv, [Next]_vars, NEW r \in Requests,
             step[r] = "place", step'[r] = "placed", ~edited[r]
      PROVE  /\ IsOpenAt(hours, Service(wish[r], seen[r]))
             /\ IsOpenAt(hours, Ready(wish[r], seen[r]))
  <2>1. IsOpenAt(hours, Service(wish[r], seen[r]))
    BY <1>1 DEF ScheduledInv, Scheduled
  <2>2. ASSUME NEW q \in Requests, Handle(q), q # r PROVE FALSE
    BY <1>1, <2>2 DEF Handle, ReadItem, SaveItem, ReadRestaurant, Price, LoadItem, Schedule, Place,
                      Fail, Enter, Continue, Over, TypeOK
  <2>3. CASE Handle(r)
    <3>1. Place(r)
      BY <1>1, <2>3 DEF Handle, ReadItem, SaveItem, ReadRestaurant, Price, LoadItem, Schedule,
                        Fail, Enter, Over, TypeOK
    <3> QED BY <2>1, <3>1 DEF Place
  <2>4. CASE Tick \/ Edit \/ UNCHANGED vars
    BY <1>1, <2>4 DEF Tick, Edit, UpsertBusinessHours, UpdateRestaurant, vars, jobVars
  <2> QED BY <1>1, <2>2, <2>3, <2>4 DEF Next
<1>2. TypeOK /\ ScheduledInv /\ [Next]_vars =>
        [\A r \in Requests :
           step[r] = "place" /\ step'[r] = "placed" /\ ~edited[r] =>
             /\ IsOpenAt(hours, Service(wish[r], seen[r]))
             /\ IsOpenAt(hours, Ready(wish[r], seen[r]))]_vars
  BY <1>1
<1> QED BY <1>2, InvCorrect, PTL DEF Spec, OrdersAreInHours

-----------------------------------------------------------------------------
(* Quotients and remainders.                                                *)

LEMMA Division ==
  ASSUME NEW a \in Int, NEW b \in Nat \ {0}
  PROVE  /\ a \div b \in Int /\ a % b \in Int
         /\ a = b * (a \div b) + (a % b) /\ 0 <= a % b /\ a % b < b
OBVIOUS

LEMMA Multiples ==
  ASSUME NEW b \in Nat \ {0}, NEW p \in Int, NEW q \in Int, p < q
  PROVE  b * p \in Int /\ b * q \in Int /\ b * p + b <= b * q
<1>1. b * (p + 1) <= b * q
  OBVIOUS
<1>2. b * (p + 1) = b * p + b
  OBVIOUS
<1> QED BY <1>1, <1>2

LEMMA DivisionIsUnique ==
  ASSUME NEW b \in Nat \ {0}, NEW q \in Int, NEW r \in 0 .. b - 1
  PROVE  (q * b + r) \div b = q /\ (q * b + r) % b = r
<1> DEFINE a == q * b + r
<1>1. a \in Int /\ a = b * q + r /\ b * q \in Int
  OBVIOUS
<1>2. /\ a \div b \in Int /\ a % b \in Int
      /\ a = b * (a \div b) + (a % b) /\ 0 <= a % b /\ a % b < b
  BY <1>1, Division
<1>3. ASSUME a \div b < q PROVE FALSE
  <2>1. b * (a \div b) + b <= b * q /\ b * (a \div b) \in Int
    BY <1>2, <1>3, Multiples
  <2> QED BY <1>1, <1>2, <2>1
<1>4. ASSUME q < a \div b PROVE FALSE
  <2>1. b * q + b <= b * (a \div b) /\ b * (a \div b) \in Int
    BY <1>2, <1>4, Multiples
  <2> QED BY <1>1, <1>2, <2>1
<1>5. a \div b = q
  BY <1>2, <1>3, <1>4
<1>6. a % b = r
  BY <1>1, <1>2, <1>5
<1> QED BY <1>5, <1>6

\* The first multiple of the interval that is not before a time.
LEMMA RoundUpIsLeast ==
  ASSUME NEW v \in Int
  PROVE  /\ RoundUp(v) \in Int /\ v <= RoundUp(v)
         /\ \A m \in Int : m % Interval = 0 /\ v <= m => RoundUp(v) <= m
<1> DEFINE q == (v + Interval - 1) \div Interval
<1>i. Interval \in Nat \ {0}
  BY HoursAssumption
<1>1. /\ q \in Int /\ Interval * q \in Int
      /\ Interval * q <= v + Interval - 1 /\ v + Interval - 1 < Interval * q + Interval
  <2>1. v + Interval - 1 \in Int
    BY <1>i
  <2> QED BY <1>i, <2>1, Division
<1>2. RoundUp(v) = Interval * q
  BY <1>i, <1>1 DEF RoundUp
<1> HIDE DEF q
<1>3. ASSUME NEW m \in Int, m % Interval = 0, v <= m PROVE Interval * q <= m
  <2>1. m \div Interval \in Int /\ m = Interval * (m \div Interval)
    BY <1>i, <1>3, Division
  <2>2. ASSUME m \div Interval < q PROVE FALSE
    <3>1. Interval * (m \div Interval) + Interval <= Interval * q
      BY <1>i, <1>1, <2>1, <2>2, Multiples
    <3> QED BY <1>i, <1>1, <1>3, <2>1, <3>1
  <2>3. CASE q = m \div Interval
    BY <2>1, <2>3
  <2>4. CASE q < m \div Interval
    <3>1. Interval * q + Interval <= Interval * (m \div Interval)
      BY <1>i, <1>1, <2>1, <2>4, Multiples
    <3> QED BY <1>i, <1>1, <2>1, <3>1
  <2> QED BY <1>1, <2>1, <2>2, <2>3, <2>4
<1> QED BY <1>i, <1>1, <1>2, <1>3

-----------------------------------------------------------------------------
(* The clocks.                                                              *)

\* No row opens in the hours around which the clocks change, nor before a
\* delivery could leave the kitchen on its day.
ClosedAtTheChange ==
  /\ Before >= 0 /\ After >= 0
  /\ \A o \in Openings : (Change % DayLength) + Max2(Before, After) <= o
NoneLeavesTheDayBefore ==
  \A o \in Openings : \A t \in DeliveryTimes \cup {MinTransit} : t + Max2(0, After - Before) <= o

LEMMA LocalIs ==
  ASSUME NEW i \in Int, NEW date \in Int, NEW m \in 0 .. DayLength - 1,
         i + Offset(i) = date * DayLength + m
  PROVE  LocalDate(i) = date /\ LocalMinute(i) = m
BY HoursAssumption, DivisionIsUnique DEF LocalDate, LocalMinute

\* On the days before the change its instant has not come, from its day on the
\* hours of the shop are after it.
LEMMA SidesOfTheChange ==
  ASSUME ClosedAtTheChange, NEW date \in Int, NEW m \in 0 .. DayLength - 1,
         NEW o \in Openings, o <= m
  PROVE  /\ date * DayLength + m \in Int
         /\ \/ date * DayLength + m < Change
            \/ /\ Change + After <= date * DayLength + o
               /\ Change + Before <= date * DayLength + o
               /\ date * DayLength + o <= date * DayLength + m
<1> DEFINE day == Change \div DayLength
           rest == Change % DayLength
<1>1. /\ DayLength \in Nat \ {0} /\ Change \in Int /\ Before \in Int /\ After \in Int /\ o \in Int
      /\ rest + Before <= o /\ rest + After <= o
  <2>1. /\ DayLength \in Nat \ {0} /\ Change \in Int /\ Before \in Int /\ After \in Int /\ o \in Int
    BY HoursAssumption, StorefrontAssumption
  <2>2. rest \in Int
    BY <2>1, Division
  <2> QED BY <2>1, <2>2 DEF ClosedAtTheChange, Max2
<1>2. /\ day \in Int /\ rest \in Int /\ 0 <= rest /\ Change = DayLength * day + rest
  BY <1>1, Division
<1>3. date * DayLength = DayLength * date /\ DayLength * date \in Int /\ DayLength * day \in Int
  BY <1>1, <1>2
<1> HIDE DEF day, rest
<1>4. CASE date < day
  <2>1. DayLength * date + DayLength <= DayLength * day
    BY <1>1, <1>2, <1>4, Multiples
  <2> QED BY <1>1, <1>2, <1>3, <2>1
<1>5. CASE date = day
  BY <1>1, <1>2, <1>3, <1>5
<1>6. CASE day < date
  <2>1. DayLength * day + DayLength <= DayLength * date
    BY <1>1, <1>2, <1>6, Multiples
  <2>2. rest < DayLength /\ rest + After <= o
    BY <1>1, Division DEF rest
  <2> QED BY <1>1, <1>2, <1>3, <2>1, <2>2
<1> QED BY <1>1, <1>2, <1>4, <1>5, <1>6

\* The instant that is offered for a minute of a day in the hours, and the
\* instants before it that are in the hours as well, are what they seem.
LEMMA LocalTimes ==
  ASSUME ClosedAtTheChange, NEW date \in Int, NEW m \in 0 .. DayLength - 1,
         NEW o \in Openings, NEW t \in Nat, o + t <= m
  PROVE  /\ ZonedLocalToUtc(date, m) \in Int
         /\ LocalDate(ZonedLocalToUtc(date, m)) = date
         /\ LocalMinute(ZonedLocalToUtc(date, m)) = m
         /\ LocalDate(ZonedLocalToUtc(date, m) - t) = date
         /\ LocalMinute(ZonedLocalToUtc(date, m) - t) = m - t
<1> DEFINE guess == date * DayLength + m
           at == ZonedLocalToUtc(date, m)
<1>1. /\ DayLength \in Nat \ {0} /\ Change \in Int /\ Before \in Int /\ After \in Int /\ o \in Nat
      /\ Before >= 0 /\ After >= 0
  BY HoursAssumption, StorefrontAssumption DEF ClosedAtTheChange
<1>2. o <= m /\ m - t \in 0 .. DayLength - 1
  BY <1>1
<1>3. /\ guess \in Int
      /\ \/ guess < Change
         \/ Change + After <= date * DayLength + o /\ date * DayLength + o + t <= guess
  BY <1>1, <1>2, SidesOfTheChange
<1>d. date * DayLength \in Int
  BY <1>1
<1>4. at = guess - Offset(guess)
  BY DEF ZonedLocalToUtc
<1> HIDE DEF guess, at
<1>5. at \in Int /\ Offset(at) = Offset(guess) /\ Offset(at - t) = Offset(guess)
      /\ Offset(guess) \in Int
  <2>1. CASE guess < Change
    BY <1>1, <1>3, <1>4, <2>1 DEF Offset
  <2>2. CASE ~(guess < Change)
    BY <1>1, <1>d, <1>3, <1>4, <2>2 DEF Offset
  <2> QED BY <2>1, <2>2
<1>6. at + Offset(at) = date * DayLength + m
      /\ (at - t) + Offset(at - t) = date * DayLength + (m - t)
  BY <1>4, <1>5, <1>3, <1>d DEF guess
<1>7. at - t \in Int
  BY <1>5
<1>8. LocalDate(at) = date /\ LocalMinute(at) = m
  BY <1>5, <1>6, LocalIs
<1>9. LocalDate(at - t) = date /\ LocalMinute(at - t) = m - t
  BY <1>2, <1>6, <1>7, LocalIs
<1> QED BY <1>5, <1>8, <1>9 DEF at

-----------------------------------------------------------------------------
(* The hours.                                                               *)

LEMMA OpeningsAre ==
  \A o \in Openings : o \in 0 .. DayLength - 1 /\ o \in Nat /\ o \in Int
<1>1. Openings \subseteq 0 .. DayLength - 1 /\ DayLength \in Nat
  BY StorefrontAssumption, HoursAssumption
<1> QED BY <1>1

\* Rows that are open begin and end on the same day, at times the staff enters.
RowsOfStaff(h) ==
  /\ h \in [Weekdays -> HoursRow]
  /\ \A d \in Weekdays : h[d].kind = "open" =>
       h[d].opens \in Openings /\ h[d].closes \in Openings /\ h[d].opens < h[d].closes
HoursInv == RowsOfStaff(hours) /\ delivery \in DeliveryTimes

LEMMA InitHours == Init => HoursInv
BY InitType DEF Init, TypeOK, HoursInv, RowsOfStaff

LEMMA StepHours == TypeOK /\ HoursInv /\ [Next]_vars => HoursInv'
<1> SUFFICES ASSUME TypeOK, HoursInv, [Next]_vars PROVE HoursInv'
  OBVIOUS
<1>t. hours' \in [Weekdays -> HoursRow]
  BY StepType DEF TypeOK
<1>1. CASE UNCHANGED <<hours, delivery>>
  BY <1>1 DEF HoursInv, RowsOfStaff
<1>2. ASSUME NEW d \in Weekdays,
             NEW row \in [kind : {"open"}, opens : Openings, closes : Openings]
                           \cup [kind : {"closed"}, opens : {0}, closes : {0}],
             UpsertBusinessHours(d, row)
      PROVE  HoursInv'
  <2>1. /\ row.kind = "open" =>
             row.opens \in Openings /\ row.closes \in Openings /\ row.opens < row.closes
        /\ hours' = [hours EXCEPT ![d] = row] /\ delivery' = delivery
    BY <1>2 DEF UpsertBusinessHours
  <2>2. ASSUME NEW e \in Weekdays, hours'[e].kind = "open"
        PROVE  /\ hours'[e].opens \in Openings /\ hours'[e].closes \in Openings
               /\ hours'[e].opens < hours'[e].closes
    <3>1. CASE e = d
      BY <2>1, <2>2, <3>1 DEF HoursInv, RowsOfStaff
    <3>2. CASE e # d
      BY <2>1, <2>2, <3>2 DEF HoursInv, RowsOfStaff
    <3> QED BY <3>1, <3>2
  <2> QED BY <1>t, <2>1, <2>2 DEF HoursInv, RowsOfStaff
<1>3. ASSUME NEW t \in DeliveryTimes, UpdateRestaurant(t) PROVE HoursInv'
  BY <1>3 DEF UpdateRestaurant, HoursInv, RowsOfStaff
<1>4. ASSUME NEW r \in Requests, Handle(r) PROVE HoursInv'
  BY <1>1, <1>4 DEF Handle, ReadItem, SaveItem, ReadRestaurant, Price, LoadItem, Schedule, Place,
                    Fail, shopVars
<1>5. CASE Tick \/ UNCHANGED vars
  BY <1>1, <1>5 DEF Tick, vars, shopVars
<1> QED BY <1>2, <1>3, <1>4, <1>5 DEF Next, Edit

LEMMA TransitIs ==
  ASSUME NEW type \in OrderTypes, NEW prep \in Nat, NEW d \in DeliveryTimes
  PROVE  /\ Transit(type, prep, d) \in Nat
         /\ NoneLeavesTheDayBefore =>
              \A o \in Openings : Transit(type, prep, d) + Max2(0, After - Before) <= o
<1>1. d \in Nat /\ MinTransit \in Nat /\ Openings \subseteq Nat /\ After \in Int /\ Before \in Int
  BY HoursAssumption, StorefrontAssumption
<1>2. Transit(type, prep, d) \in Nat
  BY <1>1 DEF Transit, Max2
<1>3. Transit(type, prep, d) <= d \/ Transit(type, prep, d) <= MinTransit
  BY <1>1 DEF Transit, Max2
<1>4. Max2(0, After - Before) \in Int
  BY <1>1 DEF Max2
<1> QED BY <1>1, <1>2, <1>3, <1>4 DEF NoneLeavesTheDayBefore

LEMMA WeekdayOf == ASSUME NEW date \in Int PROVE DayOfWeek(date) \in Weekdays
<1>1. Week \in Nat \ {0}
  BY HoursAssumption
<1>2. date % Week \in Int /\ 0 <= date % Week /\ date % Week < Week
  BY <1>1, Division
<1> QED BY <1>1, <1>2 DEF DayOfWeek, Weekdays

\* The times that are shown for a day are the full intervals in its hours that
\* leave time for the way, and are not too soon.
LEMMA SlotsAre ==
  ASSUME NEW h, RowsOfStaff(h), NEW n, NEW type, NEW prep, NEW d, NEW date \in Int,
         Transit(type, prep, d) \in Nat, NEW s
  PROVE  s \in Slots(h, n, type, prep, d, date) <=>
           \E m \in 0 .. DayLength - 1 :
              /\ h[DayOfWeek(date)].kind = "open" /\ m % Interval = 0
              /\ h[DayOfWeek(date)].opens + Transit(type, prep, d) <= m
              /\ m < h[DayOfWeek(date)].closes
              /\ s = [at |-> ZonedLocalToUtc(date, m), shown |-> m]
              /\ s.at >= n + Lead(type, prep, d)
<1> DEFINE row == h[DayOfWeek(date)]
           way == Transit(type, prep, d)
           from == Starts(row, way)
           bound == Closes(row)
           slot(m) == [at |-> ZonedLocalToUtc(IF m >= DayLength THEN date + 1 ELSE date, m % DayLength),
                       shown |-> m % DayLength]
<1>1. CASE row.kind # "open"
  BY <1>1 DEF Slots
<1>2. CASE row.kind = "open"
  <2>1. /\ row.opens \in Nat /\ row.closes \in 0 .. DayLength - 1 /\ row.opens < row.closes
        /\ DayLength \in Nat \ {0} /\ Interval \in Nat \ {0}
    <3>1. DayOfWeek(date) \in Weekdays
      BY WeekdayOf
    <3>2. row.opens \in Openings /\ row.closes \in Openings /\ row.opens < row.closes
      BY <1>2, <3>1 DEF RowsOfStaff
    <3>3. DayLength \in Nat \ {0} /\ Interval \in Nat \ {0}
      BY HoursAssumption
    <3> HIDE DEF row
    <3> QED BY <3>2, <3>3, OpeningsAre, Zenon
  <2>2. way \in Nat /\ row.opens + way \in Int
    BY <2>1
  <2>3. /\ from \in Int /\ row.opens + way <= from
        /\ \A m \in Int : m % Interval = 0 /\ row.opens + way <= m => from <= m
    BY <2>2, RoundUpIsLeast DEF Starts
  <2>4. bound = row.closes
    BY <2>1 DEF Closes
  <2>5. ASSUME NEW m \in 0 .. DayLength - 1
        PROVE  slot(m) = [at |-> ZonedLocalToUtc(date, m), shown |-> m]
    <3>1. 0 * DayLength + m = m
      BY <2>1
    <3>2. m % DayLength = m
      BY <2>1, <3>1, DivisionIsUnique
    <3>3. ~(m >= DayLength)
      BY <2>1
    <3> QED BY <3>2, <3>3
  <2>6. s \in Slots(h, n, type, prep, d, date) <=>
          /\ \E m \in {m \in from .. bound - 1 : m % Interval = 0} : s = slot(m)
          /\ s.at >= n + Lead(type, prep, d)
    BY <1>2 DEF Slots
  <2> HIDE DEF slot, row, way, from, bound
  <2>7. \A m : m \in {k \in from .. bound - 1 : k % Interval = 0} <=>
                 /\ m \in 0 .. DayLength - 1 /\ m % Interval = 0
                 /\ row.opens + way <= m /\ m < row.closes
    <3>1. ASSUME NEW m \in from .. bound - 1
          PROVE  m \in 0 .. DayLength - 1 /\ row.opens + way <= m /\ m < row.closes
      BY <2>1, <2>2, <2>3, <2>4
    <3>2. ASSUME NEW m \in 0 .. DayLength - 1, m % Interval = 0, row.opens + way <= m,
                 m < row.closes
          PROVE  m \in from .. bound - 1
      <4>1. from <= m
        BY <2>3, <3>2
      <4> QED BY <2>1, <2>3, <2>4, <3>2, <4>1
    <3> QED BY <3>1, <3>2
  <2>8. s \in Slots(h, n, type, prep, d, date) <=>
          \E m \in 0 .. DayLength - 1 :
             /\ m % Interval = 0 /\ row.opens + way <= m /\ m < row.closes
             /\ s = [at |-> ZonedLocalToUtc(date, m), shown |-> m]
             /\ s.at >= n + Lead(type, prep, d)
    BY <2>5, <2>6, <2>7
  <2> QED BY <1>2, <2>8 DEF row, way
<1> QED BY <1>1, <1>2

-----------------------------------------------------------------------------
(* What is shown and what is accepted.                                      *)

\* What the shop and a checkout would see now; the shop counts no less for the
\* way than checkout does.
LEMMA Now ==
  ASSUME TypeOK, HoursInv, NEW type \in OrderTypes, NEW date \in Dates(now)
  PROVE  /\ now \in Int /\ date \in Int /\ item.prep \in Nat
         /\ Max2(1, item.prep) \in Nat /\ ShopPrep \in Nat
         /\ delivery \in DeliveryTimes /\ RowsOfStaff(hours)
         /\ Transit(type, Max2(1, item.prep), delivery) \in Nat
         /\ Transit(type, ShopPrep, delivery) \in Nat
<1>1. now \in Int /\ item.prep \in Nat
  BY DEF TypeOK, Item
<1>2. Max2(1, item.prep) \in Nat /\ ShopPrep \in Nat
  BY <1>1, StorefrontAssumption DEF Max2, ShopPrep
<1>3. date \in Int
  BY DEF Dates
<1>4. delivery \in DeliveryTimes /\ RowsOfStaff(hours)
  BY DEF HoursInv
<1> QED BY <1>1, <1>2, <1>3, <1>4, TransitIs

\* A time that is shown is in the hours of its day, and so is every earlier one
\* that is no further from it than the way.
LEMMA ShownTimes ==
  ASSUME ClosedAtTheChange, TypeOK, HoursInv, NEW type \in OrderTypes, NEW date \in Dates(now),
         NEW s \in Offered(type, date), NEW w \in Nat, w <= Transit(type, ShopPrep, delivery)
  PROVE  /\ LocalMinute(s.at) = s.shown /\ s.at \in Int
         /\ s.at >= now + Lead(type, ShopPrep, delivery)
         /\ IsOpenAt(hours, s.at) /\ IsOpenAt(hours, s.at - w)
<1> DEFINE row == hours[DayOfWeek(date)]
           t == Transit(type, ShopPrep, delivery)
<1>1. /\ date \in Int /\ RowsOfStaff(hours) /\ t \in Nat /\ DayOfWeek(date) \in Weekdays
  BY Now, WeekdayOf
<1>2. PICK m \in 0 .. DayLength - 1 :
         /\ row.kind = "open" /\ row.opens + t <= m /\ m < row.closes
         /\ s = [at |-> ZonedLocalToUtc(date, m), shown |-> m]
         /\ s.at >= now + Lead(type, ShopPrep, delivery)
  BY <1>1, SlotsAre DEF Offered
<1>3. row.opens \in Openings /\ row.closes \in Openings /\ row.opens < row.closes
  BY <1>1, <1>2 DEF RowsOfStaff
<1>4. row.opens \in Int /\ row.closes \in Int /\ m \in Int
  <2>1. row.opens \in Int /\ row.closes \in Int
    BY <1>3, OpeningsAre, Zenon
  <2> QED BY <2>1
<1>5. w <= t
  OBVIOUS
<1> HIDE DEF t
<1>6. row.opens + w <= m
  BY <1>1, <1>2, <1>4, <1>5
<1>7. /\ s.at \in Int /\ LocalDate(s.at) = date /\ LocalMinute(s.at) = m /\ s.shown = m
      /\ LocalDate(s.at - w) = date /\ LocalMinute(s.at - w) = m - w
  BY <1>1, <1>2, <1>3, <1>6, LocalTimes
<1>8. MatchesHours(row, m, FALSE) /\ MatchesHours(row, m - w, FALSE)
  BY <1>2, <1>3, <1>4, <1>6 DEF MatchesHours
<1>9. IsOpenAt(hours, s.at) /\ IsOpenAt(hours, s.at - w)
  BY <1>7, <1>8 DEF IsOpenAt
<1> QED BY <1>2, <1>7, <1>9

\* The clocks of the restaurant show the time that was offered, if its hours
\* leave out the time around which the clocks are changed.
THEOREM ShownCorrect == ASSUME ClosedAtTheChange PROVE Spec => []ShownIsMeant
<1>1. ASSUME TypeOK, HoursInv PROVE ShownIsMeant
  <2> SUFFICES ASSUME NEW type \in OrderTypes, NEW date \in Dates(now),
                      NEW s \in Offered(type, date)
               PROVE  LocalMinute(s.at) = s.shown
    BY DEF ShownIsMeant
  <2>1. Transit(type, ShopPrep, delivery) \in Nat
    BY <1>1, Now
  <2> QED BY <1>1, <2>1, ShownTimes
<1> QED BY <1>1, InitType, StepType, InitHours, StepHours, PTL DEF Spec

\* With such hours checkout takes an order for whatever time is shown, not due
\* within the minute and in reach, and the kitchen is to be ready in the hours.
THEOREM SlotsCorrect == ASSUME ClosedAtTheChange PROVE Spec => []SlotsAreAccepted
<1>1. ASSUME TypeOK, HoursInv PROVE SlotsAreAccepted
  <2> SUFFICES ASSUME item.active, ~item.archived,
                      NEW type \in OrderTypes, NEW date \in Dates(now),
                      NEW s \in Offered(type, date), now + 1 <= s.at,
                      s.at <= now + Horizon * DayLength
               PROVE  Accepts(type, s.at)
    BY DEF SlotsAreAccepted
  <2> DEFINE w == Transit(type, Max2(1, item.prep), delivery)
  <2>1. /\ w \in Nat /\ ShopPrep = item.prep /\ item.prep \in Nat /\ now \in Int
        /\ delivery \in Nat \ {0} /\ MinTransit \in Nat
    BY <1>1, Now, StorefrontAssumption, HoursAssumption DEF ShopPrep
  <2>2. w <= Transit(type, ShopPrep, delivery)
    BY <2>1 DEF Transit, Max2
  <2> HIDE DEF w
  <2>3. /\ s.at \in Int /\ s.at >= now + Lead(type, ShopPrep, delivery)
        /\ IsOpenAt(hours, s.at) /\ IsOpenAt(hours, s.at - w)
    BY <1>1, <2>1, <2>2, ShownTimes
  <2>4. s.at >= now + Lead(type, Max2(1, item.prep), delivery)
    BY <2>1, <2>3 DEF Lead, Max2
  <2> QED BY <2>3, <2>4 DEF Accepts, Acceptable, InTime, ReadyAt, w
<1> QED BY <1>1, InitType, StepType, InitHours, StepHours, PTL DEF Spec

\* Rows that end on the day they begin are asked for that day only.
LEMMA OpenOnTheDay ==
  ASSUME RowsOfStaff(hours), NEW w \in Weekdays, hours[w].kind # "missing", NEW i,
         LocalDate(i) \in Int, LocalMinute(i) \in Int, IsOpenAt(hours, i)
  PROVE  LET row == hours[DayOfWeek(LocalDate(i))]
         IN  /\ row.kind = "open" /\ row.opens \in Openings /\ row.closes \in Openings
             /\ row.opens <= LocalMinute(i) /\ LocalMinute(i) < row.closes
<1> DEFINE day == DayOfWeek(LocalDate(i))
<1>1. day \in Weekdays /\ (day + Week - 1) % Week \in Weekdays
  <2>1. day \in Weekdays /\ Week \in Nat \ {0}
    BY WeekdayOf, HoursAssumption
  <2>2. day + Week - 1 \in Int
    BY <2>1 DEF Weekdays
  <2>3. DayOfWeek(day + Week - 1) \in Weekdays
    BY <2>2, WeekdayOf
  <2> QED BY <2>1, <2>3 DEF DayOfWeek
<1>2. ASSUME NEW d \in Weekdays
      PROVE  ~MatchesHours(hours[d], LocalMinute(i), TRUE)
  <2>1. CASE hours[d].kind = "open"
    <3>1. hours[d].opens \in Int /\ hours[d].closes \in Int /\ hours[d].opens < hours[d].closes
      BY <1>2, <2>1, OpeningsAre, Zenon DEF RowsOfStaff
    <3> QED BY <3>1 DEF MatchesHours
  <2>2. CASE hours[d].kind # "open"
    BY <2>2 DEF MatchesHours
  <2> QED BY <2>1, <2>2
<1>3. MatchesHours(hours[day], LocalMinute(i), FALSE)
  BY <1>1, <1>2 DEF IsOpenAt
<1>4. hours[day].kind = "open"
  BY <1>3 DEF MatchesHours
<1>5. /\ hours[day].opens \in Openings /\ hours[day].closes \in Openings
      /\ hours[day].opens < hours[day].closes
  BY <1>1, <1>4 DEF RowsOfStaff
<1>6. hours[day].opens \in Int /\ hours[day].closes \in Int
  BY <1>5, OpeningsAre, Zenon
<1> QED BY <1>3, <1>4, <1>5, <1>6 DEF MatchesHours

\* A time checkout would accept leaves the kitchen the way, within the hours of
\* the same day.
LEMMA AcceptedTimes ==
  ASSUME ClosedAtTheChange, NoneLeavesTheDayBefore, TypeOK, HoursInv,
         NEW w \in Weekdays, hours[w].kind # "missing",
         NEW type \in OrderTypes, NEW date \in Dates(now), NEW m \in 0 .. DayLength - 1,
         LocalDate(ZonedLocalToUtc(date, m)) = date, LocalMinute(ZonedLocalToUtc(date, m)) = m,
         Accepts(type, ZonedLocalToUtc(date, m))
  PROVE  LET row == hours[DayOfWeek(date)]
         IN  /\ row.kind = "open" /\ m < row.closes
             /\ row.opens + Transit(type, Max2(1, item.prep), delivery) <= m
<1> DEFINE row == hours[DayOfWeek(date)]
           t == Transit(type, Max2(1, item.prep), delivery)
           at == ZonedLocalToUtc(date, m)
           shift == Max2(0, After - Before)
<1>1. /\ date \in Int /\ RowsOfStaff(hours) /\ t \in Nat
      /\ \A o \in Openings : t + shift <= o
  BY Now, TransitIs
<1>2. IsOpenAt(hours, at) /\ IsOpenAt(hours, at - t)
  BY DEF Accepts, Acceptable, ReadyAt
<1>3. /\ row.kind = "open" /\ row.opens \in Openings /\ row.opens <= m /\ m < row.closes
      /\ row.closes \in Openings
  <2>1. LocalDate(at) = date /\ LocalMinute(at) = m /\ m \in Int
    OBVIOUS
  <2> HIDE DEF at, t
  <2> QED BY <1>1, <1>2, <2>1, OpenOnTheDay
<1>4. /\ DayLength \in Nat \ {0} /\ Change \in Int /\ Before \in Int /\ After \in Int
      /\ row.opens \in Nat /\ shift \in Nat /\ After - Before <= shift /\ date * DayLength \in Int
  <2>1. DayLength \in Nat \ {0} /\ Change \in Int /\ Before \in Int /\ After \in Int
    BY HoursAssumption
  <2>2. row.opens \in Nat
    BY <1>3, OpeningsAre, Zenon
  <2> QED BY <1>1, <2>1, <2>2 DEF Max2
<1>5. /\ date * DayLength + m \in Int /\ Before >= 0 /\ After >= 0
      /\ \/ date * DayLength + m < Change
         \/ /\ Change + After <= date * DayLength + row.opens
            /\ Change + Before <= date * DayLength + row.opens
            /\ date * DayLength + row.opens <= date * DayLength + m
  BY <1>1, <1>3, SidesOfTheChange DEF ClosedAtTheChange
<1>6. at = (date * DayLength + m) - Offset(date * DayLength + m)
  BY DEF ZonedLocalToUtc
<1>7. t + shift <= row.opens
  BY <1>1, <1>3
<1>8. ASSUME NEW k \in 0 .. DayLength - 1, (at - t) + Offset(at - t) = date * DayLength + k
      PROVE  row.opens <= k
  <2>1. at - t \in Int
    BY <1>1, <1>4, <1>5, <1>6 DEF Offset
  <2>2. LocalDate(at - t) = date /\ LocalMinute(at - t) = k
    BY <1>1, <1>8, <2>1, LocalIs
  <2> HIDE DEF at, t
  <2>3. k \in Int
    OBVIOUS
  <2> QED BY <1>1, <1>2, <2>2, <2>3, OpenOnTheDay
<1> HIDE DEF at, t, shift, row
<1>9. row.opens + t <= m
  <2>1. CASE Offset(at - t) = Offset(date * DayLength + m)
    <3>1. m - t \in 0 .. DayLength - 1
      BY <1>1, <1>3, <1>4, <1>7
    <3>2. (at - t) + Offset(at - t) = date * DayLength + (m - t)
      BY <1>1, <1>4, <1>5, <1>6, <2>1 DEF Offset
    <3>3. row.opens <= m - t
      BY <1>8, <3>1, <3>2
    <3> QED BY <1>1, <1>3, <1>4, <3>3
  <2>2. CASE Offset(at - t) # Offset(date * DayLength + m)
    <3> DEFINE k == m - t - (After - Before)
    <3>1. /\ date * DayLength + m >= Change /\ at - t < Change
          /\ at = date * DayLength + m - After
      BY <1>1, <1>4, <1>5, <1>6, <2>2 DEF Offset
    <3>2. Change + Before <= date * DayLength + row.opens
      BY <1>4, <1>5, <3>1
    <3>3. (at - t) + Offset(at - t) = date * DayLength + k
      BY <1>1, <1>4, <1>5, <3>1 DEF Offset
    <3>4. k < row.opens /\ k \in Int
      BY <1>1, <1>4, <3>1, <3>2
    <3>5. 0 <= k
      BY <1>1, <1>3, <1>4, <1>7
    <3>6. row.opens \in 0 .. DayLength - 1
      BY <1>3, OpeningsAre, Zenon
    <3>7. k \in 0 .. DayLength - 1
      BY <1>4, <3>4, <3>5, <3>6
    <3> HIDE DEF k
    <3>8. row.opens <= k
      BY <1>8, <3>3, <3>7
    <3> QED BY <1>4, <3>4, <3>8
  <2> QED BY <2>1, <2>2
<1> QED BY <1>3, <1>9 DEF row, t

\* Whatever full interval of a day checkout would take an order for is shown, a
\* delivery if there is something to prepare, provided moreover that no delivery
\* could leave the kitchen on the day before.
THEOREM AcceptedCorrect ==
  ASSUME ClosedAtTheChange, NoneLeavesTheDayBefore PROVE Spec => []AcceptedAreShown
<1>1. ASSUME TypeOK, HoursInv PROVE AcceptedAreShown
  <2> SUFFICES ASSUME NEW w \in Weekdays, hours[w].kind # "missing",
                      NEW type \in OrderTypes, NEW date \in Dates(now),
                      NEW m \in 0 .. DayLength - 1, m % Interval = 0,
                      LocalDate(ZonedLocalToUtc(date, m)) = date,
                      LocalMinute(ZonedLocalToUtc(date, m)) = m,
                      type = "delivery" => item.prep >= 1,
                      Accepts(type, ZonedLocalToUtc(date, m))
               PROVE  \E s \in Offered(type, date) : s.at = ZonedLocalToUtc(date, m)
    BY DEF AcceptedAreShown
  <2> DEFINE s == [at |-> ZonedLocalToUtc(date, m), shown |-> m]
             t == Transit(type, Max2(1, item.prep), delivery)
  <2>1. /\ hours[DayOfWeek(date)].kind = "open" /\ m < hours[DayOfWeek(date)].closes
        /\ hours[DayOfWeek(date)].opens + t <= m
    BY <1>1, AcceptedTimes
  <2>2. /\ date \in Int /\ RowsOfStaff(hours) /\ item.prep \in Nat /\ now \in Int
        /\ Transit(type, ShopPrep, delivery) \in Nat /\ delivery \in Nat
    BY <1>1, Now, StorefrontAssumption
  <2>3. ShopPrep = item.prep /\ s.at = ZonedLocalToUtc(date, m)
    BY DEF Accepts, ShopPrep
  <2>4. t = Transit(type, ShopPrep, delivery)
    BY <2>2, <2>3 DEF Transit, Max2
  <2>5. s.at >= now + Lead(type, ShopPrep, delivery)
    <3>1. s.at >= now + Lead(type, Max2(1, item.prep), delivery)
      BY <2>3 DEF Accepts, Acceptable, InTime
    <3>2. s.at \in Int
      BY <2>2, HoursAssumption DEF ZonedLocalToUtc, Offset
    <3> HIDE DEF s
    <3> QED BY <2>2, <2>3, <3>1, <3>2 DEF Lead, Max2
  <2> HIDE DEF t
  <2>6. s \in Offered(type, date)
    BY <2>1, <2>2, <2>4, <2>5, SlotsAre DEF Offered
  <2> QED BY <2>3, <2>6
<1> QED BY <1>1, InitType, StepType, InitHours, StepHours, PTL DEF Spec
=============================================================================
