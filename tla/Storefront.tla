----------------------------- MODULE Storefront -----------------------------
(***************************************************************************)
(* What the customers of a restaurant may order and for when, while its    *)
(* staff edits hours, delivery time and menu: RestaurantsService,          *)
(* MenuService and the scheduling of CheckoutService.                      *)
(*                                                                         *)
(* A checkout reads the restaurant, the item, and the hours twice, each by *)
(* a statement of its own.  MenuService reads an item and saves it later:  *)
(* every column that differs, also one somebody else has written.  The     *)
(* cart has one item, the slowest; amounts and addresses are left out.     *)
(***************************************************************************)
EXTENDS Hours

CONSTANTS Requests,       \* requests the API handles at a time
          Openings,       \* opening and closing times the staff enters
          PrepTimes, DeliveryTimes, \* minutes the staff enters
          DefaultPrep,    \* what the shop assumes of no item, 15 minutes
          FirstNow, LastNow,        \* bound: instants that are followed
          OrderTimes      \* bound: instants orders are scheduled for

ASSUME StorefrontAssumption ==
  /\ Openings \subseteq 0 .. DayLength - 1
  /\ PrepTimes \subseteq Nat /\ DeliveryTimes \subseteq Nat \ {0} /\ DefaultPrep \in Nat
  /\ FirstNow \in Int /\ LastNow \in Int /\ OrderTimes \subseteq Int

VARIABLES
  hours,     \* business_hours
  delivery,  \* default_delivery_minutes of the restaurant
  item,      \* the row of the menu item
  now,       \* the clock
  step,      \* what each request does next
  wish,      \* the order it asks for; at is {} for as soon as possible
  seen,      \* what it has read: the item, the delivery time, the clock
  edited     \* history: the hours have been edited since it began

shopVars == <<hours, delivery, item>>
jobVars == <<step, wish, seen, edited>>
vars == <<shopVars, now, jobVars>>

Item == [active : BOOLEAN, archived : BOOLEAN, prep : Nat]
Wish == [type : OrderTypes, at : SUBSET Int]
Seen == [item : Item, delivery : Nat, now : Int]
NoItem == [active |-> FALSE, archived |-> FALSE, prep |-> 0]
NoWish == [type |-> "pickup", at |-> {}]
Nothing == [item |-> NoItem, delivery |-> 0, now |-> 0]

TypeOK ==
  /\ hours \in [Weekdays -> HoursRow]
  /\ delivery \in Nat /\ item \in Item /\ now \in Int
  /\ step \in [Requests -> {"idle", "price", "load", "schedule", "place", "placed", "save_item"}]
  /\ wish \in [Requests -> Wish]
  /\ seen \in [Requests -> Seen]
  /\ edited \in [Requests -> BOOLEAN]

\* The hours are not configured yet.
Init ==
  /\ hours = [d \in Weekdays |-> [kind |-> "missing", opens |-> 0, closes |-> 0]]
  /\ delivery \in DeliveryTimes
  /\ item \in [active : {TRUE}, archived : {FALSE}, prep : PrepTimes]
  /\ now = FirstNow
  /\ step = [r \in Requests |-> "idle"]
  /\ wish = [r \in Requests |-> NoWish]
  /\ seen = [r \in Requests |-> Nothing]
  /\ edited = [r \in Requests |-> FALSE]
-----------------------------------------------------------------------------
Tick == now < LastNow /\ now' = now + 1 /\ UNCHANGED <<shopVars, jobVars>>

Enter(r, s, w, k) ==
  /\ step[r] = "idle"
  /\ step' = [step EXCEPT ![r] = s]
  /\ wish' = [wish EXCEPT ![r] = w]
  /\ seen' = [seen EXCEPT ![r] = k]
  /\ edited' = [edited EXCEPT ![r] = FALSE]
Continue(r, s, k) ==
  /\ step' = [step EXCEPT ![r] = s]
  /\ seen' = [seen EXCEPT ![r] = k]
  /\ UNCHANGED <<wish, edited>>
Over(r) ==
  /\ step' = [step EXCEPT ![r] = "idle"]
  /\ wish' = [wish EXCEPT ![r] = NoWish]
  /\ seen' = [seen EXCEPT ![r] = Nothing]
  /\ edited' = [edited EXCEPT ![r] = FALSE]
Fail(r) == step[r] # "idle" /\ Over(r) /\ UNCHANGED <<shopVars, now>>
-----------------------------------------------------------------------------
(* The staff. *)

\* upsertBusinessHours; a row is never deleted.
UpsertBusinessHours(d, row) ==
  /\ row.kind = "open" => row.opens < row.closes
  /\ hours' = [hours EXCEPT ![d] = row]
  /\ edited' = [r \in Requests |-> step[r] # "idle"]
  /\ UNCHANGED <<delivery, item, now, step, wish, seen>>

UpdateRestaurant(t) ==
  /\ delivery' = t
  /\ UNCHANGED <<hours, item, now, jobVars>>

\* update and archive of MenuService read the item and save it.
ReadItem(r) ==
  /\ Enter(r, "save_item", NoWish, [Nothing EXCEPT !.item = item])
  /\ UNCHANGED <<shopVars, now>>
SaveItem(r, prep, active) ==
  /\ step[r] = "save_item"
  /\ \/ item' = [seen[r].item EXCEPT !.prep = prep, !.active = active]
     \/ item' = [seen[r].item EXCEPT !.active = FALSE, !.archived = TRUE]
  /\ Over(r)
  /\ UNCHANGED <<hours, delivery, now>>
-----------------------------------------------------------------------------
(* A checkout. *)

ReadRestaurant(r, w) ==
  /\ Enter(r, "price", w, [Nothing EXCEPT !.delivery = delivery])
  /\ UNCHANGED <<shopVars, now>>

\* PricingService.calculate
Price(r) ==
  /\ step[r] = "price" /\ item.active /\ ~item.archived
  /\ Continue(r, "load", seen[r])
  /\ UNCHANGED <<shopVars, now>>

\* The menu items are loaded again for their preparation times.
LoadItem(r) ==
  /\ step[r] = "load"
  /\ Continue(r, "schedule", [seen[r] EXCEPT !.item.prep = item.prep])
  /\ UNCHANGED <<shopVars, now>>

PrepOf(k) == Max2(1, k.item.prep)
\* The time the order is for, and when the kitchen is to be ready.
Service(w, k) == IF w.at = {} THEN k.now ELSE CHOOSE at \in w.at : TRUE
Ready(w, k) == IF w.at = {} THEN k.now + PrepOf(k)
               ELSE ReadyAt(w.type, PrepOf(k), k.delivery, Service(w, k))

\* A fault: an order must only leave the time of the delivery.
ScheduleForDelivery(r) ==
  LET k == [seen[r] EXCEPT !.now = now]
  IN /\ step[r] = "schedule"
     /\ \A at \in wish[r].at : InTime(now, wish[r].type, 0, k.delivery, at)
     /\ IsOpenAt(hours, Service(wish[r], k))
     /\ Continue(r, "place", k)
     /\ UNCHANGED <<shopVars, now>>

Schedule(r) ==
  LET k == [seen[r] EXCEPT !.now = now]
  IN /\ step[r] = "schedule"
     /\ \A at \in wish[r].at : InTime(now, wish[r].type, PrepOf(k), k.delivery, at)
     /\ IsOpenAt(hours, Service(wish[r], k))
     /\ Continue(r, "place", k)
     /\ UNCHANGED <<shopVars, now>>

\* A fault: only the time the order is for is looked at.
PlaceUnready(r) ==
  /\ step[r] = "place"
  /\ Continue(r, "placed", seen[r])
  /\ UNCHANGED <<shopVars, now>>

\* The order is inserted; the request is over when the answer has been sent.
Place(r) ==
  /\ step[r] = "place"
  /\ IsOpenAt(hours, Ready(wish[r], seen[r]))
  /\ Continue(r, "placed", seen[r])
  /\ UNCHANGED <<shopVars, now>>
-----------------------------------------------------------------------------
Edit ==
  \/ \E d \in Weekdays : \E row \in [kind : {"open"}, opens : Openings, closes : Openings]
                               \cup [kind : {"closed"}, opens : {0}, closes : {0}] :
       UpsertBusinessHours(d, row)
  \/ \E t \in DeliveryTimes : UpdateRestaurant(t)

Wishes == [type : OrderTypes, at : {{}} \cup {{at} : at \in OrderTimes}]

Handle(r) ==
  \/ ReadItem(r)
  \/ \E prep \in PrepTimes, active \in BOOLEAN : SaveItem(r, prep, active)
  \/ \E w \in Wishes : ReadRestaurant(r, w)
  \/ Price(r) \/ LoadItem(r) \/ Schedule(r) \/ Place(r) \/ Fail(r)

Next == Tick \/ Edit \/ \E r \in Requests : Handle(r)

Spec == Init /\ [][Next]_vars
-----------------------------------------------------------------------------
\* The shop looks for the item among the active ones and takes its preparation
\* time as it is, checkout takes a minute at least.
ShopPrep == IF item.active THEN item.prep ELSE DefaultPrep
Offered(type, date) == Slots(hours, now, type, ShopPrep, delivery, date)
Accepts(type, at) ==
  /\ item.active /\ ~item.archived
  /\ Acceptable(hours, now, type, Max2(1, item.prep), delivery, at)

\* Whatever time the shop shows for an item that may be ordered, checkout would
\* take an order for it at that moment, unless it is due within the minute or
\* later on the last day than the horizon reaches.
SlotsAreAccepted ==
  item.active /\ ~item.archived =>
    \A type \in OrderTypes : \A date \in Dates(now) : \A s \in Offered(type, date) :
      now + 1 <= s.at /\ s.at <= now + Horizon * DayLength => Accepts(type, s.at)

\* Whatever full interval of a day checkout would take an order for is shown,
\* except for the delivery of an item that takes no time to prepare: the way the
\* shop leaves for it is a minute longer.
AcceptedAreShown ==
  (\E d \in Weekdays : hours[d].kind # "missing") =>
    \A type \in OrderTypes : \A date \in Dates(now) : \A m \in 0 .. DayLength - 1 :
      LET at == ZonedLocalToUtc(date, m)
      IN /\ m % Interval = 0 /\ LocalDate(at) = date /\ LocalMinute(at) = m
         /\ type = "delivery" => item.prep >= 1
         /\ Accepts(type, at)
         => \E s \in Offered(type, date) : s.at = at

\* The clocks of the restaurant show the time that was offered when the order
\* is due, also on the day they are changed.
ShownIsMeant ==
  \A type \in OrderTypes : \A date \in Dates(now) : \A s \in Offered(type, date) :
    LocalMinute(s.at) = s.shown

\* A placed order leaves the kitchen its time; only a scheduled delivery that
\* takes less than the shortest way after that may cut it, by that way.
KitchenHasItsTime ==
  \A r \in Requests : step[r] = "placed" =>
    LET ready == Ready(wish[r], seen[r])
        least == seen[r].now + PrepOf(seen[r])
    IN \/ ready >= least
       \/ /\ wish[r].type = "delivery" /\ wish[r].at # {}
          /\ seen[r].delivery - PrepOf(seen[r]) < MinTransit
          /\ ready >= least - MinTransit

\* An order is placed for a time, and to be ready at a time, when the restaurant
\* is open, unless its staff has edited the hours since the customer pressed the
\* button.
OrdersAreInHours ==
  [][\A r \in Requests :
       step[r] = "place" /\ step'[r] = "placed" /\ ~edited[r] =>
         /\ IsOpenAt(hours, Service(wish[r], seen[r]))
         /\ IsOpenAt(hours, Ready(wish[r], seen[r]))]_vars
=============================================================================
