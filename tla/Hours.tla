------------------------------- MODULE Hours -------------------------------
(***************************************************************************)
(* The opening hours of the restaurant: RestaurantsService offers times to *)
(* order for and checks the times orders ask for, CheckoutService when the *)
(* kitchen has to be ready.                                                *)
(*                                                                         *)
(* An instant is a number of minutes of UTC.  The clocks of the restaurant *)
(* are Before minutes ahead of it until the instant Change, After minutes  *)
(* from then on.  Days are numbered; weekdays follow from their number.    *)
(***************************************************************************)
EXTENDS Integers

CONSTANTS DayLength,     \* 24 * 60 minutes in the code
          Interval,      \* between two times that are offered, 15 minutes
          Week,          \* 7 days
          Horizon,       \* orders may be scheduled for 14 days
          MinTransit,    \* a delivery takes 5 minutes at least
          Change, Before, After  \* external: the clocks

ASSUME HoursAssumption ==
  /\ DayLength \in Nat \ {0} /\ Interval \in Nat \ {0} /\ Week \in Nat \ {0}
  /\ DayLength % Interval = 0
  /\ Horizon \in Nat /\ MinTransit \in Nat
  /\ Change \in Int /\ Before \in Int /\ After \in Int

Weekdays == 0 .. Week - 1
OrderTypes == {"delivery", "pickup"}

\* A row of business_hours; "missing" stands for no row of that weekday.
HoursRow == [kind : {"missing", "closed", "open"}, opens : Nat, closes : Nat]

Max2(a, b) == IF a >= b THEN a ELSE b
-----------------------------------------------------------------------------
Offset(i) == IF i < Change THEN Before ELSE After
LocalDate(i) == (i + Offset(i)) \div DayLength
LocalMinute(i) == (i + Offset(i)) % DayLength
DayOfWeek(date) == date % Week

\* A fault: the clocks are asked at the time it would be in UTC, and added.
ZonedLocalToUtcTwice(date, minute) ==
  LET guess == date * DayLength + minute IN guess - 2 * Offset(guess)
\* The offset is the one of the instant that has these digits in UTC.
ZonedLocalToUtc(date, minute) ==
  LET guess == date * DayLength + minute IN guess - Offset(guess)

RoundUp(v) == ((v + Interval - 1) \div Interval) * Interval
-----------------------------------------------------------------------------
\* Hours that close before they open go on in the next morning.
MatchesHours(row, minute, previousDay) ==
  /\ row.kind = "open"
  /\ IF row.closes > row.opens
     THEN ~previousDay /\ row.opens <= minute /\ minute < row.closes
     ELSE IF previousDay THEN minute < row.closes ELSE row.opens <= minute

\* Without any row the restaurant counts as open.
IsOpenAt(hours, i) ==
  LET day == DayOfWeek(LocalDate(i))
  IN \/ \A d \in Weekdays : hours[d].kind = "missing"
     \/ MatchesHours(hours[day], LocalMinute(i), FALSE)
     \/ MatchesHours(hours[(day + Week - 1) % Week], LocalMinute(i), TRUE)

\* How far ahead an order must be, and how long before a delivery the kitchen
\* must be ready.
Lead(type, prep, delivery) == IF type = "delivery" THEN Max2(prep, delivery) ELSE prep
Transit(type, prep, delivery) ==
  IF type = "delivery" THEN Max2(MinTransit, delivery - prep) ELSE 0

\* A fault: the time from the kitchen to the door is not counted.
StartsAtOpening(row, transit) == RoundUp(row.opens)
\* A fault: the first time is always an interval later.
StartsLate(row, transit) == RoundUp(row.opens + transit + 1)
Starts(row, transit) == RoundUp(row.opens + transit)
Closes(row) == row.closes + (IF row.closes <= row.opens THEN DayLength ELSE 0)

\* The times getPublicAvailability shows for a day, and what they stand for.
Slots(hours, now, type, prep, delivery, date) ==
  LET row == hours[DayOfWeek(date)]
      shown == IF row.kind # "open" THEN {}
               ELSE {m \in Starts(row, Transit(type, prep, delivery)) .. Closes(row) - 1 :
                       m % Interval = 0}
      slots == {[at |-> ZonedLocalToUtc(IF m >= DayLength THEN date + 1 ELSE date, m % DayLength),
                 shown |-> m % DayLength] : m \in shown}
  IN {s \in slots : s.at >= now + Lead(type, prep, delivery)}

\* The days that may be asked for.
Dates(now) == LocalDate(now) .. LocalDate(now) + Horizon

\* What checkout asks of a scheduled order before it looks at the hours.
InTime(now, type, prep, delivery, at) ==
  /\ at <= now + Horizon * DayLength
  /\ at >= now + Lead(type, prep, delivery)
\* When the kitchen has to be ready for it.
ReadyAt(type, prep, delivery, at) == at - Transit(type, prep, delivery)

\* Both times checkout passes to assertOpenAt.
Acceptable(hours, now, type, prep, delivery, at) ==
  /\ InTime(now, type, prep, delivery, at)
  /\ IsOpenAt(hours, at)
  /\ IsOpenAt(hours, ReadyAt(type, prep, delivery, at))
=============================================================================
