----------------------------- MODULE Deliveries -----------------------------
(***************************************************************************)
(* DeliveriesService: one delivery assignment and one tracking row per     *)
(* order, and the drivers.                                                 *)
(*                                                                         *)
(* assign holds the order lock and transition holds the assignment,        *)
(* tracking and order locks when they write, so each is one step.          *)
(* deactivateDriver counts the driver's active assignments without a lock  *)
(* and disables the driver afterwards, and updateLocation reads the        *)
(* tracking row without a lock and saves it afterwards: two steps each.    *)
(* updateDriver writes is_active directly.                                 *)
(***************************************************************************)
EXTENDS Orders

CONSTANTS Drivers,     \* user ids of the drivers the restaurant may have
          NoDriver     \* the assignee of an order that was never assigned

ASSUME DriversAssumption == NoDriver \notin Drivers

VARIABLES
  assignee,        \* delivery_assignments.driver_user_id
  assignment,      \* delivery_assignments.status, "none" without a row
  tracking,        \* delivery_tracking.status, "none" without a row
  hired,           \* drivers with a user and a staff row
  activeDrivers,   \* drivers whose staff row and user are active
  idleChecked,     \* drivers deactivateDriver has found without assignments
  pinging          \* the tracking status an unfinished updateLocation has read

deliveryVars ==
  <<assignee, assignment, tracking, hired, activeDrivers, idleChecked, pinging>>

AssignmentStatuses ==
  {"assigned", "accepted", "picked_up", "en_route", "arriving", "delivered",
   "failed", "cancelled"}

ActiveAssignment == {"assigned", "accepted", "picked_up", "en_route", "arriving"}

\* The statuses the CHECK constraint of delivery_tracking admits.
TrackingStatuses ==
  {"assigned", "preparing", "cooking", "packing", "driver_assigned",
   "en_route", "arriving", "delivered", "failed"}

\* The pairs <<current, next>> of the DELIVERY_TRANSITIONS table.
DELIVERY_TRANSITIONS ==
  {<<"assigned", "accepted">>, <<"assigned", "cancelled">>,
   <<"accepted", "picked_up">>, <<"accepted", "failed">>,
   <<"accepted", "cancelled">>, <<"picked_up", "en_route">>,
   <<"en_route", "arriving">>, <<"en_route", "delivered">>,
   <<"en_route", "failed">>, <<"arriving", "delivered">>,
   <<"arriving", "failed">>}

DeliveriesTypeOK ==
  /\ assignee \in [Orders -> Drivers \cup {NoDriver}]
  /\ assignment \in [Orders -> AssignmentStatuses \cup {"none"}]
  /\ tracking \in [Orders -> TrackingStatuses \cup {"none"}]
  /\ hired \in SUBSET Drivers
  /\ activeDrivers \in SUBSET hired
  /\ idleChecked \in SUBSET hired
  /\ pinging \in [Orders -> TrackingStatuses \cup {"none"}]

DeliveriesInit ==
  /\ assignee = [o \in Orders |-> NoDriver]
  /\ assignment = [o \in Orders |-> "none"]
  /\ tracking = [o \in Orders |-> "none"]
  /\ hired = {}
  /\ activeDrivers = {}
  /\ idleChecked = {}
  /\ pinging = [o \in Orders |-> "none"]

-----------------------------------------------------------------------------
\* POST /deliveries/orders/:orderId/assign, also used to reassign.
Assign(o, d) ==
  /\ status[o] \in {"ready", "driver_assigned"}
  /\ d \in activeDrivers
  /\ assignee' = [assignee EXCEPT ![o] = d]
  /\ assignment' = [assignment EXCEPT ![o] = "assigned"]
  /\ tracking' = [tracking EXCEPT ![o] = "driver_assigned"]
  /\ IF status[o] = "ready"
     THEN Move(o, "driver_assigned", "order.status_changed")
     ELSE Stay
  /\ UNCHANGED <<payStatus, cancelling, hired, activeDrivers, idleChecked, pinging>>

\* The tracking status transition derives from the assignment status.
TrackingFor(next) ==
  CASE next = "picked_up" -> "en_route"
    [] next = "accepted"  -> "driver_assigned"
    [] OTHER              -> next

\* A fault: the order moves whatever its status is.
OrderAfterUnguarded(o, next) ==
  CASE next \in {"picked_up", "en_route"} -> "out_for_delivery"
    [] next = "delivered"                 -> "delivered"
    [] OTHER                              -> status[o]

\* A fault: picking up leaves the order with the restaurant.
OrderAfterOnlyEnRoute(o, next) ==
  CASE next = "en_route" /\ status[o] = "driver_assigned"      -> "out_for_delivery"
    [] next = "delivered" /\ status[o] = "out_for_delivery" -> "delivered"
    [] OTHER -> status[o]

\* The order status a delivery step implies, if it moves the order at all.
OrderAfter(o, next) ==
  CASE next \in {"picked_up", "en_route"} /\ status[o] = "driver_assigned"
         -> "out_for_delivery"
    [] next = "delivered" /\ status[o] = "out_for_delivery" -> "delivered"
    [] OTHER -> status[o]

\* A fault: an order paid on delivery is handed over unpaid.
TransitionAcceptedUnpaid(o, next) ==
  <<assignment[o], next>> \in DELIVERY_TRANSITIONS

\* Every check of transition before its first write.
TransitionAccepted(o, next) ==
  /\ <<assignment[o], next>> \in DELIVERY_TRANSITIONS
  /\ next = "delivered" /\ Method[o] \in PayOnDelivery => payStatus[o] = "paid"

\* PATCH /deliveries/orders/:orderId/status, by the driver or by staff.  The
\* CHECK of the tracking row refuses the status "cancelled": the transaction
\* rolls back, and no delivery is ever cancelled.
Transition(o, next) ==
  /\ TransitionAccepted(o, next)
  /\ TrackingFor(next) \in TrackingStatuses
  /\ assignment' = [assignment EXCEPT ![o] = next]
  /\ tracking' = [tracking EXCEPT ![o] = TrackingFor(next)]
  /\ IF OrderAfter(o, next) # status[o]
     THEN Move(o, OrderAfter(o, next), "order.status_changed")
     ELSE Stay
  /\ UNCHANGED <<payStatus, cancelling, assignee, hired, activeDrivers, idleChecked, pinging>>

\* PATCH /deliveries/orders/:orderId/location: the unlocked read of the row, of
\* one request per order at a time ...
ReadLocation(o) ==
  /\ tracking[o] # "none"
  /\ pinging[o] = "none"
  /\ pinging' = [pinging EXCEPT ![o] = tracking[o]]
  /\ UNCHANGED <<orderVars, assignee, assignment, tracking, hired, activeDrivers,
                 idleChecked>>

\* ... and its save, which writes back every column that differs from the row
\* by then, the status read before among them.
SaveLocation(o) ==
  /\ pinging[o] # "none"
  /\ tracking' = [tracking EXCEPT ![o] = pinging[o]]
  /\ pinging' = [pinging EXCEPT ![o] = "none"]
  /\ UNCHANGED <<orderVars, assignee, assignment, hired, activeDrivers, idleChecked>>

-----------------------------------------------------------------------------
\* POST of a driver: the user and the staff row are inserted in one
\* transaction; an email or phone somebody has is refused.
CreateDriver(d) ==
  /\ d \notin hired
  /\ hired' = hired \cup {d}
  /\ activeDrivers' = activeDrivers \cup {d}
  /\ UNCHANGED <<orderVars, assignee, assignment, tracking, idleChecked, pinging>>

\* DELETE of a driver: the count of active assignments, not locked ...
CheckDriverIdle(d) ==
  /\ d \in hired
  /\ ~ \E o \in Orders : assignee[o] = d /\ assignment[o] \in ActiveAssignment
  /\ idleChecked' = idleChecked \cup {d}
  /\ UNCHANGED <<orderVars, assignee, assignment, tracking, hired, activeDrivers, pinging>>

\* ... and the write of is_active.
DeactivateDriver(d) ==
  /\ d \in idleChecked
  /\ idleChecked' = idleChecked \ {d}
  /\ activeDrivers' = activeDrivers \ {d}
  /\ UNCHANGED <<orderVars, assignee, assignment, tracking, hired, pinging>>

\* PATCH of a driver with isActive in the body.
UpdateDriver(d, isActive) ==
  /\ d \in hired
  /\ activeDrivers' = IF isActive THEN activeDrivers \cup {d}
                                  ELSE activeDrivers \ {d}
  /\ UNCHANGED <<orderVars, assignee, assignment, tracking, hired, idleChecked, pinging>>

DeliveriesNext ==
  \/ \E o \in Orders :
       \/ \E d \in Drivers : Assign(o, d)
       \/ \E next \in AssignmentStatuses : Transition(o, next)
       \/ ReadLocation(o)
       \/ SaveLocation(o)
  \/ \E d \in Drivers :
       \/ CreateDriver(d)
       \/ CheckDriverIdle(d)
       \/ DeactivateDriver(d)
       \/ \E isActive \in BOOLEAN : UpdateDriver(d, isActive)
=============================================================================
