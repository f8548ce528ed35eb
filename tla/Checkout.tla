------------------------------ MODULE Checkout ------------------------------
(***************************************************************************)
(* CheckoutService, CartsService and the order creation of AdminPosService:*)
(* how a cart or a walk-in order becomes an order, once.                   *)
(*                                                                         *)
(* The API handles several requests at a time.  A step is a statement that *)
(* may wait or whose result is used later; statements between two of them  *)
(* that nobody can tell apart are merged.  A transaction keeps its row     *)
(* locks and its database connection to its end, and reads that do not go  *)
(* through its entity manager (prices, opening hours) need a second        *)
(* connection of the pool meanwhile.  Rows of a transaction appear when it *)
(* commits.  Prices, quantities, promotions and the menu are left out.     *)
(***************************************************************************)
EXTENDS Naturals, FiniteSets

CONSTANTS Requests,      \* requests the API handles at a time
          Customers,     \* users with carts
          Cashiers,      \* staff members at the POS
          Keys, NoKey,   \* idempotency keys; a checkout may come without one
          Bodies, NoBody, \* the rest of the body of a checkout or POS order
          CouponBodies,  \* bodies that name the coupon
          MaxCarts, MaxItems, MaxOrders,  \* bounds: rows that ever exist
          TotalLimit,    \* coupons.total_usage_limit
          CustomerLimit, \* coupons.per_customer_limit
          NULL,          \* no limit
          PoolSize       \* connections of the pool, 10 by default

ASSUME CheckoutAssumption ==
  /\ MaxCarts \in Nat /\ MaxItems \in Nat /\ MaxOrders \in Nat /\ PoolSize \in Nat
  /\ NoKey \notin Keys /\ NoBody \notin Bodies
  /\ Customers \cap Cashiers = {} /\ Customers \cup Cashiers # {}
  /\ CouponBodies \subseteq Bodies
  /\ NULL \notin Nat
  /\ TotalLimit \in Nat \cup {NULL} /\ CustomerLimit \in Nat \cup {NULL}
  /\ IsFiniteSet(Requests)

Actors == Customers \cup Cashiers
Carts  == 1 .. MaxCarts
Items  == 1 .. MaxItems
Orders == 1 .. MaxOrders

VARIABLES
  cartOwner,  \* carts.customer_id, {} before the row exists
  converted,  \* carts whose status is 'converted'; the others are 'active'
  itemCart,   \* cart_items.cart_id, {} while there is no such row
  orderActor, \* who placed the order, {} before the row exists
  orderCart,  \* orders.cart_id, {} for a walk-in order
  orderItems, \* the cart items it was made from
  redeemed,   \* orders with a coupon_redemptions row
  keyRows,    \* idempotency_keys: the request and the order in its response
  step,       \* what each request does next
  input,      \* who sent it, its key, its cart (0: none) and the rest
  read,       \* the cart items it has read
  outcome     \* the order its key was answered with, 0 when there is none

cartVars == <<cartOwner, converted, itemCart>>
orderVars == <<orderActor, orderCart, orderItems, redeemed, keyRows>>
vars == <<cartVars, orderVars, step, input, read, outcome>>

\* Steps that hold the row lock of the cart, and steps inside a transaction,
\* which hold a connection.
CartLocked == {"reprice", "take_coupon", "complete"}
Transaction == {"insert_item", "price_reorder", "insert_reorder", "insert_key",
                "lock_cart", "create_pos"} \cup CartLocked
Steps == {"idle", "create_cart", "add_item", "save_item", "reorder",
          "read_cart", "checkout", "pos"} \cup Transaction

Inputs == [actor : Actors, key : Keys \cup {NoKey}, cart : Carts \cup {0},
           body : Bodies \cup {NoBody}]
\* The input of a request that is over.
Blank == [actor |-> CHOOSE u \in Actors : TRUE, key |-> NoKey, cart |-> 0, body |-> NoBody]
KeyRows == [input : Inputs, order : Orders]

TypeOK ==
  /\ cartOwner \in [Carts -> SUBSET Customers]
  /\ converted \in SUBSET Carts
  /\ itemCart \in [Items -> SUBSET Carts]
  /\ orderActor \in [Orders -> SUBSET Actors]
  /\ orderCart \in [Orders -> SUBSET Carts]
  /\ orderItems \in [Orders -> SUBSET Items]
  /\ redeemed \in SUBSET Orders
  /\ keyRows \in SUBSET KeyRows
  /\ step \in [Requests -> Steps]
  /\ input \in [Requests -> Inputs]
  /\ read \in [Requests -> SUBSET Items]
  /\ outcome \in [Requests -> Orders \cup {0}]

Init ==
  /\ cartOwner = [c \in Carts |-> {}]
  /\ converted = {}
  /\ itemCart = [i \in Items |-> {}]
  /\ orderActor = [o \in Orders |-> {}]
  /\ orderCart = [o \in Orders |-> {}]
  /\ orderItems = [o \in Orders |-> {}]
  /\ redeemed = {}
  /\ keyRows = {}
  /\ step = [r \in Requests |-> "idle"]
  /\ input = [r \in Requests |-> Blank]
  /\ read = [r \in Requests |-> {}]
  /\ outcome = [r \in Requests |-> 0]
-----------------------------------------------------------------------------
Busy == {r \in Requests : step[r] # "idle"}
NewCarts  == {c \in Carts : cartOwner[c] = {}}
NewItems  == {i \in Items : itemCart[i] = {} /\ \A r \in Requests : i \notin read[r]
                                             /\ \A o \in Orders : i \notin orderItems[o]}
NewOrders == {o \in Orders : orderActor[o] = {}}
First(S) == {x \in S : \A y \in S : x <= y}
\* The bounds: a request starts only when there are rows left for all.
RoomIn(S) == Cardinality(Busy) < Cardinality(S)

ActiveCarts(u) == {c \in Carts : cartOwner[c] = {u} /\ c \notin converted}
ItemsOf(c) == {i \in Items : itemCart[i] = {c}}

Go(r, s) == step' = [step EXCEPT ![r] = s]
Enter(r, i, s) ==
  /\ step[r] = "idle"
  /\ input' = [input EXCEPT ![r] = i]
  /\ outcome' = [outcome EXCEPT ![r] = 0]
  /\ Go(r, s)
\* The end of a request; what nothing refers to any more is forgotten.
Answer(r, o) ==
  /\ Go(r, "idle")
  /\ outcome' = [outcome EXCEPT ![r] = IF input[r].key = NoKey THEN 0 ELSE o]
  /\ read' = [read EXCEPT ![r] = {}]
  /\ input' = [input EXCEPT ![r] = IF o = 0 \/ @.key = NoKey THEN Blank ELSE @]
Refuse(r) == Answer(r, 0) /\ UNCHANGED <<cartVars, orderVars>>

\* A fault: the pool has a connection less than its users count on.
FreeOneShort == Cardinality({r \in Requests : step[r] \in Transaction}) + 1 < PoolSize

\* A connection is left in the pool.
Free == Cardinality({r \in Requests : step[r] \in Transaction}) < PoolSize
\* dataSource.transaction takes a connection for the steps that follow.
Begun(r) ==
  CASE step[r] = "add_item" -> "insert_item"
    [] step[r] = "reorder"  -> "price_reorder"
    [] step[r] = "checkout" -> IF input[r].key = NoKey THEN "lock_cart" ELSE "insert_key"
    [] OTHER                -> "create_pos"
Begin(r) ==
  /\ step[r] \in {"add_item", "reorder", "checkout", "pos"} /\ Free
  /\ Go(r, Begun(r))
  /\ UNCHANGED <<cartVars, orderVars, input, read, outcome>>

\* Another transaction holds a cart FOR UPDATE: inserts that refer to the cart
\* wait for it, as further locks do.
CartHeld(r, c) == \E q \in Requests \ {r} : step[q] \in CartLocked /\ input[q].cart = c
-----------------------------------------------------------------------------
(* CartsService. *)

\* The cart a customer's item goes to is looked up without a lock.
RequestAdd(r) ==
  \E i \in Inputs :
    /\ i.actor \in Customers /\ i.key = NoKey /\ i.body = NoBody /\ RoomIn(NewItems)
    /\ IF ActiveCarts(i.actor) = {}
       THEN i.cart = 0 /\ RoomIn(NewCarts) /\ Enter(r, i, "create_cart")
       ELSE i.cart \in ActiveCarts(i.actor) /\ Enter(r, i, "add_item")
    /\ UNCHANGED <<cartVars, orderVars, read>>

CreateCart(r) ==
  /\ step[r] = "create_cart"
  /\ \E c \in First(NewCarts) :
       /\ cartOwner' = [cartOwner EXCEPT ![c] = {input[r].actor}]
       /\ input' = [input EXCEPT ![r].cart = c]
  /\ Go(r, "add_item")
  /\ UNCHANGED <<converted, itemCart, orderVars, read, outcome>>

InsertItem(r) ==
  /\ step[r] = "insert_item" /\ ~CartHeld(r, input[r].cart)
  /\ \E i \in First(NewItems) : itemCart' = [itemCart EXCEPT ![i] = {input[r].cart}]
  /\ Answer(r, 0)
  /\ UNCHANGED <<cartOwner, converted, orderVars>>

\* updateItem saves the row it has read, also when it is gone meanwhile.
ReadItem(r) ==
  \E x \in Inputs, i \in Items :
    /\ x.actor \in Customers /\ x.key = NoKey /\ x.body = NoBody
    /\ x.cart \in Carts /\ itemCart[i] = {x.cart} /\ cartOwner[x.cart] = {x.actor}
    /\ Enter(r, x, "save_item")
    /\ read' = [read EXCEPT ![r] = {i}]
    /\ UNCHANGED <<cartVars, orderVars>>

SaveItem(r) ==
  /\ step[r] = "save_item" /\ ~CartHeld(r, input[r].cart)
  /\ itemCart' = [i \in Items |-> IF i \in read[r] THEN {input[r].cart} ELSE itemCart[i]]
  /\ Answer(r, 0)
  /\ UNCHANGED <<cartOwner, converted, orderVars>>

RemoveItem(i) ==
  /\ itemCart[i] # {}
  /\ itemCart' = [itemCart EXCEPT ![i] = {}]
  /\ UNCHANGED <<cartOwner, converted, orderVars, step, input, read, outcome>>

Clear(u) ==
  \E c \in ActiveCarts(u) :
    /\ itemCart' = [i \in Items |-> IF i \in ItemsOf(c) THEN {} ELSE itemCart[i]]
    /\ UNCHANGED <<cartOwner, converted, orderVars, step, input, read, outcome>>

\* addItemsAtomic, of a reorder or a favourite: one item stands for all.
RequestReorder(r) ==
  \E i \in Inputs :
    /\ i.actor \in Customers /\ i.key = NoKey /\ i.body = NoBody /\ i.cart = 0
    /\ RoomIn(NewItems) /\ RoomIn(NewCarts)
    /\ Enter(r, i, "reorder")
    /\ UNCHANGED <<cartVars, orderVars, read>>

PriceReorder(r) ==
  /\ step[r] = "price_reorder" /\ Free
  /\ Go(r, "insert_reorder")
  /\ UNCHANGED <<cartVars, orderVars, input, read, outcome>>

\* It locks every active cart of the customer and uses one of them.
InsertReorder(r) ==
  LET mine == ActiveCarts(input[r].actor)
  IN /\ step[r] = "insert_reorder" /\ \A c \in mine : ~CartHeld(r, c)
     /\ \E c \in IF mine = {} THEN First(NewCarts) ELSE mine, i \in First(NewItems) :
          /\ cartOwner' = [cartOwner EXCEPT ![c] = {input[r].actor}]
          /\ itemCart' = [itemCart EXCEPT ![i] = {c}]
     /\ Answer(r, 0)
     /\ UNCHANGED <<converted, orderVars>>
-----------------------------------------------------------------------------
(* CheckoutService and AdminPosService. *)

SameKey(i) == {k \in keyRows : k.input.actor = i.actor /\ k.input.key = i.key}
\* The committed response of the same request; nothing for a different one.
Replayed(i) == {k.order : k \in {j \in SameKey(i) : j.input = i}}
\* The unlocked look at the key row that comes first: it is answered from the
\* row, or goes on; a conflict changes nothing.
LookUpKey(r, i, s) ==
  /\ IF SameKey(i) = {}
     THEN RoomIn(NewOrders) /\ Enter(r, i, s)
     ELSE /\ step[r] = "idle" /\ i \in {k.input : k \in SameKey(i)}
          /\ \E o \in Replayed(i) : outcome' = [outcome EXCEPT ![r] = o]
          /\ input' = [input EXCEPT ![r] = i]
          /\ UNCHANGED step
  /\ UNCHANGED <<cartVars, orderVars, read>>

RequestCheckout(r) ==
  \E i \in Inputs :
    /\ i.actor \in Customers /\ i.cart \in Carts \ NewCarts /\ i.body \in Bodies
    /\ LookUpKey(r, i, "read_cart")

\* carts.detailById, before the transaction.
ReadCart(r) ==
  /\ step[r] = "read_cart"
  /\ \/ /\ input[r].cart \in ActiveCarts(input[r].actor)
        /\ ItemsOf(input[r].cart) # {}
        /\ Go(r, "checkout")
        /\ UNCHANGED <<cartVars, orderVars, input, read, outcome>>
     \/ /\ \/ input[r].cart \notin ActiveCarts(input[r].actor)
           \/ ItemsOf(input[r].cart) = {}
        /\ Refuse(r)

\* Another checkout has inserted the same key and not finished.
KeyHeld(r) ==
  \E q \in Requests \ {r} :
    /\ step[q] \in {"lock_cart"} \cup CartLocked
    /\ input[q].actor = input[r].actor /\ input[q].key = input[r].key

\* A fault: the row is locked but its hash and response are not looked at.
InsertKeyUnread(r) ==
  /\ step[r] = "insert_key" /\ ~KeyHeld(r)
  /\ Go(r, "lock_cart")
  /\ UNCHANGED <<cartVars, orderVars, input, read, outcome>>

InsertKey(r) ==
  /\ step[r] = "insert_key" /\ ~KeyHeld(r)
  /\ \/ /\ SameKey(input[r]) = {}
        /\ Go(r, "lock_cart")
        /\ UNCHANGED <<cartVars, orderVars, input, read, outcome>>
     \/ /\ SameKey(input[r]) # {} /\ Replayed(input[r]) = {}
        /\ Refuse(r)
     \/ \E o \in Replayed(input[r]) :
          Answer(r, o) /\ UNCHANGED <<cartVars, orderVars>>

\* A fault: the status read before the transaction is relied on.
LockCartUnchecked(r) ==
  /\ step[r] = "lock_cart" /\ ~CartHeld(r, input[r].cart)
  /\ read' = [read EXCEPT ![r] = ItemsOf(input[r].cart)]
  /\ Go(r, "reprice")
  /\ UNCHANGED <<cartVars, orderVars, input, outcome>>

LockCart(r) ==
  LET c == input[r].cart
  IN /\ step[r] = "lock_cart" /\ ~CartHeld(r, c)
     /\ \/ /\ c \in ActiveCarts(input[r].actor) /\ ItemsOf(c) # {}
           /\ read' = [read EXCEPT ![r] = ItemsOf(c)]
           /\ Go(r, "reprice")
           /\ UNCHANGED <<cartVars, orderVars, input, outcome>>
        \/ /\ c \notin ActiveCarts(input[r].actor) \/ ItemsOf(c) = {}
           /\ Refuse(r)

\* The current prices come from a second connection.
Reprice(r) ==
  /\ step[r] = "reprice" /\ Free
  /\ Go(r, IF input[r].body \in CouponBodies THEN "take_coupon" ELSE "complete")
  /\ UNCHANGED <<cartVars, orderVars, input, read, outcome>>

\* uses >= limit in the source, and a number is >= null: a coupon without a
\* limit is always exhausted.
Reached(uses, limit) == limit \in Nat => uses >= limit
UsesOf(u) == {o \in redeemed : orderActor[o] = {u}}
Exhausted(u) == \/ Reached(Cardinality(redeemed), TotalLimit)
                \/ Reached(Cardinality(UsesOf(u)), CustomerLimit)

\* A fault: the coupon is read without a lock.
CouponHeldNever(r) == FALSE

\* The coupon row stays locked until the redemption is committed.
CouponHeld(r) == \E q \in Requests \ {r} :
                   step[q] = "complete" /\ input[q].body \in CouponBodies

TakeCoupon(r) ==
  /\ step[r] = "take_coupon" /\ ~CouponHeld(r)
  /\ \/ /\ ~Exhausted(input[r].actor)
        /\ Go(r, "complete")
        /\ UNCHANGED <<cartVars, orderVars, input, read, outcome>>
     \/ Exhausted(input[r].actor) /\ Refuse(r)

\* A fault: the order is made and the cart stays open.
CompleteOpen(r) ==
  /\ step[r] = "complete" /\ Free
  /\ \E o \in First(NewOrders) :
       /\ orderActor' = [orderActor EXCEPT ![o] = {input[r].actor}]
       /\ orderCart' = [orderCart EXCEPT ![o] = {input[r].cart}]
       /\ orderItems' = [orderItems EXCEPT ![o] = read[r]]
       /\ keyRows' = IF input[r].key = NoKey THEN keyRows
                     ELSE keyRows \cup {[input |-> input[r], order |-> o]}
       /\ Answer(r, o)
  /\ UNCHANGED <<cartVars, redeemed>>

\* Opening hours are read from a second connection; then everything is
\* written.  Items that were removed before the prices were saved come back.
Complete(r) ==
  /\ step[r] = "complete" /\ Free
  /\ \E o \in First(NewOrders), back \in SUBSET read[r] :
       /\ orderActor' = [orderActor EXCEPT ![o] = {input[r].actor}]
       /\ orderCart' = [orderCart EXCEPT ![o] = {input[r].cart}]
       /\ orderItems' = [orderItems EXCEPT ![o] = read[r]]
       /\ redeemed' = IF input[r].body \in CouponBodies THEN redeemed \cup {o} ELSE redeemed
       /\ keyRows' = IF input[r].key = NoKey THEN keyRows
                     ELSE keyRows \cup {[input |-> input[r], order |-> o]}
       /\ itemCart' = [i \in Items |-> IF i \in back THEN {input[r].cart} ELSE itemCart[i]]
       /\ Answer(r, o)
  /\ converted' = converted \cup {input[r].cart}
  /\ UNCHANGED cartOwner

RequestPos(r) ==
  \E i \in Inputs :
    /\ i.actor \in Cashiers /\ i.key # NoKey /\ i.cart = 0 /\ i.body \in Bodies
    /\ LookUpKey(r, i, "pos")

\* The insert of the key row fails when another request has committed it.
CreatePos(r) ==
  /\ step[r] = "create_pos"
  /\ \/ /\ SameKey(input[r]) = {}
        /\ \E o \in First(NewOrders) :
             /\ orderActor' = [orderActor EXCEPT ![o] = {input[r].actor}]
             /\ keyRows' = keyRows \cup {[input |-> input[r], order |-> o]}
             /\ Answer(r, o)
        /\ UNCHANGED <<cartVars, orderCart, orderItems, redeemed>>
     \/ SameKey(input[r]) # {} /\ Refuse(r)

\* A request is refused for what is not modelled, or it or the API dies: a
\* transaction is rolled back.
Fail(r) == step[r] # "idle" /\ Refuse(r)
-----------------------------------------------------------------------------
Arrive(r) == \/ RequestAdd(r) \/ ReadItem(r) \/ RequestReorder(r)
             \/ RequestCheckout(r) \/ RequestPos(r)
Handle(r) == \/ Begin(r) \/ CreateCart(r) \/ InsertItem(r) \/ SaveItem(r)
             \/ PriceReorder(r) \/ InsertReorder(r)
             \/ ReadCart(r) \/ InsertKey(r) \/ LockCart(r) \/ Reprice(r)
             \/ TakeCoupon(r) \/ Complete(r) \/ CreatePos(r)

Next == \/ \E r \in Requests : Arrive(r) \/ Handle(r) \/ Fail(r)
        \/ \E i \in Items : RemoveItem(i)
        \/ \E u \in Customers : Clear(u)

\* The pool and the row locks serve their queues in order; a handling that can
\* go on does.
Fairness == \A r \in Requests : SF_vars(Handle(r))

Spec == Init /\ [][Next]_vars
FairSpec == Spec /\ Fairness
-----------------------------------------------------------------------------
\* However adds, edits, checkouts and retries overlap, a cart becomes at most
\* one order and its items are sold once.
OneOrderPerCart ==
  \A o, p \in Orders :
    orderCart[o] \cap orderCart[p] # {} \/ orderItems[o] \cap orderItems[p] # {} => o = p

\* The carts that are closed are those that were ordered, each by its owner
\* and with something in it.
ConvertedIsOrdered ==
  /\ converted = UNION {orderCart[o] : o \in Orders}
  /\ \A o \in Orders : \A c \in orderCart[o] :
       orderActor[o] = cartOwner[c] /\ orderItems[o] # {}

\* A key stands for one order of its user, whichever of the repeats made it, and
\* every request with that key that was answered was answered with it.
OneOrderPerKey ==
  /\ \A k, l \in keyRows :
       k.input.actor = l.input.actor /\ k.input.key = l.input.key => k = l
  /\ \A k \in keyRows : orderActor[k.order] = {k.input.actor}
  /\ \A r \in Requests :
       outcome[r] # 0 => [input |-> input[r], order |-> outcome[r]] \in keyRows

\* Concurrent checkouts never take a coupon beyond its limits.
CouponWithinLimits ==
  /\ TotalLimit \in Nat => Cardinality(redeemed) <= TotalLimit
  /\ CustomerLimit \in Nat =>
       \A u \in Customers : Cardinality(UsesOf(u)) <= CustomerLimit

\* Every request ends: no transaction waits forever for a row or a connection.
RequestsEnd == \A r \in Requests : step[r] # "idle" ~> step[r] = "idle"

\* Purchases, with the row locks, transactions and cart edits taken away: the
\* answer of a request is what its caller has been told.
Promise == INSTANCE Purchases WITH
  Clients <- Requests,
  Wishes  <- Inputs,
  owner   <- cartOwner,
  closed  <- converted,
  buyer   <- orderActor,
  cart    <- orderCart,
  sold    <- orderItems,
  kept    <- keyRows,
  answer  <- [r \in Requests |-> IF outcome[r] = 0 THEN {}
                                ELSE {[input |-> input[r], order |-> outcome[r]]}]

\* However the steps of requests overlap, fail and repeat, each order appears
\* complete at once and stays so: Checkout implements Purchases.
ImplementsPurchases == Promise!Spec
=============================================================================
