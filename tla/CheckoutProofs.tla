--------------------------- MODULE CheckoutProofs ---------------------------
(***************************************************************************)
(* Theorems about Checkout, for any customers, keys, rows, limits and pool.*)
(***************************************************************************)
EXTENDS Checkout, FiniteSetTheorems, TLAPS

CustomerSteps == Steps \ {"idle", "pos", "create_pos"}
CartSteps == {"add_item", "insert_item", "save_item", "read_cart", "checkout",
              "insert_key", "lock_cart"} \cup CartLocked

\* A request at step s has what the step relies on: an input i, items R and an
\* answer o.
Fits(s, i, R, o) ==
  /\ s # "idle" => o = 0
  /\ R # {} => s \in {"save_item"} \cup CartLocked
  /\ s \in CustomerSteps => i.actor \in Customers
  /\ s \in {"pos", "create_pos"} => i.actor \in Cashiers
  /\ s \in {"pos", "create_pos", "insert_key"} => i.key # NoKey
  /\ s \in CartSteps => i.cart \in Carts
RequestOK(r) == Fits(step[r], input[r], read[r], outcome[r])

RequestsTypeOK == /\ step \in [Requests -> Steps]
                  /\ input \in [Requests -> Inputs]
                  /\ read \in [Requests -> SUBSET Items]
                  /\ outcome \in [Requests -> Orders \cup {0}]
RowsTypeOK == /\ cartOwner \in [Carts -> SUBSET Customers]
              /\ converted \in SUBSET Carts
              /\ itemCart \in [Items -> SUBSET Carts]
              /\ orderActor \in [Orders -> SUBSET Actors]
              /\ orderCart \in [Orders -> SUBSET Carts]
              /\ orderItems \in [Orders -> SUBSET Items]
              /\ redeemed \in SUBSET Orders
              /\ keyRows \in SUBSET KeyRows
TypeInv == RowsTypeOK /\ RequestsTypeOK /\ \A r \in Requests : RequestOK(r)

LEMMA BlankIsInput == Blank \in Inputs
<1>1. (CHOOSE u \in Actors : TRUE) \in Actors
  BY CheckoutAssumption DEF Actors
<1> QED
  BY <1>1 DEF Blank, Inputs

LEMMA TypeInit == Init => TypeInv
<1> SUFFICES ASSUME Init PROVE TypeInv
  OBVIOUS
<1>2. input \in [Requests -> Inputs]
  BY BlankIsInput DEF Init
<1> QED
  BY <1>2 DEF Init, TypeInv, RowsTypeOK, RequestsTypeOK, RequestOK, Fits, CustomerSteps,
     CartSteps, CartLocked, Steps

LEMMA RequestOnly ==
  ASSUME RequestsTypeOK, \A q \in Requests : RequestOK(q),
         NEW r \in Requests, NEW s \in Steps, NEW i \in Inputs, NEW R \in SUBSET Items,
         NEW o \in Orders \cup {0}, Fits(s, i, R, o),
         step' = [step EXCEPT ![r] = s], input' = [input EXCEPT ![r] = i],
         read' = [read EXCEPT ![r] = R], outcome' = [outcome EXCEPT ![r] = o]
  PROVE  RequestsTypeOK' /\ \A q \in Requests : RequestOK(q)'
<1>1. RequestsTypeOK'
  BY DEF RequestsTypeOK
<1>2. ASSUME NEW q \in Requests PROVE RequestOK(q)'
  <2>1. CASE q = r
    BY <2>1 DEF RequestsTypeOK, RequestOK, Fits
  <2>2. CASE q # r
    <3>1. /\ step'[q] = step[q] /\ input'[q] = input[q]
          /\ read'[q] = read[q] /\ outcome'[q] = outcome[q]
      BY <2>2 DEF RequestsTypeOK
    <3> QED
      BY <3>1 DEF RequestOK, Fits
  <2> QED
    BY <2>1, <2>2
<1> QED
  BY <1>1, <1>2

\* The three ways a request goes on.
LEMMA GoesOn ==
  ASSUME RequestsTypeOK, \A q \in Requests : RequestOK(q),
         NEW r \in Requests, NEW s \in Steps, Go(r, s),
         UNCHANGED <<input, read, outcome>>,
         Fits(s, input[r], read[r], outcome[r])
  PROVE  RequestsTypeOK' /\ \A q \in Requests : RequestOK(q)'
<1> DEFINE i == input[r]
           R == read[r]
           o == outcome[r]
<1>1. /\ input' = [input EXCEPT ![r] = i]
      /\ read' = [read EXCEPT ![r] = R]
      /\ outcome' = [outcome EXCEPT ![r] = o]
  BY DEF RequestsTypeOK
<1>2. i \in Inputs /\ R \in SUBSET Items /\ o \in Orders \cup {0}
  BY DEF RequestsTypeOK
<1>3. step' = [step EXCEPT ![r] = s] /\ Fits(s, i, R, o)
  BY DEF Go
<1> HIDE DEF i, R, o
<1> QED
  BY <1>1, <1>2, <1>3, RequestOnly

LEMMA IsAnswered ==
  ASSUME RequestsTypeOK, \A q \in Requests : RequestOK(q),
         NEW r \in Requests, NEW o \in Orders \cup {0}, Answer(r, o)
  PROVE  RequestsTypeOK' /\ \A q \in Requests : RequestOK(q)'
<1> DEFINE i == IF o = 0 \/ input[r].key = NoKey THEN Blank ELSE input[r]
           n == IF input[r].key = NoKey THEN 0 ELSE o
<1>1. i \in Inputs /\ n \in Orders \cup {0}
  BY BlankIsInput DEF RequestsTypeOK
<1>2. input' = [input EXCEPT ![r] = i] /\ outcome' = [outcome EXCEPT ![r] = n]
  BY DEF Answer, RequestsTypeOK
<1>3. Fits("idle", i, {}, n)
  BY DEF Fits, CustomerSteps, CartSteps, CartLocked
<1>4. "idle" \in Steps
  BY DEF Steps
<1> HIDE DEF i, n
<1> QED
  BY <1>1, <1>2, <1>3, <1>4, RequestOnly DEF Answer, Go

LEMMA IsEntered ==
  ASSUME RequestsTypeOK, \A q \in Requests : RequestOK(q),
         NEW r \in Requests, NEW i \in Inputs, NEW s \in Steps, Enter(r, i, s),
         NEW R \in SUBSET Items, read' = [read EXCEPT ![r] = R],
         Fits(s, i, R, 0)
  PROVE  RequestsTypeOK' /\ \A q \in Requests : RequestOK(q)'
  BY RequestOnly DEF Enter, Go

\* Every step of a request that keeps the rows, and what it can do to the request.
LEMMA ArriveType ==
  ASSUME TypeInv, NEW r \in Requests, Arrive(r)
  PROVE  TypeInv' /\ UNCHANGED <<cartVars, orderVars>>
<1> USE DEF TypeInv
<1>u. ASSUME UNCHANGED <<cartVars, orderVars>> PROVE RowsTypeOK'
  BY <1>u DEF RowsTypeOK, cartVars, orderVars
<1>r. read' = read => read' = [read EXCEPT ![r] = read[r]]
  BY DEF RequestsTypeOK
<1>i. step[r] = "idle" => read[r] = {}
  BY DEF RequestOK, Fits, CartLocked
<1>1. ASSUME RequestAdd(r) PROVE TypeInv' /\ UNCHANGED <<cartVars, orderVars>>
  <2>1. PICK i \in Inputs :
          /\ i.actor \in Customers
          /\ \/ i.cart = 0 /\ Enter(r, i, "create_cart")
             \/ i.cart \in ActiveCarts(i.actor) /\ Enter(r, i, "add_item")
          /\ UNCHANGED <<cartVars, orderVars, read>>
    BY <1>1 DEF RequestAdd
  <2>2. read' = [read EXCEPT ![r] = {}]
    BY <2>1, <1>r, <1>i DEF Enter
  <2>3. CASE Enter(r, i, "create_cart")
    <3>1. Fits("create_cart", i, {}, 0) /\ "create_cart" \in Steps
      BY <2>1 DEF Fits, CartSteps, CartLocked, Steps
    <3> QED
      BY <1>u, <2>1, <2>2, <2>3, <3>1, IsEntered
  <2>4. CASE i.cart \in ActiveCarts(i.actor) /\ Enter(r, i, "add_item")
    <3>1. Fits("add_item", i, {}, 0) /\ "add_item" \in Steps
      BY <2>1, <2>4 DEF Fits, CartSteps, CartLocked, Steps, ActiveCarts
    <3> QED
      BY <1>u, <2>1, <2>2, <2>4, <3>1, IsEntered
  <2> QED
    BY <2>1, <2>3, <2>4
<1>2. ASSUME ReadItem(r) PROVE TypeInv' /\ UNCHANGED <<cartVars, orderVars>>
  <2>1. PICK x \in Inputs, i \in Items :
          /\ x.actor \in Customers /\ x.cart \in Carts
          /\ Enter(r, x, "save_item") /\ read' = [read EXCEPT ![r] = {i}]
          /\ UNCHANGED <<cartVars, orderVars>>
    BY <1>2 DEF ReadItem
  <2> DEFINE R == {i}
  <2>2. Fits("save_item", x, R, 0) /\ "save_item" \in Steps
    BY <2>1 DEF Fits, CartSteps, CartLocked, Steps
  <2>3. R \in SUBSET Items /\ read' = [read EXCEPT ![r] = R]
    BY <2>1
  <2> HIDE DEF R
  <2> QED
    BY <1>u, <2>1, <2>2, <2>3, IsEntered
<1>3. ASSUME RequestReorder(r) PROVE TypeInv' /\ UNCHANGED <<cartVars, orderVars>>
  <2>1. PICK i \in Inputs : /\ i.actor \in Customers /\ Enter(r, i, "reorder")
                            /\ UNCHANGED <<cartVars, orderVars, read>>
    BY <1>3 DEF RequestReorder
  <2>2. read' = [read EXCEPT ![r] = {}]
    BY <2>1, <1>r, <1>i DEF Enter
  <2>3. Fits("reorder", i, {}, 0) /\ "reorder" \in Steps
    BY <2>1 DEF Fits, CartSteps, CartLocked, Steps
  <2> QED
    BY <1>u, <2>1, <2>2, <2>3, IsEntered
<1>4. ASSUME NEW i \in Inputs, NEW s \in Steps, LookUpKey(r, i, s), Fits(s, i, {}, 0)
      PROVE  TypeInv' /\ UNCHANGED <<cartVars, orderVars>>
  <2>1. UNCHANGED <<cartVars, orderVars, read>>
    BY <1>4 DEF LookUpKey
  <2>2. CASE Enter(r, i, s)
    <3>1. read' = [read EXCEPT ![r] = {}]
      BY <2>1, <2>2, <1>r, <1>i DEF Enter
    <3> QED
      BY <1>u, <1>4, <2>1, <2>2, <3>1, IsEntered
  <2>3. CASE ~Enter(r, i, s)
    <3>1. PICK o \in Replayed(i) :
            /\ step[r] = "idle" /\ input' = [input EXCEPT ![r] = i]
            /\ outcome' = [outcome EXCEPT ![r] = o] /\ UNCHANGED <<step, read>>
      BY <1>4, <2>3 DEF LookUpKey
    <3>2. o \in Orders
      BY DEF Replayed, SameKey, RowsTypeOK, KeyRows
    <3>3. /\ read' = [read EXCEPT ![r] = {}]
          /\ step' = [step EXCEPT ![r] = "idle"]
      BY <3>1, <1>r, <1>i DEF RequestsTypeOK
    <3>4. Fits("idle", i, {}, o) /\ "idle" \in Steps
      BY DEF Fits, CustomerSteps, CartSteps, CartLocked, Steps
    <3> QED
      BY <1>u, <2>1, <3>1, <3>2, <3>3, <3>4, RequestOnly
  <2> QED
    BY <2>2, <2>3
<1>5. ASSUME RequestCheckout(r) PROVE TypeInv' /\ UNCHANGED <<cartVars, orderVars>>
  <2>1. PICK i \in Inputs : /\ i.actor \in Customers /\ i.cart \in Carts
                            /\ LookUpKey(r, i, "read_cart")
    BY <1>5 DEF RequestCheckout
  <2>2. Fits("read_cart", i, {}, 0) /\ "read_cart" \in Steps
    BY <2>1 DEF Fits, CartSteps, CartLocked, Steps
  <2> QED
    BY <1>4, <2>1, <2>2
<1>6. ASSUME RequestPos(r) PROVE TypeInv' /\ UNCHANGED <<cartVars, orderVars>>
  <2>1. PICK i \in Inputs : /\ i.actor \in Cashiers /\ i.key # NoKey
                            /\ LookUpKey(r, i, "pos")
    BY <1>6 DEF RequestPos
  <2>2. Fits("pos", i, {}, 0) /\ "pos" \in Steps
    BY <2>1 DEF Fits, CustomerSteps, CartSteps, CartLocked, Steps
  <2> QED
    BY <1>4, <2>1, <2>2
<1> QED
  BY <1>1, <1>2, <1>3, <1>5, <1>6 DEF Arrive

\* The steps that change nothing but the request: it goes on or is answered.
LEMMA GoesOnType ==
  ASSUME TypeInv, NEW r \in Requests, NEW s \in Steps, Go(r, s),
         UNCHANGED <<cartVars, orderVars, input, read, outcome>>,
         Fits(s, input[r], read[r], outcome[r])
  PROVE  TypeInv'
<1>1. RowsTypeOK'
  BY DEF TypeInv, RowsTypeOK, cartVars, orderVars
<1> QED
  BY <1>1, GoesOn DEF TypeInv

LEMMA AnsweredType ==
  ASSUME TypeInv, NEW r \in Requests, NEW o \in Orders \cup {0}, Answer(r, o),
         UNCHANGED <<cartVars, orderVars>>
  PROVE  TypeInv'
<1>1. RowsTypeOK'
  BY DEF TypeInv, RowsTypeOK, cartVars, orderVars
<1> QED
  BY <1>1, IsAnswered DEF TypeInv

LEMMA RefusedType ==
  ASSUME TypeInv, NEW r \in Requests, Refuse(r)
  PROVE  TypeInv'
  BY AnsweredType DEF Refuse

\* What is known of a request at its step.
LEMMA AtStep ==
  ASSUME TypeInv, NEW r \in Requests
  PROVE  /\ input[r] \in Inputs /\ read[r] \in SUBSET Items /\ outcome[r] \in Orders \cup {0}
         /\ step[r] \in Steps /\ Fits(step[r], input[r], read[r], outcome[r])
         /\ input[r].actor \in Actors
  BY DEF TypeInv, RequestsTypeOK, RequestOK, Inputs

LEMMA HandleType ==
  ASSUME TypeInv, NEW r \in Requests, Handle(r)
  PROVE  TypeInv'
<1>0. /\ input[r] \in Inputs /\ read[r] \in SUBSET Items /\ outcome[r] \in Orders \cup {0}
      /\ step[r] \in Steps /\ Fits(step[r], input[r], read[r], outcome[r])
      /\ input[r].actor \in Actors
  BY AtStep
<1>a. /\ RowsTypeOK /\ RequestsTypeOK /\ \A q \in Requests : RequestOK(q)
      /\ TypeInv' <=> RowsTypeOK' /\ RequestsTypeOK' /\ \A q \in Requests : RequestOK(q)'
  BY DEF TypeInv
<1>1. CASE Begin(r)
  <2>1. Begun(r) \in Steps /\ Fits(Begun(r), input[r], read[r], outcome[r])
    <3>1. CASE step[r] = "add_item"
      BY <1>0, <3>1 DEF Begun, Fits, CustomerSteps, CartSteps, CartLocked, Steps, Transaction
    <3>2. CASE step[r] = "reorder"
      BY <1>0, <3>2 DEF Begun, Fits, CustomerSteps, CartSteps, CartLocked, Steps, Transaction
    <3>3. CASE step[r] = "checkout"
      BY <1>0, <3>3 DEF Begun, Fits, CustomerSteps, CartSteps, CartLocked, Steps, Transaction
    <3>4. CASE step[r] = "pos"
      BY <1>0, <3>4 DEF Begun, Fits, CustomerSteps, CartSteps, CartLocked, Steps, Transaction
    <3> QED
      BY <1>1, <3>1, <3>2, <3>3, <3>4 DEF Begin
  <2> QED
    BY <1>1, <2>1, GoesOnType DEF Begin
<1>2. CASE CreateCart(r)
  <2>1. PICK c \in First(NewCarts) :
          /\ cartOwner' = [cartOwner EXCEPT ![c] = {input[r].actor}]
          /\ input' = [input EXCEPT ![r].cart = c]
    BY <1>2 DEF CreateCart
  <2>2. c \in Carts
    BY DEF First, NewCarts
  <2> DEFINE i == [input[r] EXCEPT !.cart = c]
  <2>3. i \in Inputs /\ i.cart = c /\ i.actor = input[r].actor
    BY <1>0, <2>2 DEF Inputs
  <2>4. input' = [input EXCEPT ![r] = i]
    BY <2>1, <1>a DEF RequestsTypeOK
  <2>5. step[r] = "create_cart" /\ outcome[r] = 0 /\ read[r] = {} /\ input[r].actor \in Customers
    BY <1>0, <1>2 DEF CreateCart, Fits, CustomerSteps, CartSteps, CartLocked, Steps
  <2>6. /\ step' = [step EXCEPT ![r] = "add_item"]
        /\ read' = [read EXCEPT ![r] = {}]
        /\ outcome' = [outcome EXCEPT ![r] = 0]
    BY <1>2, <2>5, <1>a DEF CreateCart, Go, RequestsTypeOK
  <2>7. Fits("add_item", i, {}, 0)
    BY <2>2, <2>3, <2>5 DEF Fits, CustomerSteps, CartSteps, CartLocked, Steps
  <2> HIDE DEF i
  <2>8. RequestsTypeOK' /\ \A q \in Requests : RequestOK(q)'
    BY <1>a, <2>3, <2>4, <2>6, <2>7, RequestOnly DEF Steps
  <2>9. RowsTypeOK'
    BY <1>2, <1>a, <2>1, <2>2, <2>5 DEF CreateCart, RowsTypeOK, orderVars
  <2> QED
    BY <1>a, <2>8, <2>9
<1>3. CASE InsertItem(r)
  <2>1. RequestsTypeOK' /\ \A q \in Requests : RequestOK(q)'
    BY <1>3, <1>a, IsAnswered DEF InsertItem
  <2>2. input[r].cart \in Carts
    BY <1>0, <1>3 DEF InsertItem, Fits, CustomerSteps, CartSteps, CartLocked, Steps
  <2>3. PICK i \in Items : itemCart' = [itemCart EXCEPT ![i] = {input[r].cart}]
    BY <1>3 DEF InsertItem, First, NewItems
  <2>4. RowsTypeOK'
    BY <1>3, <1>a, <2>2, <2>3 DEF InsertItem, RowsTypeOK, orderVars
  <2> QED
    BY <1>a, <2>1, <2>4
<1>4. CASE SaveItem(r)
  <2>1. RequestsTypeOK' /\ \A q \in Requests : RequestOK(q)'
    BY <1>4, <1>a, IsAnswered DEF SaveItem
  <2>2. input[r].cart \in Carts
    BY <1>0, <1>4 DEF SaveItem, Fits, CustomerSteps, CartSteps, CartLocked, Steps
  <2>3. RowsTypeOK'
    BY <1>4, <1>a, <2>2 DEF SaveItem, RowsTypeOK, orderVars
  <2> QED
    BY <1>a, <2>1, <2>3
<1>5. CASE PriceReorder(r)
  <2>1. Fits("insert_reorder", input[r], read[r], outcome[r])
    BY <1>0, <1>5 DEF PriceReorder, Fits, CustomerSteps, CartSteps, CartLocked, Steps
  <2> QED
    BY <1>5, <2>1, GoesOnType DEF PriceReorder, Steps, Transaction
<1>6. CASE InsertReorder(r)
  <2>1. RequestsTypeOK' /\ \A q \in Requests : RequestOK(q)'
    BY <1>6, <1>a, IsAnswered DEF InsertReorder
  <2>2. input[r].actor \in Customers
    BY <1>0, <1>6 DEF InsertReorder, Fits, CustomerSteps, CartSteps, CartLocked, Steps
  <2>3. PICK c \in Carts, i \in Items :
          /\ cartOwner' = [cartOwner EXCEPT ![c] = {input[r].actor}]
          /\ itemCart' = [itemCart EXCEPT ![i] = {c}]
    BY <1>6 DEF InsertReorder, First, NewCarts, NewItems, ActiveCarts
  <2>4. RowsTypeOK'
    BY <1>6, <1>a, <2>2, <2>3 DEF InsertReorder, RowsTypeOK, orderVars
  <2> QED
    BY <1>a, <2>1, <2>4
<1>7. CASE ReadCart(r)
  <2>1. CASE Refuse(r)
    BY <2>1, RefusedType
  <2>2. CASE ~Refuse(r)
    <3>1. Fits("checkout", input[r], read[r], outcome[r])
      BY <1>0, <1>7 DEF ReadCart, Fits, CustomerSteps, CartSteps, CartLocked, Steps
    <3> QED
      BY <1>7, <2>2, <3>1, GoesOnType DEF ReadCart, Steps
  <2> QED
    BY <2>1, <2>2
<1>8. CASE InsertKey(r)
  <2>1. CASE Refuse(r)
    BY <2>1, RefusedType
  <2>2. CASE Go(r, "lock_cart") /\ UNCHANGED <<cartVars, orderVars, input, read, outcome>>
    <3>1. Fits("lock_cart", input[r], read[r], outcome[r])
      BY <1>0, <1>8 DEF InsertKey, Fits, CustomerSteps, CartSteps, CartLocked, Steps
    <3> QED
      BY <2>2, <3>1, GoesOnType DEF Steps, Transaction
  <2>3. CASE \E o \in Replayed(input[r]) : Answer(r, o) /\ UNCHANGED <<cartVars, orderVars>>
    <3>1. Replayed(input[r]) \subseteq Orders
      BY <1>a DEF Replayed, SameKey, RowsTypeOK, KeyRows
    <3> QED
      BY <2>3, <3>1, AnsweredType
  <2> QED
    BY <1>8, <2>1, <2>2, <2>3 DEF InsertKey
<1>9. CASE LockCart(r)
  <2>1. CASE Refuse(r)
    BY <2>1, RefusedType
  <2>2. CASE ~Refuse(r)
    <3> DEFINE R == ItemsOf(input[r].cart)
    <3>1. /\ read' = [read EXCEPT ![r] = R] /\ Go(r, "reprice")
          /\ UNCHANGED <<cartVars, orderVars, input, outcome>> /\ step[r] = "lock_cart"
      BY <1>9, <2>2 DEF LockCart
    <3>2. R \in SUBSET Items
      BY DEF ItemsOf
    <3>3. Fits("reprice", input[r], R, outcome[r]) /\ outcome[r] = 0
      BY <1>0, <3>1 DEF Fits, CustomerSteps, CartSteps, CartLocked, Steps
    <3>4. /\ input' = [input EXCEPT ![r] = input[r]]
          /\ outcome' = [outcome EXCEPT ![r] = 0]
      BY <1>a, <3>1, <3>3 DEF RequestsTypeOK
    <3>5. RowsTypeOK'
      BY <1>a, <3>1 DEF RowsTypeOK, cartVars, orderVars
    <3> HIDE DEF R
    <3>6. RequestsTypeOK' /\ \A q \in Requests : RequestOK(q)'
      <4> DEFINE i == input[r]
      <4>1. i \in Inputs /\ input' = [input EXCEPT ![r] = i] /\ Fits("reprice", i, R, 0)
        BY <1>0, <3>3, <3>4
      <4> HIDE DEF i
      <4> QED
        BY <1>a, <3>1, <3>2, <3>4, <4>1, RequestOnly DEF Go, Steps, Transaction, CartLocked
    <3> QED
      BY <1>a, <3>5, <3>6
  <2> QED
    BY <2>1, <2>2
<1>10. CASE Reprice(r)
  <2>1. PICK s \in {"take_coupon", "complete"} : Go(r, s)
    BY <1>10 DEF Reprice
  <2>2. Fits(s, input[r], read[r], outcome[r])
    BY <1>0, <1>10 DEF Reprice, Fits, CustomerSteps, CartSteps, CartLocked, Steps
  <2> QED
    BY <1>10, <2>1, <2>2, GoesOnType DEF Reprice, Steps, Transaction, CartLocked
<1>11. CASE TakeCoupon(r)
  <2>1. CASE Refuse(r)
    BY <2>1, RefusedType
  <2>2. CASE ~Refuse(r)
    <3>1. Fits("complete", input[r], read[r], outcome[r])
      BY <1>0, <1>11 DEF TakeCoupon, Fits, CustomerSteps, CartSteps, CartLocked, Steps
    <3> QED
      BY <1>11, <2>2, <3>1, GoesOnType DEF TakeCoupon, Steps, Transaction, CartLocked
  <2> QED
    BY <2>1, <2>2
<1>12. CASE Complete(r)
  <2>1. PICK o \in Orders, back \in SUBSET Items :
          /\ orderActor' = [orderActor EXCEPT ![o] = {input[r].actor}]
          /\ orderCart' = [orderCart EXCEPT ![o] = {input[r].cart}]
          /\ orderItems' = [orderItems EXCEPT ![o] = read[r]]
          /\ redeemed' \in {redeemed, redeemed \cup {o}}
          /\ keyRows' \in {keyRows, keyRows \cup {[input |-> input[r], order |-> o]}}
          /\ itemCart' = [i \in Items |-> IF i \in back THEN {input[r].cart} ELSE itemCart[i]]
          /\ Answer(r, o)
    BY <1>0, <1>12 DEF Complete, First, NewOrders
  <2>2. RequestsTypeOK' /\ \A q \in Requests : RequestOK(q)'
    BY <1>a, <2>1, IsAnswered
  <2>3. input[r].cart \in Carts
    BY <1>0, <1>12 DEF Complete, Fits, CustomerSteps, CartSteps, CartLocked, Steps
  <2>4. [input |-> input[r], order |-> o] \in KeyRows
    BY <1>0 DEF KeyRows
  <2>5. /\ keyRows' \in SUBSET KeyRows
        /\ redeemed' \in SUBSET Orders
        /\ converted' \in SUBSET Carts
    BY <1>a, <1>12, <2>1, <2>3, <2>4 DEF Complete, RowsTypeOK
  <2>6. /\ orderActor' \in [Orders -> SUBSET Actors]
        /\ orderItems' \in [Orders -> SUBSET Items]
    BY <1>a, <1>0, <2>1 DEF RowsTypeOK
  <2>7. /\ itemCart' \in [Items -> SUBSET Carts]
        /\ orderCart' \in [Orders -> SUBSET Carts]
    BY <1>a, <2>1, <2>3 DEF RowsTypeOK
  <2>8. cartOwner' \in [Carts -> SUBSET Customers]
    BY <1>a, <1>12 DEF Complete, RowsTypeOK
  <2> QED
    BY <1>a, <2>2, <2>5, <2>6, <2>7, <2>8 DEF RowsTypeOK
<1>13. CASE CreatePos(r)
  <2>1. CASE Refuse(r)
    BY <2>1, RefusedType
  <2>2. CASE ~Refuse(r)
    <3>1. PICK o \in Orders :
            /\ orderActor' = [orderActor EXCEPT ![o] = {input[r].actor}]
            /\ keyRows' = keyRows \cup {[input |-> input[r], order |-> o]}
            /\ Answer(r, o)
            /\ UNCHANGED <<cartVars, orderCart, orderItems, redeemed>>
      BY <1>13, <2>2 DEF CreatePos, First, NewOrders
    <3>2. RequestsTypeOK' /\ \A q \in Requests : RequestOK(q)'
      BY <1>a, <3>1, IsAnswered
    <3>3. RowsTypeOK'
      BY <1>a, <1>0, <3>1 DEF RowsTypeOK, KeyRows, cartVars
    <3> QED
      BY <1>a, <3>2, <3>3
  <2> QED
    BY <2>1, <2>2
<1> QED
  BY <1>1, <1>2, <1>3, <1>4, <1>5, <1>6, <1>7, <1>8, <1>9, <1>10, <1>11, <1>12, <1>13
  DEF Handle

LEMMA TypeStep == TypeInv /\ [Next]_vars => TypeInv'
<1> SUFFICES ASSUME TypeInv, [Next]_vars PROVE TypeInv'
  OBVIOUS
<1>1. ASSUME NEW i \in Items, RemoveItem(i) PROVE TypeInv'
  BY <1>1 DEF RemoveItem, TypeInv, RowsTypeOK, RequestsTypeOK, RequestOK, orderVars
<1>2. ASSUME NEW u \in Customers, Clear(u) PROVE TypeInv'
  BY <1>2 DEF Clear, TypeInv, RowsTypeOK, RequestsTypeOK, RequestOK, orderVars
<1>3. ASSUME NEW r \in Requests, Fail(r) PROVE TypeInv'
  BY <1>3, RefusedType DEF Fail
<1>4. CASE UNCHANGED vars
  BY <1>4 DEF vars, cartVars, orderVars, TypeInv, RowsTypeOK, RequestsTypeOK, RequestOK
<1> QED
  BY <1>1, <1>2, <1>3, <1>4, ArriveType, HandleType DEF Next

\* Every request has what its steps rely on, and every row is well typed,
\* for any number of customers, cashiers, requests and rows.
THEOREM CheckoutTypeCorrect == Spec => []TypeOK
<1>1. TypeInv => TypeOK
  BY DEF TypeInv, RowsTypeOK, RequestsTypeOK, TypeOK
<1> QED
  BY <1>1, TypeInit, TypeStep, PTL DEF Spec
-----------------------------------------------------------------------------
(* One order per cart. *)

\* A cart is locked once, and what is locked is open and not empty.
CartLocks ==
  \A r \in Requests : step[r] \in CartLocked =>
    /\ input[r].cart \in ActiveCarts(input[r].actor)
    /\ read[r] # {}
    /\ \A q \in Requests \ {r} : step[q] \in CartLocked => input[q].cart # input[r].cart

\* Nothing refers to an order that has not been placed.
NewRowsAreBlank ==
  \A o \in Orders : orderActor[o] = {} =>
    /\ orderCart[o] = {} /\ orderItems[o] = {} /\ o \notin redeemed
    /\ \A k \in keyRows : k.order # o

\* An item stays in its cart, as its rows, its orders and its readers see it.
ItemsStay ==
  /\ \A o \in Orders : \A i \in orderItems[o] :
       itemCart[i] \in {{}, orderCart[o]} /\ orderCart[o] # {}
  /\ \A r \in Requests : \A i \in read[r] :
       /\ itemCart[i] \in {{}, {input[r].cart}}
       /\ \A o \in Orders : i \in orderItems[o] => orderCart[o] = {input[r].cart}
       /\ \A q \in Requests : i \in read[q] => input[q].cart = input[r].cart

CartInv == /\ CartLocks /\ NewRowsAreBlank /\ ItemsStay
           /\ OneOrderPerCart /\ ConvertedIsOrdered

\* A step of request r leaves the other requests alone.
Others(r) ==
  \A q \in Requests \ {r} : /\ step'[q] = step[q] /\ input'[q] = input[q]
                            /\ read'[q] = read[q] /\ outcome'[q] = outcome[q]

LEMMA OthersWait ==
  ASSUME TypeInv, NEW r \in Requests, Arrive(r) \/ Handle(r) \/ Fail(r)
  PROVE  Others(r)
<1> USE DEF TypeInv, RequestsTypeOK, Others
<1>1. ASSUME NEW s, Go(r, s), UNCHANGED <<input, read, outcome>> PROVE Others(r)
  BY <1>1 DEF Go
<1>2. ASSUME NEW o, Answer(r, o) PROVE Others(r)
  BY <1>2 DEF Answer, Go
<1>3. ASSUME NEW i, NEW s, Enter(r, i, s), NEW R, read' = [read EXCEPT ![r] = R] \/ UNCHANGED read
      PROVE Others(r)
  BY <1>3 DEF Enter, Go
<1>4. ASSUME NEW i, NEW s, LookUpKey(r, i, s) PROVE Others(r)
  <2>1. CASE Enter(r, i, s)
    BY <1>3, <1>4, <2>1 DEF LookUpKey
  <2>2. CASE ~Enter(r, i, s)
    BY <1>4, <2>2 DEF LookUpKey
  <2> QED
    BY <2>1, <2>2
<1>5. Arrive(r) => Others(r)
  BY <1>3, <1>4 DEF Arrive, RequestAdd, ReadItem, RequestReorder, RequestCheckout, RequestPos
<1>6. CreateCart(r) \/ LockCart(r) => Others(r)
  BY <1>2 DEF CreateCart, LockCart, Go, Refuse
<1>7. Begin(r) \/ PriceReorder(r) \/ ReadCart(r) \/ InsertKey(r) \/ Reprice(r) \/ TakeCoupon(r)
      => Others(r)
  BY <1>1, <1>2 DEF Begin, PriceReorder, ReadCart, InsertKey, Reprice, TakeCoupon, Refuse
<1>8. InsertItem(r) \/ SaveItem(r) \/ InsertReorder(r) \/ Complete(r) \/ CreatePos(r) \/ Fail(r)
      => Others(r)
  BY <1>2 DEF InsertItem, SaveItem, InsertReorder, Complete, CreatePos, Fail, Refuse
<1> QED
  BY <1>5, <1>6, <1>7, <1>8 DEF Handle

\* Most steps touch no row and no cart lock, or keep the lock they have.
Leaves(r) == /\ UNCHANGED <<cartVars, orderVars>>
             /\ step'[r] \notin CartLocked /\ read'[r] = {}
Keeps(r) == /\ UNCHANGED <<cartVars, orderVars>>
            /\ step[r] \in CartLocked /\ input'[r] = input[r] /\ read'[r] = read[r]
Locks(r) == LockCart(r) /\ ~Refuse(r)
Creates(r) == CreatePos(r) /\ ~Refuse(r)

LEMMA CartStepKinds ==
  ASSUME TypeInv, NEW r \in Requests, Arrive(r) \/ Handle(r) \/ Fail(r)
  PROVE  \/ Leaves(r) \/ Keeps(r) \/ Locks(r) \/ Complete(r) \/ Creates(r)
         \/ ReadItem(r) \/ CreateCart(r) \/ InsertItem(r) \/ SaveItem(r) \/ InsertReorder(r)
<1>0. read[r] # {} => step[r] \in {"save_item"} \cup CartLocked
  BY AtStep DEF Fits
<1>t. step \in [Requests -> Steps] /\ read \in [Requests -> SUBSET Items]
  BY DEF TypeInv, RequestsTypeOK
<1>1. ASSUME NEW o, Answer(r, o), UNCHANGED <<cartVars, orderVars>> PROVE Leaves(r)
  BY <1>1, <1>t DEF Leaves, Answer, Go, CartLocked
<1>2. Refuse(r) => Leaves(r)
  BY <1>1 DEF Refuse
<1>3. ASSUME NEW i, NEW s, LookUpKey(r, i, s), s \notin CartLocked PROVE Leaves(r)
  <2>1. CASE Enter(r, i, s)
    BY <1>0, <1>3, <1>t, <2>1 DEF LookUpKey, Enter, Go, Leaves, CartLocked
  <2>2. CASE ~Enter(r, i, s)
    BY <1>0, <1>3, <1>t, <2>2 DEF LookUpKey, Leaves, CartLocked
  <2> QED
    BY <2>1, <2>2
<1>4. Arrive(r) => Leaves(r) \/ ReadItem(r)
  <2>1. RequestAdd(r) \/ RequestReorder(r) => Leaves(r)
    BY <1>0, <1>t DEF RequestAdd, RequestReorder, Enter, Go, Leaves, CartLocked
  <2>2. RequestCheckout(r) \/ RequestPos(r) => Leaves(r)
    BY <1>3 DEF RequestCheckout, RequestPos, CartLocked
  <2> QED
    BY <2>1, <2>2 DEF Arrive
<1>5. Begin(r) => Leaves(r)
  <2>1. ASSUME Begin(r) PROVE Begun(r) \notin CartLocked /\ read[r] = {}
    BY <1>0, <2>1 DEF Begin, Begun, CartLocked
  <2> QED
    BY <1>t, <2>1 DEF Begin, Go, Leaves
<1>6. PriceReorder(r) => Leaves(r)
  BY <1>0, <1>t DEF PriceReorder, Go, Leaves, CartLocked
<1>7. ReadCart(r) \/ InsertKey(r) => Leaves(r)
  BY <1>0, <1>1, <1>2, <1>t DEF ReadCart, InsertKey, Go, Leaves, CartLocked
<1>8. Reprice(r) \/ TakeCoupon(r) => Leaves(r) \/ Keeps(r)
  BY <1>2 DEF Reprice, TakeCoupon, Keeps, CartLocked
<1>9. Fail(r) => Leaves(r)
  BY <1>2 DEF Fail
<1> QED
  BY <1>2, <1>4, <1>5, <1>6, <1>7, <1>8, <1>9 DEF Handle, Locks, Creates

LEMMA CartInit == Init => CartInv
  BY DEF Init, CartInv, CartLocks, NewRowsAreBlank, ItemsStay, OneOrderPerCart,
     ConvertedIsOrdered, CartLocked

\* Order rows and their carts speak of nothing else.
LEMMA OrdersAlone ==
  ASSUME OneOrderPerCart, ConvertedIsOrdered, NewRowsAreBlank,
         UNCHANGED <<converted, orderVars>>, \A o \in Orders : \A c \in orderCart[o] : cartOwner'[c] = cartOwner[c]
  PROVE  OneOrderPerCart' /\ ConvertedIsOrdered' /\ NewRowsAreBlank'
  BY DEF OneOrderPerCart, ConvertedIsOrdered, NewRowsAreBlank, orderVars

LEMMA LocksAlone ==
  ASSUME CartLocks, NEW r \in Requests, Others(r), UNCHANGED converted,
         \A u \in Customers : ActiveCarts(u) \subseteq ActiveCarts(u)',
         \A q \in Requests : step[q] \in CartLocked => input[q].actor \in Customers,
         step'[r] \notin CartLocked \/ Keeps(r)
  PROVE  CartLocks'
<1> SUFFICES ASSUME NEW p \in Requests, step'[p] \in CartLocked
             PROVE  (/\ input[p].cart \in ActiveCarts(input[p].actor)
                     /\ read[p] # {}
                     /\ \A q \in Requests \ {p} :
                          step[q] \in CartLocked => input[q].cart # input[p].cart)'
  BY DEF CartLocks
<1>1. \A q \in Requests : step'[q] \in CartLocked =>
        step[q] \in CartLocked /\ input'[q] = input[q] /\ read'[q] = read[q]
  BY DEF Others, Keeps
<1> QED
  BY <1>1 DEF CartLocks

\* Reads and items, when readers only go and rows only come back to their carts.
LEMMA ItemsAlone ==
  ASSUME ItemsStay, NEW r \in Requests, Others(r),
         itemCart \in [Items -> SUBSET Carts], read \in [Requests -> SUBSET Items],
         orderItems \in [Orders -> SUBSET Items],
         UNCHANGED orderVars,
         \/ read'[r] = {}
         \/ read'[r] = read[r] /\ input'[r] = input[r],
         \A i \in Items : itemCart'[i] \in {{}, itemCart[i]}
  PROVE  ItemsStay'
<1>1. \A q \in Requests : read'[q] = {} \/ (read'[q] = read[q] /\ input'[q] = input[q])
  BY DEF Others
<1>2. ASSUME NEW o \in Orders, NEW i \in orderItems'[o]
      PROVE  itemCart'[i] \in {{}, orderCart'[o]} /\ orderCart'[o] # {}
  BY <1>2 DEF ItemsStay, orderVars
<1>3. ASSUME NEW q \in Requests, NEW i \in read'[q]
      PROVE  /\ itemCart'[i] \in {{}, {input'[q].cart}}
             /\ \A o \in Orders : i \in orderItems'[o] => orderCart'[o] = {input'[q].cart}
             /\ \A p \in Requests : i \in read'[p] => input'[p].cart = input'[q].cart
  BY <1>1, <1>3 DEF ItemsStay, orderVars
<1> QED
  BY <1>2, <1>3 DEF ItemsStay

LEMMA CartLeaves ==
  ASSUME TypeInv, CartInv, NEW r \in Requests, Others(r), Leaves(r) \/ Keeps(r)
  PROVE  CartInv'
<1>1. UNCHANGED <<cartOwner, converted, itemCart, orderVars>>
  BY DEF Leaves, Keeps, cartVars
<1>2. \A u \in Customers : ActiveCarts(u)' = ActiveCarts(u)
  BY <1>1 DEF ActiveCarts
<1>3. \A q \in Requests : step[q] \in CartLocked => input[q].actor \in Customers
  BY AtStep DEF Fits, CustomerSteps, CartLocked, Steps, Transaction
<1>4. CartLocks'
  BY <1>1, <1>2, <1>3, LocksAlone DEF CartInv, Leaves
<1>5. ItemsStay'
  BY <1>1, ItemsAlone DEF CartInv, TypeInv, RowsTypeOK, RequestsTypeOK, Leaves, Keeps
<1>6. OneOrderPerCart' /\ ConvertedIsOrdered' /\ NewRowsAreBlank'
  BY <1>1, OrdersAlone DEF CartInv
<1> QED
  BY <1>4, <1>5, <1>6 DEF CartInv

\* Steps of CartsService: the orders stay as they are.
LEMMA CartEdited ==
  ASSUME TypeInv, CartInv, NEW r \in Requests, Others(r),
         \/ ReadItem(r) \/ CreateCart(r) \/ InsertItem(r) \/ SaveItem(r) \/ InsertReorder(r)
  PROVE  CartInv'
<1>0. /\ input[r] \in Inputs /\ read[r] \in SUBSET Items
      /\ Fits(step[r], input[r], read[r], outcome[r]) /\ step[r] \in Steps
  BY AtStep
<1>t. /\ step \in [Requests -> Steps] /\ read \in [Requests -> SUBSET Items]
      /\ input \in [Requests -> Inputs]
      /\ cartOwner \in [Carts -> SUBSET Customers]
      /\ itemCart \in [Items -> SUBSET Carts] /\ orderItems \in [Orders -> SUBSET Items]
      /\ orderCart \in [Orders -> SUBSET Carts] /\ orderActor \in [Orders -> SUBSET Actors]
  BY DEF TypeInv, RowsTypeOK, RequestsTypeOK
<1>c. \A q \in Requests : step[q] \in CartLocked => input[q].actor \in Customers
  BY AtStep DEF Fits, CustomerSteps, CartLocked, Steps, Transaction
<1>o. \A o \in Orders : \A c \in orderCart[o] : c \in Carts /\ cartOwner[c] = orderActor[o]
  BY <1>t DEF CartInv, ConvertedIsOrdered
<1>p. \A o \in Orders : \A c \in orderCart[o] : cartOwner[c] # {}
  BY <1>o DEF CartInv, NewRowsAreBlank
<1>1. CASE ReadItem(r)
  <2>1. PICK x \in Inputs, i \in Items :
          /\ itemCart[i] = {x.cart} /\ x.cart \in Carts
          /\ input' = [input EXCEPT ![r] = x] /\ step' = [step EXCEPT ![r] = "save_item"]
          /\ read' = [read EXCEPT ![r] = {i}] /\ UNCHANGED <<cartVars, orderVars>>
    BY <1>1 DEF ReadItem, Enter, Go
  <2>2. CartLocks'
    BY <1>c, <1>t, <2>1, LocksAlone DEF CartInv, cartVars, CartLocked, ActiveCarts
  <2>3. OneOrderPerCart' /\ ConvertedIsOrdered' /\ NewRowsAreBlank'
    BY <2>1, OrdersAlone DEF CartInv, cartVars
  <2>4. /\ input'[r] = x /\ read'[r] = {i}
        /\ \A q \in Requests \ {r} : input'[q] = input[q] /\ read'[q] = read[q]
    BY <1>t, <2>1
  <2>5. \A q \in Requests : i \in read[q] => input[q].cart = x.cart
    BY <2>1 DEF CartInv, ItemsStay
  <2>6. \A o \in Orders : i \in orderItems[o] => orderCart[o] = {x.cart}
    BY <2>1 DEF CartInv, ItemsStay
  <2>7. ASSUME NEW q \in Requests, NEW j \in read'[q]
        PROVE  /\ itemCart'[j] \in {{}, {input'[q].cart}}
               /\ \A o \in Orders : j \in orderItems'[o] => orderCart'[o] = {input'[q].cart}
               /\ \A p \in Requests : j \in read'[p] => input'[p].cart = input'[q].cart
    <3>1. CASE q = r
      BY <2>1, <2>4, <2>5, <2>6, <2>7, <3>1 DEF cartVars, orderVars
    <3>2. CASE q # r
      <4>1. j \in read[q] /\ input'[q] = input[q]
        BY <2>4, <2>7, <3>2
      <4> QED
        BY <2>1, <2>4, <2>5, <4>1 DEF cartVars, orderVars, CartInv, ItemsStay
    <3> QED
      BY <3>1, <3>2
  <2>8. ItemsStay'
    BY <2>1, <2>7 DEF CartInv, ItemsStay, cartVars, orderVars
  <2> QED
    BY <2>2, <2>3, <2>8 DEF CartInv
<1>2. CASE CreateCart(r)
  <2>1. PICK c \in NewCarts :
          /\ cartOwner' = [cartOwner EXCEPT ![c] = {input[r].actor}]
          /\ step' = [step EXCEPT ![r] = "add_item"]
          /\ UNCHANGED <<converted, itemCart, orderVars, read, outcome>>
    BY <1>2 DEF CreateCart, First, Go
  <2>2. \A d \in Carts : cartOwner[d] # {} => cartOwner'[d] = cartOwner[d]
    BY <1>t, <2>1 DEF NewCarts
  <2>3. CartLocks'
    <3>1. \A u \in Customers : ActiveCarts(u) \subseteq ActiveCarts(u)'
      BY <2>1, <2>2 DEF ActiveCarts
    <3> QED
      BY <1>c, <1>t, <2>1, <3>1, LocksAlone DEF CartInv, CartLocked
  <2>4. OneOrderPerCart' /\ ConvertedIsOrdered' /\ NewRowsAreBlank'
    BY <1>o, <1>p, <2>1, <2>2, OrdersAlone DEF CartInv
  <2>5. read[r] = {}
    BY <1>0, <1>2 DEF CreateCart, Fits, CartLocked
  <2>6. ItemsStay'
    BY <1>t, <2>1, <2>5, ItemsAlone DEF CartInv
  <2> QED
    BY <2>3, <2>4, <2>6 DEF CartInv
\* A new item in cart c, whose row nobody has seen.
<1>3. ASSUME NEW i \in NewItems, NEW c \in Carts, itemCart' = [itemCart EXCEPT ![i] = {c}],
             read'[r] = {}, UNCHANGED orderVars
      PROVE  ItemsStay'
  <2>1. /\ \A q \in Requests : i \notin read[q]
        /\ \A o \in Orders : i \notin orderItems[o]
    BY <1>3 DEF NewItems
  <2>2. \A j \in Items : j # i => itemCart'[j] = itemCart[j]
    BY <1>3, <1>t
  <2>3. \A q \in Requests : read'[q] = {} \/ (read'[q] = read[q] /\ input'[q] = input[q])
    BY <1>3 DEF Others
  <2>4. ASSUME NEW o \in Orders, NEW j \in orderItems'[o]
        PROVE  itemCart'[j] \in {{}, orderCart'[o]} /\ orderCart'[o] # {}
    <3>1. j \in orderItems[o] /\ j # i /\ j \in Items
      BY <1>3, <1>t, <2>1, <2>4 DEF orderVars
    <3> QED
      BY <1>3, <2>2, <3>1 DEF CartInv, ItemsStay, orderVars
  <2>5. ASSUME NEW q \in Requests, NEW j \in read'[q]
        PROVE  /\ itemCart'[j] \in {{}, {input'[q].cart}}
               /\ \A o \in Orders : j \in orderItems'[o] => orderCart'[o] = {input'[q].cart}
               /\ \A p \in Requests : j \in read'[p] => input'[p].cart = input'[q].cart
    <3>1. j \in read[q] /\ j # i /\ j \in Items /\ input'[q] = input[q]
      BY <1>t, <2>1, <2>3, <2>5
    <3> QED
      BY <1>3, <2>2, <2>3, <3>1 DEF CartInv, ItemsStay, orderVars
  <2> QED
    BY <2>4, <2>5 DEF ItemsStay
<1>4. ASSUME NEW o, Answer(r, o) PROVE step'[r] = "idle" /\ read'[r] = {}
  BY <1>4, <1>t DEF Answer, Go
<1>5. CASE InsertItem(r)
  <2>1. PICK i \in NewItems : itemCart' = [itemCart EXCEPT ![i] = {input[r].cart}]
    BY <1>5 DEF InsertItem, First
  <2>2. input[r].cart \in Carts
    BY <1>0, <1>5 DEF InsertItem, Fits, CartSteps
  <2>3. /\ step'[r] = "idle" /\ read'[r] = {}
        /\ UNCHANGED <<cartOwner, converted, orderVars>>
    BY <1>4, <1>5 DEF InsertItem
  <2>4. ItemsStay'
    BY <1>3, <2>1, <2>2, <2>3
  <2>5. CartLocks'
    BY <1>c, <2>3, LocksAlone DEF CartInv, CartLocked, ActiveCarts
  <2> QED
    BY <2>3, <2>4, <2>5, OrdersAlone DEF CartInv
<1>6. CASE SaveItem(r)
  <2>1. /\ itemCart' = [i \in Items |-> IF i \in read[r] THEN {input[r].cart} ELSE itemCart[i]]
        /\ step'[r] = "idle" /\ read'[r] = {}
        /\ UNCHANGED <<cartOwner, converted, orderVars>>
    BY <1>4, <1>6 DEF SaveItem
  <2>2. CartLocks'
    BY <1>c, <2>1, LocksAlone DEF CartInv, CartLocked, ActiveCarts
  <2>3. \A q \in Requests : read'[q] = {} \/ (read'[q] = read[q] /\ input'[q] = input[q])
    BY <2>1 DEF Others
  <2>4. ASSUME NEW o \in Orders, NEW j \in orderItems'[o]
        PROVE  itemCart'[j] \in {{}, orderCart'[o]} /\ orderCart'[o] # {}
    <3>1. j \in orderItems[o] /\ j \in Items
      BY <1>t, <2>1, <2>4 DEF orderVars
    <3> QED
      BY <2>1, <3>1 DEF CartInv, ItemsStay, orderVars
  <2>5. ASSUME NEW q \in Requests, NEW j \in read'[q]
        PROVE  /\ itemCart'[j] \in {{}, {input'[q].cart}}
               /\ \A o \in Orders : j \in orderItems'[o] => orderCart'[o] = {input'[q].cart}
               /\ \A p \in Requests : j \in read'[p] => input'[p].cart = input'[q].cart
    <3>1. j \in read[q] /\ j \in Items /\ input'[q] = input[q]
      BY <1>t, <2>3, <2>5
    <3> QED
      BY <2>1, <2>3, <3>1 DEF CartInv, ItemsStay, orderVars
  <2>6. ItemsStay'
    BY <2>4, <2>5 DEF ItemsStay
  <2> QED
    BY <2>1, <2>2, <2>6, OrdersAlone DEF CartInv
<1>7. CASE InsertReorder(r)
  <2>1. PICK c \in Carts, i \in NewItems :
          /\ c \in NewCarts \/ cartOwner[c] = {input[r].actor}
          /\ cartOwner' = [cartOwner EXCEPT ![c] = {input[r].actor}]
          /\ itemCart' = [itemCart EXCEPT ![i] = {c}]
    BY <1>7 DEF InsertReorder, First, NewCarts, ActiveCarts
  <2>2. /\ step'[r] = "idle" /\ read'[r] = {} /\ UNCHANGED <<converted, orderVars>>
    BY <1>4, <1>7 DEF InsertReorder
  <2>3. \A d \in Carts : cartOwner[d] # {} => cartOwner'[d] = cartOwner[d]
    BY <1>t, <2>1 DEF NewCarts
  <2>4. CartLocks'
    <3>1. \A u \in Customers : ActiveCarts(u) \subseteq ActiveCarts(u)'
      BY <2>2, <2>3 DEF ActiveCarts
    <3> QED
      BY <1>c, <2>2, <3>1, LocksAlone DEF CartInv, CartLocked
  <2>5. OneOrderPerCart' /\ ConvertedIsOrdered' /\ NewRowsAreBlank'
    BY <1>o, <1>p, <2>2, <2>3, OrdersAlone DEF CartInv
  <2>6. ItemsStay'
    BY <1>3, <2>1, <2>2
  <2> QED
    BY <2>4, <2>5, <2>6 DEF CartInv
<1> QED
  BY <1>1, <1>2, <1>5, <1>6, <1>7

LEMMA CartIsLocked ==
  ASSUME TypeInv, CartInv, NEW r \in Requests, Others(r), Locks(r)
  PROVE  CartInv'
<1> DEFINE c == input[r].cart
<1>t. step \in [Requests -> Steps] /\ read \in [Requests -> SUBSET Items]
  BY DEF TypeInv, RequestsTypeOK
<1>1. /\ c \in ActiveCarts(input[r].actor) /\ ItemsOf(c) # {} /\ ~CartHeld(r, c)
      /\ read'[r] = ItemsOf(c) /\ step'[r] = "reprice"
      /\ UNCHANGED <<cartOwner, converted, itemCart, orderVars, input>>
  BY <1>t DEF Locks, LockCart, Go, cartVars
<1>2. \A u \in Actors : ActiveCarts(u)' = ActiveCarts(u)
  BY <1>1 DEF ActiveCarts
<1>3. CartLocks'
  <2> SUFFICES ASSUME NEW p \in Requests, step'[p] \in CartLocked
               PROVE  (/\ input[p].cart \in ActiveCarts(input[p].actor)
                       /\ read[p] # {}
                       /\ \A q \in Requests \ {p} :
                            step[q] \in CartLocked => input[q].cart # input[p].cart)'
    BY DEF CartLocks
  <2>1. \A q \in Requests \ {r} : step[q] \in CartLocked => input[q].cart # c
    BY <1>1 DEF CartHeld
  <2>2. \A q \in Requests : ActiveCarts(input[q].actor)' = ActiveCarts(input[q].actor)
    BY <1>1 DEF ActiveCarts
  <2>3. CASE p = r
    BY <1>1, <2>1, <2>2, <2>3 DEF Others
  <2>4. CASE p # r
    <3>1. step[p] \in CartLocked /\ read'[p] = read[p]
      BY <2>4 DEF Others
    <3>2. ASSUME NEW q \in Requests \ {p}, step'[q] \in CartLocked
          PROVE  input[q].cart # input[p].cart
      BY <2>1, <2>4, <3>1, <3>2 DEF Others, CartInv, CartLocks
    <3> QED
      BY <1>1, <2>2, <3>1, <3>2 DEF CartInv, CartLocks
  <2> QED
    BY <2>3, <2>4
<1>4. ItemsStay'
  <2>1. \A i \in read'[r] : i \in Items /\ itemCart[i] = {c}
    BY <1>1 DEF ItemsOf
  <2>2. \A i \in read'[r] : \A o \in Orders : i \in orderItems[o] => orderCart[o] = {c}
    BY <2>1 DEF CartInv, ItemsStay
  <2>3. \A i \in read'[r] : \A q \in Requests : i \in read[q] => input[q].cart = c
    BY <2>1 DEF CartInv, ItemsStay
  <2>4. ASSUME NEW q \in Requests, NEW i \in read'[q]
        PROVE  /\ itemCart[i] \in {{}, {input[q].cart}}
               /\ \A o \in Orders : i \in orderItems[o] => orderCart[o] = {input[q].cart}
               /\ \A p \in Requests : i \in read'[p] => input[p].cart = input[q].cart
    <3>1. CASE q = r
      BY <2>1, <2>2, <2>3, <2>4, <3>1 DEF Others
    <3>2. CASE q # r
      <4>1. i \in read[q]
        BY <2>4, <3>2 DEF Others
      <4> QED
        BY <2>3, <3>2, <4>1 DEF Others, CartInv, ItemsStay
    <3> QED
      BY <3>1, <3>2
  <2> QED
    BY <1>1, <2>4 DEF CartInv, ItemsStay, orderVars
<1> QED
  BY <1>1, <1>3, <1>4, OrdersAlone DEF CartInv

LEMMA CartIsOrdered ==
  ASSUME TypeInv, CartInv, NEW r \in Requests, Others(r), Complete(r)
  PROVE  CartInv'
<1> DEFINE c == input[r].cart
<1>t. /\ step \in [Requests -> Steps] /\ read \in [Requests -> SUBSET Items]
      /\ orderActor \in [Orders -> SUBSET Actors] /\ orderCart \in [Orders -> SUBSET Carts]
      /\ orderItems \in [Orders -> SUBSET Items] /\ itemCart \in [Items -> SUBSET Carts]
  BY DEF TypeInv, RowsTypeOK, RequestsTypeOK
<1>0. PICK o \in First(NewOrders), back \in SUBSET read[r] :
        /\ orderActor' = [orderActor EXCEPT ![o] = {input[r].actor}]
        /\ orderCart' = [orderCart EXCEPT ![o] = {c}]
        /\ orderItems' = [orderItems EXCEPT ![o] = read[r]]
        /\ redeemed' = IF input[r].body \in CouponBodies THEN redeemed \cup {o} ELSE redeemed
        /\ keyRows' = IF input[r].key = NoKey THEN keyRows
                      ELSE keyRows \cup {[input |-> input[r], order |-> o]}
        /\ itemCart' = [i \in Items |-> IF i \in back THEN {c} ELSE itemCart[i]]
        /\ Answer(r, o)
  BY Zenon DEF Complete
<1>1. /\ o \in NewOrders
      /\ redeemed' \subseteq redeemed \cup {o}
      /\ \A k \in keyRows' : k \in keyRows \/ k.order = o
      /\ step'[r] = "idle" /\ read'[r] = {}
  <2>1. o \in NewOrders /\ redeemed' \subseteq redeemed \cup {o}
    BY <1>0 DEF First
  <2>2. \A k \in keyRows' : k \in keyRows \/ k.order = o
    BY <1>0
  <2>3. step'[r] = "idle" /\ read'[r] = {}
    BY <1>0, <1>t DEF Answer, Go
  <2> QED
    BY <2>1, <2>2, <2>3
<1>2. /\ step[r] \in CartLocked
      /\ converted' = converted \cup {c} /\ cartOwner' = cartOwner
  BY DEF Complete, CartLocked
<1>3. /\ c \in Carts /\ c \notin converted /\ cartOwner[c] = {input[r].actor} /\ read[r] # {}
  BY <1>2 DEF CartInv, CartLocks, ActiveCarts
<1>4. o \in Orders /\ orderActor[o] = {} /\ orderCart[o] = {} /\ orderItems[o] = {}
  BY <1>1 DEF NewOrders, CartInv, NewRowsAreBlank
<1>5. /\ orderActor'[o] = {input[r].actor} /\ orderCart'[o] = {c} /\ orderItems'[o] = read[r]
      /\ \A p \in Orders \ {o} : /\ orderActor'[p] = orderActor[p]
                                 /\ orderCart'[p] = orderCart[p] /\ orderItems'[p] = orderItems[p]
  BY <1>t, <1>0, <1>1, <1>4
<1>6. \A p \in Orders : c \notin orderCart[p]
  BY <1>3 DEF CartInv, ConvertedIsOrdered
<1>7. \A p \in Orders : orderItems[p] \cap read[r] = {}
  BY <1>6 DEF CartInv, ItemsStay
<1>8. CartLocks'
  <2> SUFFICES ASSUME NEW p \in Requests, step'[p] \in CartLocked
               PROVE  (/\ input[p].cart \in ActiveCarts(input[p].actor)
                       /\ read[p] # {}
                       /\ \A q \in Requests \ {p} :
                            step[q] \in CartLocked => input[q].cart # input[p].cart)'
    BY DEF CartLocks
  <2>1. \A q \in Requests : step'[q] \in CartLocked =>
          /\ step[q] \in CartLocked /\ input'[q] = input[q] /\ read'[q] = read[q]
          /\ input[q].cart # c
    BY <1>1, <1>2 DEF Others, CartLocked, CartInv, CartLocks
  <2>2. input[p].cart \in ActiveCarts(input[p].actor) /\ read[p] # {}
    BY <2>1 DEF CartInv, CartLocks
  <2>3. (input[p].cart \in ActiveCarts(input[p].actor))'
    BY <1>2, <2>1, <2>2 DEF ActiveCarts
  <2> QED
    BY <2>1, <2>2, <2>3 DEF CartInv, CartLocks
<1>9. NewRowsAreBlank'
  <2> SUFFICES ASSUME NEW p \in Orders, orderActor'[p] = {}
               PROVE  /\ orderCart'[p] = {} /\ orderItems'[p] = {} /\ p \notin redeemed'
                      /\ \A k \in keyRows' : k.order # p
    BY DEF NewRowsAreBlank
  <2>1. p # o /\ orderActor[p] = {}
    BY <1>5
  <2> QED
    BY <1>1, <1>5, <2>1 DEF CartInv, NewRowsAreBlank
<1>10. OneOrderPerCart'
  BY <1>5, <1>6, <1>7 DEF CartInv, OneOrderPerCart
<1>11. ConvertedIsOrdered'
  <2>1. converted' = UNION {orderCart'[p] : p \in Orders}
    <3>1. converted = UNION {orderCart[p] : p \in Orders}
      BY DEF CartInv, ConvertedIsOrdered
    <3>2. \A d : d \in converted' <=> \E p \in Orders : d \in orderCart'[p]
      BY <1>2, <1>4, <1>5, <3>1
    <3> QED
      BY <3>2
  <2>2. \A p \in Orders : \A d \in orderCart'[p] :
          orderActor'[p] = cartOwner'[d] /\ orderItems'[p] # {}
    BY <1>2, <1>3, <1>5 DEF CartInv, ConvertedIsOrdered
  <2> QED
    BY <2>1, <2>2 DEF ConvertedIsOrdered
<1>12. ItemsStay'
  <2>1. \A i \in read[r] : itemCart[i] \in {{}, {c}} /\ i \in Items
    BY <1>t DEF CartInv, ItemsStay
  <2>2. \A i \in Items : itemCart'[i] = itemCart[i] \/ (i \in read[r] /\ itemCart'[i] = {c})
    BY <1>0
  <2>3. ASSUME NEW p \in Orders, NEW i \in orderItems'[p]
        PROVE  itemCart'[i] \in {{}, orderCart'[p]} /\ orderCart'[p] # {}
    <3>1. CASE p = o
      BY <1>5, <2>1, <2>2, <2>3, <3>1
    <3>2. CASE p # o
      <4>1. i \in orderItems[p] /\ i \in Items /\ i \notin read[r]
        BY <1>t, <1>5, <1>7, <2>3, <3>2
      <4> QED
        BY <1>5, <2>2, <3>2, <4>1 DEF CartInv, ItemsStay
    <3> QED
      BY <3>1, <3>2
  <2>4. ASSUME NEW q \in Requests, NEW i \in read'[q]
        PROVE  /\ itemCart'[i] \in {{}, {input'[q].cart}}
               /\ \A p \in Orders : i \in orderItems'[p] => orderCart'[p] = {input'[q].cart}
               /\ \A p \in Requests : i \in read'[p] => input'[p].cart = input'[q].cart
    <3>1. /\ q # r /\ i \in read[q] /\ input'[q] = input[q] /\ i \in Items
      BY <1>1, <1>t, <2>4 DEF Others
    <3>2. i \in read[r] => input[q].cart = c
      BY <3>1 DEF CartInv, ItemsStay
    <3>3. itemCart'[i] \in {{}, {input'[q].cart}}
      BY <2>2, <3>1, <3>2 DEF CartInv, ItemsStay
    <3>4. \A p \in Orders : i \in orderItems'[p] => orderCart'[p] = {input'[q].cart}
      BY <1>5, <3>1, <3>2 DEF CartInv, ItemsStay
    <3>5. \A p \in Requests : i \in read'[p] => input'[p].cart = input'[q].cart
      BY <1>1, <3>1 DEF Others, CartInv, ItemsStay
    <3> QED
      BY <3>3, <3>4, <3>5
  <2> QED
    BY <2>3, <2>4 DEF ItemsStay
<1> QED
  BY <1>8, <1>9, <1>10, <1>11, <1>12 DEF CartInv

LEMMA PosIsOrdered ==
  ASSUME TypeInv, CartInv, NEW r \in Requests, Others(r), Creates(r)
  PROVE  CartInv'
<1>t. /\ step \in [Requests -> Steps] /\ read \in [Requests -> SUBSET Items]
      /\ orderActor \in [Orders -> SUBSET Actors]
  BY DEF TypeInv, RowsTypeOK, RequestsTypeOK
<1>0. PICK o \in First(NewOrders) :
        /\ orderActor' = [orderActor EXCEPT ![o] = {input[r].actor}]
        /\ keyRows' = keyRows \cup {[input |-> input[r], order |-> o]}
        /\ Answer(r, o)
        /\ UNCHANGED <<cartVars, orderCart, orderItems, redeemed>>
  BY Zenon DEF Creates, CreatePos
<1>1. /\ o \in Orders /\ orderActor[o] = {} /\ orderCart[o] = {} /\ orderItems[o] = {}
  BY DEF First, NewOrders, CartInv, NewRowsAreBlank
<1>2. /\ orderActor'[o] = {input[r].actor}
      /\ \A p \in Orders \ {o} : orderActor'[p] = orderActor[p]
  BY <1>0, <1>1, <1>t
<1>3. step'[r] = "idle" /\ read'[r] = {}
  BY <1>0, <1>t DEF Answer, Go
<1>4. UNCHANGED <<cartOwner, converted, itemCart, orderCart, orderItems, redeemed>>
  BY <1>0 DEF cartVars
<1>5. \A q \in Requests : step[q] \in CartLocked => input[q].actor \in Customers
  BY AtStep DEF Fits, CustomerSteps, CartLocked, Steps, Transaction
<1>6. CartLocks'
  <2>1. \A u \in Customers : ActiveCarts(u) \subseteq ActiveCarts(u)'
    BY <1>4 DEF ActiveCarts
  <2> QED
    BY <1>3, <1>4, <1>5, <2>1, LocksAlone DEF CartInv, CartLocked
<1>7. NewRowsAreBlank'
  <2>1. \A k \in keyRows' : k \in keyRows \/ k.order = o
    BY <1>0
  <2> SUFFICES ASSUME NEW p \in Orders, orderActor'[p] = {}
               PROVE  /\ orderCart'[p] = {} /\ orderItems'[p] = {} /\ p \notin redeemed'
                      /\ \A k \in keyRows' : k.order # p
    BY DEF NewRowsAreBlank
  <2>2. p # o /\ orderActor[p] = {}
    BY <1>2
  <2> QED
    BY <1>4, <2>1, <2>2 DEF CartInv, NewRowsAreBlank
<1>8. OneOrderPerCart' /\ ConvertedIsOrdered'
  BY <1>1, <1>2, <1>4 DEF CartInv, OneOrderPerCart, ConvertedIsOrdered
<1>9. ItemsStay'
  BY <1>3, <1>4 DEF Others, CartInv, ItemsStay
<1> QED
  BY <1>6, <1>7, <1>8, <1>9 DEF CartInv

\* Rows that vanish disturb nobody.
LEMMA ItemsVanish ==
  ASSUME TypeInv, CartInv, \A i \in Items : itemCart'[i] \in {{}, itemCart[i]},
         UNCHANGED <<cartOwner, converted, orderVars, step, input, read, outcome>>
  PROVE  CartInv'
<1>1. CartLocks'
  BY DEF CartInv, CartLocks, ActiveCarts
<1>2. ItemsStay'
  BY DEF CartInv, ItemsStay, orderVars, TypeInv, RowsTypeOK, RequestsTypeOK
<1> QED
  BY <1>1, <1>2, OrdersAlone DEF CartInv

LEMMA CartStep == TypeInv /\ CartInv /\ [Next]_vars => CartInv'
<1> SUFFICES ASSUME TypeInv, CartInv, [Next]_vars PROVE CartInv'
  OBVIOUS
<1>1. ASSUME NEW r \in Requests, Arrive(r) \/ Handle(r) \/ Fail(r) PROVE CartInv'
  BY <1>1, OthersWait, CartStepKinds, CartLeaves, CartIsLocked, CartIsOrdered, PosIsOrdered,
     CartEdited
<1>2. ASSUME NEW j \in Items, RemoveItem(j) PROVE CartInv'
  <2>1. \A i \in Items : itemCart'[i] \in {{}, itemCart[i]}
    BY <1>2 DEF RemoveItem, TypeInv, RowsTypeOK
  <2> QED
    BY <1>2, <2>1, ItemsVanish DEF RemoveItem
<1>3. ASSUME NEW u \in Customers, Clear(u) PROVE CartInv'
  BY <1>3, ItemsVanish DEF Clear
<1>4. CASE UNCHANGED vars
  BY <1>4, ItemsVanish DEF vars, cartVars
<1> QED
  BY <1>1, <1>2, <1>3, <1>4 DEF Next

\* No cart and no item is sold twice, however requests overlap.
THEOREM OneOrderCorrect == Spec => []OneOrderPerCart
<1>1. CartInv => OneOrderPerCart
  BY DEF CartInv
<1> QED
  BY <1>1, TypeInit, CartInit, TypeStep, CartStep, PTL DEF Spec

\* A cart is closed exactly when it has become an order of its owner.
THEOREM ConvertedCorrect == Spec => []ConvertedIsOrdered
<1>1. CartInv => ConvertedIsOrdered
  BY DEF CartInv
<1> QED
  BY <1>1, TypeInit, CartInit, TypeStep, CartStep, PTL DEF Spec
-----------------------------------------------------------------------------
(* One order per idempotency key. *)

HoldsKey(r) == step[r] \in {"lock_cart"} \cup CartLocked /\ input[r].key # NoKey

\* A key is held once, and what is held has no row yet.
KeyLocks ==
  \A r \in Requests : HoldsKey(r) =>
    /\ SameKey(input[r]) = {}
    /\ \A q \in Requests \ {r} :
         HoldsKey(q) => input[q].actor # input[r].actor \/ input[q].key # input[r].key

KeyInv == KeyLocks /\ OneOrderPerKey /\ \A k \in keyRows : k.input.key # NoKey

\* The answer of a request is the order of its key.
Answers(r) == outcome[r] # 0 => [input |-> input[r], order |-> outcome[r]] \in keyRows

LEMMA KeyInit == Init => KeyInv
  BY DEF Init, KeyInv, KeyLocks, HoldsKey, OneOrderPerKey, CartLocked

\* Most steps take no key and answer with what the key row says.
KeyStays(r) == /\ UNCHANGED <<keyRows, orderActor>>
               /\ HoldsKey(r)' => HoldsKey(r) /\ input'[r] = input[r]
               /\ Answers(r)'
TakesKey(r) == /\ step[r] = "insert_key" /\ ~KeyHeld(r) /\ SameKey(input[r]) = {}
               /\ Go(r, "lock_cart")
               /\ UNCHANGED <<cartVars, orderVars, input, read, outcome>>

LEMMA ReplayedIsStored ==
  ASSUME TypeInv, NEW i \in Inputs, NEW o \in Replayed(i)
  PROVE  [input |-> i, order |-> o] \in keyRows
<1>1. PICK k \in keyRows : k.input = i /\ k.order = o
  BY DEF Replayed, SameKey
<1>2. k = [input |-> k.input, order |-> k.order]
  BY DEF TypeInv, RowsTypeOK, KeyRows
<1> QED
  BY <1>1, <1>2

LEMMA KeySteps ==
  ASSUME TypeInv, KeyInv, NEW r \in Requests, Arrive(r) \/ Handle(r) \/ Fail(r)
  PROVE  KeyStays(r) \/ TakesKey(r) \/ Complete(r) \/ Creates(r)
<1>t. /\ step \in [Requests -> Steps] /\ input \in [Requests -> Inputs]
      /\ outcome \in [Requests -> Orders \cup {0}]
  BY DEF TypeInv, RequestsTypeOK
<1>a. Answers(r)
  BY DEF KeyInv, OneOrderPerKey, Answers
<1>1. ASSUME NEW o, Answer(r, o), UNCHANGED <<keyRows, orderActor>>,
             o = 0 \/ o \in Replayed(input[r])
      PROVE  KeyStays(r)
  <2>1. step'[r] = "idle" /\ (outcome'[r] # 0 => outcome'[r] = o /\ input[r].key # NoKey)
    BY <1>1, <1>t DEF Answer, Go
  <2>2. ~HoldsKey(r)'
    BY <2>1 DEF HoldsKey, CartLocked
  <2>3. o # 0 /\ input[r].key # NoKey =>
          input'[r] = input[r] /\ [input |-> input[r], order |-> o] \in keyRows
    BY <1>1, <1>t, ReplayedIsStored DEF Answer
  <2> QED
    BY <1>1, <2>1, <2>2, <2>3 DEF KeyStays, Answers
<1>2. Refuse(r) => KeyStays(r)
  BY <1>1 DEF Refuse, orderVars
<1>3. ASSUME NEW i, NEW s, Enter(r, i, s), s \notin {"lock_cart"} \cup CartLocked,
             UNCHANGED <<keyRows, orderActor>>
      PROVE  KeyStays(r)
  BY <1>3, <1>t DEF Enter, Go, KeyStays, HoldsKey, Answers
<1>4. ASSUME NEW s, Go(r, s), UNCHANGED <<keyRows, orderActor, input, outcome>>,
             s \in {"lock_cart"} \cup CartLocked => HoldsKey(r) \/ input[r].key = NoKey
      PROVE  KeyStays(r)
  BY <1>4, <1>t, <1>a DEF Go, KeyStays, HoldsKey, Answers
<1>5. ASSUME NEW i \in Inputs, NEW s, LookUpKey(r, i, s), s \notin {"lock_cart"} \cup CartLocked
      PROVE  KeyStays(r)
  <2>0. UNCHANGED <<keyRows, orderActor>>
    BY <1>5 DEF LookUpKey, orderVars
  <2>1. CASE Enter(r, i, s)
    BY <1>3, <1>5, <2>0, <2>1
  <2>2. CASE ~Enter(r, i, s)
    <3>1. PICK o \in Replayed(i) : /\ step[r] = "idle" /\ input' = [input EXCEPT ![r] = i]
                                   /\ outcome' = [outcome EXCEPT ![r] = o] /\ UNCHANGED step
      BY <1>5, <2>2 DEF LookUpKey
    <3>2. [input |-> i, order |-> o] \in keyRows
      BY ReplayedIsStored
    <3> QED
      BY <1>t, <2>0, <3>1, <3>2 DEF KeyStays, HoldsKey, CartLocked, Answers
  <2> QED
    BY <2>1, <2>2
<1>6. Arrive(r) => KeyStays(r)
  <2>1. RequestAdd(r) \/ ReadItem(r) \/ RequestReorder(r) => KeyStays(r)
    BY <1>3 DEF RequestAdd, ReadItem, RequestReorder, CartLocked, orderVars
  <2>2. RequestCheckout(r) \/ RequestPos(r) => KeyStays(r)
    BY <1>5 DEF RequestCheckout, RequestPos, CartLocked
  <2> QED
    BY <2>1, <2>2 DEF Arrive
<1>7. Begin(r) => KeyStays(r)
  <2>1. Begin(r) => (Begun(r) \in {"lock_cart"} \cup CartLocked => input[r].key = NoKey)
    BY DEF Begin, Begun, CartLocked
  <2> QED
    BY <1>4, <2>1 DEF Begin, orderVars
<1>8. CreateCart(r) => KeyStays(r)
  <2>1. ASSUME CreateCart(r) PROVE KeyStays(r)
    <3>1. outcome'[r] = 0 /\ step'[r] = "add_item"
      BY <1>t, <2>1, AtStep DEF CreateCart, Go, Fits
    <3> QED
      BY <2>1, <3>1 DEF CreateCart, KeyStays, HoldsKey, CartLocked, Answers, orderVars
  <2> QED
    BY <2>1
<1>9. InsertItem(r) \/ SaveItem(r) \/ InsertReorder(r) => KeyStays(r)
  BY <1>1 DEF InsertItem, SaveItem, InsertReorder, orderVars
<1>10. PriceReorder(r) \/ ReadCart(r) => KeyStays(r)
  BY <1>2, <1>4 DEF PriceReorder, ReadCart, CartLocked, orderVars
<1>11. InsertKey(r) => KeyStays(r) \/ TakesKey(r)
  BY <1>1, <1>2 DEF InsertKey, TakesKey, orderVars
<1>12. LockCart(r) \/ Reprice(r) \/ TakeCoupon(r) => KeyStays(r)
  <2>1. ASSUME LockCart(r) \/ Reprice(r) \/ TakeCoupon(r) PROVE KeyStays(r)
    <3>1. HoldsKey(r) \/ input[r].key = NoKey
      BY <2>1 DEF LockCart, Reprice, TakeCoupon, HoldsKey, CartLocked
    <3> QED
      BY <1>2, <1>4, <2>1, <3>1 DEF LockCart, Reprice, TakeCoupon, orderVars
  <2> QED
    BY <2>1
<1>13. Fail(r) => KeyStays(r)
  BY <1>2 DEF Fail
<1> QED
  BY <1>2, <1>6, <1>7, <1>8, <1>9, <1>10, <1>11, <1>12, <1>13 DEF Handle, Creates

LEMMA KeysStay ==
  ASSUME TypeInv, KeyInv, NEW r \in Requests, Others(r), KeyStays(r)
  PROVE  KeyInv'
<1>1. \A q \in Requests : HoldsKey(q)' => HoldsKey(q) /\ input'[q] = input[q]
  BY DEF Others, KeyStays, HoldsKey
<1>2. UNCHANGED <<keyRows, orderActor>> /\ Answers(r)'
  BY DEF KeyStays
<1>3. KeyLocks'
  BY <1>1, <1>2 DEF KeyInv, KeyLocks, SameKey
<1>4. OneOrderPerKey'
  BY <1>2 DEF KeyInv, OneOrderPerKey, Answers, Others
<1> QED
  BY <1>2, <1>3, <1>4 DEF KeyInv

LEMMA KeyIsTaken ==
  ASSUME TypeInv, KeyInv, NEW r \in Requests, Others(r), TakesKey(r)
  PROVE  KeyInv'
<1>1. /\ UNCHANGED <<keyRows, orderActor, input, outcome>>
      /\ SameKey(input[r]) = {}
  BY DEF TakesKey, orderVars
<1>2. \A q \in Requests : SameKey(input[q])' = SameKey(input[q])
  BY <1>1 DEF SameKey
<1>3. \A q \in Requests \ {r} : HoldsKey(q)' => HoldsKey(q)
  BY DEF Others, HoldsKey
<1>4. \A q \in Requests \ {r} :
        HoldsKey(q) => input[q].actor # input[r].actor \/ input[q].key # input[r].key
  BY DEF TakesKey, KeyHeld, HoldsKey
<1>5. KeyLocks'
  <2> SUFFICES ASSUME NEW p \in Requests, HoldsKey(p)'
               PROVE  /\ SameKey(input[p])' = {}
                      /\ \A q \in Requests \ {p} : HoldsKey(q)' =>
                           input'[q].actor # input'[p].actor \/ input'[q].key # input'[p].key
    BY DEF KeyLocks
  <2>1. CASE p = r
    BY <1>1, <1>2, <1>3, <1>4, <2>1
  <2>2. CASE p # r
    BY <1>1, <1>2, <1>3, <1>4, <2>2 DEF KeyInv, KeyLocks
  <2> QED
    BY <2>1, <2>2
<1>6. OneOrderPerKey'
  BY <1>1 DEF KeyInv, OneOrderPerKey
<1> QED
  BY <1>1, <1>5, <1>6 DEF KeyInv

\* A new order o of request r, with a row of its key if there is one.
LEMMA KeyIsUsed ==
  ASSUME TypeInv, NewRowsAreBlank, KeyInv, NEW r \in Requests, Others(r),
         NEW o \in NewOrders, Answer(r, o), o # 0,
         orderActor' = [orderActor EXCEPT ![o] = {input[r].actor}],
         keyRows' = IF input[r].key = NoKey THEN keyRows
                    ELSE keyRows \cup {[input |-> input[r], order |-> o]},
         input[r].key # NoKey => SameKey(input[r]) = {},
         \A q \in Requests \ {r} : HoldsKey(q) =>
           input[q].actor # input[r].actor \/ input[q].key # input[r].key
  PROVE  KeyInv'
<1> DEFINE row == [input |-> input[r], order |-> o]
<1>t. /\ step \in [Requests -> Steps] /\ input \in [Requests -> Inputs]
      /\ outcome \in [Requests -> Orders \cup {0}] /\ orderActor \in [Orders -> SUBSET Actors]
      /\ keyRows \in SUBSET KeyRows
  BY DEF TypeInv, RowsTypeOK, RequestsTypeOK
<1>0. o \in Orders /\ orderActor[o] = {}
  BY DEF NewOrders
<1>1. /\ step'[r] = "idle" /\ \A q \in Requests \ {r} : input'[q] = input[q]
      /\ outcome'[r] # 0 => /\ outcome'[r] = o /\ input[r].key # NoKey
                             /\ input'[r] = input[r]
  BY <1>t DEF Answer, Go
<1>2. ~HoldsKey(r)' /\ \A q \in Requests \ {r} : HoldsKey(q)' => HoldsKey(q)
  BY <1>1 DEF Others, HoldsKey, CartLocked
<1>3. \A k \in keyRows' : k \in keyRows \/ (k = row /\ input[r].key # NoKey)
  OBVIOUS
<1>4. KeyLocks'
  <2> SUFFICES ASSUME NEW p \in Requests, HoldsKey(p)'
               PROVE  /\ SameKey(input[p])' = {}
                      /\ \A q \in Requests \ {p} : HoldsKey(q)' =>
                           input'[q].actor # input'[p].actor \/ input'[q].key # input'[p].key
    BY DEF KeyLocks
  <2>1. p # r /\ HoldsKey(p) /\ SameKey(input[p]) = {}
    BY <1>2 DEF KeyInv, KeyLocks
  <2>2. ~(row.input.actor = input[p].actor /\ row.input.key = input[p].key)
    BY <2>1
  <2>3. SameKey(input[p])' = {}
    BY <1>1, <1>3, <2>1, <2>2 DEF SameKey
  <2> QED
    BY <1>1, <1>2, <2>1, <2>3 DEF KeyInv, KeyLocks
<1>5. OneOrderPerKey'
  <2>1. ASSUME NEW k \in keyRows', NEW l \in keyRows',
               k.input.actor = l.input.actor, k.input.key = l.input.key
        PROVE  k = l
    <3>1. ASSUME NEW j \in keyRows, j.input.actor = row.input.actor, j.input.key = row.input.key
          PROVE  input[r].key = NoKey
      BY <3>1 DEF SameKey
    <3> HIDE DEF row
    <3> QED
      BY <1>3, <2>1, <3>1 DEF KeyInv, OneOrderPerKey
  <2>2. ASSUME NEW k \in keyRows' PROVE orderActor'[k.order] = {k.input.actor}
    <3>1. CASE k \in keyRows
      <4>1. k.order # o /\ k.order \in Orders
        BY <1>0, <1>t, <3>1 DEF NewRowsAreBlank, KeyRows
      <4> QED
        BY <1>0, <1>t, <3>1, <4>1 DEF KeyInv, OneOrderPerKey
    <3>2. CASE k = row
      BY <1>0, <1>t, <3>2
    <3> QED
      BY <1>3, <3>1, <3>2
  <2>3. ASSUME NEW q \in Requests, outcome'[q] # 0
        PROVE  [input |-> input'[q], order |-> outcome'[q]] \in keyRows'
    <3>1. CASE q = r
      BY <1>1, <2>3, <3>1
    <3>2. CASE q # r
      <4>1. [input |-> input[q], order |-> outcome[q]] \in keyRows
        BY <1>1, <2>3, <3>2 DEF Others, KeyInv, OneOrderPerKey
      <4> QED
        BY <1>1, <3>2, <4>1 DEF Others
    <3> QED
      BY <3>1, <3>2
  <2> QED
    BY <2>1, <2>2, <2>3 DEF OneOrderPerKey
<1>6. \A k \in keyRows' : k.input.key # NoKey
  BY <1>3 DEF KeyInv
<1> QED
  BY <1>4, <1>5, <1>6 DEF KeyInv

LEMMA KeyStep == TypeInv /\ CartInv /\ KeyInv /\ [Next]_vars => KeyInv'
<1> SUFFICES ASSUME TypeInv, CartInv, KeyInv, [Next]_vars PROVE KeyInv'
  OBVIOUS
<1>b. NewRowsAreBlank /\ 0 \notin Orders
  BY DEF CartInv, Orders
<1>1. ASSUME NEW r \in Requests, Others(r), Complete(r) PROVE KeyInv'
  <2>1. PICK o \in First(NewOrders) :
          /\ orderActor' = [orderActor EXCEPT ![o] = {input[r].actor}]
          /\ keyRows' = IF input[r].key = NoKey THEN keyRows
                        ELSE keyRows \cup {[input |-> input[r], order |-> o]}
          /\ Answer(r, o)
    BY <1>1, Zenon DEF Complete
  <2>2. o \in NewOrders /\ o # 0
    BY <1>b DEF First, NewOrders
  <2>3. input[r].key # NoKey => HoldsKey(r)
    BY <1>1 DEF Complete, HoldsKey, CartLocked
  <2>4. input[r].key # NoKey => SameKey(input[r]) = {}
    BY <2>3 DEF KeyInv, KeyLocks
  <2>5. \A q \in Requests \ {r} : HoldsKey(q) =>
          input[q].actor # input[r].actor \/ input[q].key # input[r].key
    BY <2>3 DEF KeyInv, KeyLocks, HoldsKey
  <2> QED
    BY <1>1, <1>b, <2>1, <2>2, <2>4, <2>5, KeyIsUsed
<1>2. ASSUME NEW r \in Requests, Others(r), Creates(r) PROVE KeyInv'
  <2>1. PICK o \in First(NewOrders) :
          /\ orderActor' = [orderActor EXCEPT ![o] = {input[r].actor}]
          /\ keyRows' = keyRows \cup {[input |-> input[r], order |-> o]}
          /\ Answer(r, o)
    BY <1>2, Zenon DEF Creates, CreatePos
  <2>2. o \in NewOrders /\ o # 0
    BY <1>b DEF First, NewOrders
  <2>3. SameKey(input[r]) = {} /\ step[r] = "create_pos"
    BY <1>2 DEF Creates, CreatePos
  <2>4. input[r].key # NoKey /\ input[r].actor \in Cashiers
    BY <2>3, AtStep DEF Fits
  <2>5. \A q \in Requests : HoldsKey(q) => input[q].actor \in Customers
    BY AtStep DEF HoldsKey, Fits, CustomerSteps, CartLocked, Steps, Transaction
  <2>6. \A q \in Requests \ {r} : HoldsKey(q) =>
          input[q].actor # input[r].actor \/ input[q].key # input[r].key
    BY <2>4, <2>5, CheckoutAssumption
  <2> QED
    BY <1>2, <1>b, <2>1, <2>2, <2>3, <2>4, <2>6, KeyIsUsed
<1>3. ASSUME NEW r \in Requests, Arrive(r) \/ Handle(r) \/ Fail(r) PROVE KeyInv'
  BY <1>1, <1>2, <1>3, OthersWait, KeySteps, KeysStay, KeyIsTaken
<1>4. ASSUME UNCHANGED <<orderVars, step, input, outcome>> PROVE KeyInv'
  BY <1>4 DEF KeyInv, KeyLocks, HoldsKey, SameKey, OneOrderPerKey, orderVars
<1>5. ASSUME NEW j \in Items, RemoveItem(j) PROVE KeyInv'
  BY <1>4, <1>5 DEF RemoveItem
<1>6. ASSUME NEW u \in Customers, Clear(u) PROVE KeyInv'
  BY <1>4, <1>6 DEF Clear
<1>7. CASE UNCHANGED vars
  BY <1>4, <1>7 DEF vars
<1> QED
  BY <1>3, <1>5, <1>6, <1>7 DEF Next

\* A key stands for one order of its user, and whoever was answered with the
\* key was answered with that order.
THEOREM OneOrderPerKeyCorrect == Spec => []OneOrderPerKey
<1>1. KeyInv => OneOrderPerKey
  BY DEF KeyInv
<1> QED
  BY <1>1, TypeInit, CartInit, KeyInit, TypeStep, CartStep, KeyStep, PTL DEF Spec
-----------------------------------------------------------------------------
(* The limits of the coupon. *)

RedeemsCoupon(r) == step[r] = "complete" /\ input[r].body \in CouponBodies

\* Who is about to redeem the coupon is alone and within its limits.
CouponLocks ==
  \A r \in Requests : RedeemsCoupon(r) =>
    /\ ~Exhausted(input[r].actor)
    /\ \A q \in Requests \ {r} : ~RedeemsCoupon(q)

CouponInv == CouponLocks /\ CouponWithinLimits

\* Most steps redeem nothing and come no nearer to it.
CouponStays(r) == /\ redeemed' = redeemed
                  /\ \A o \in redeemed : orderActor'[o] = orderActor[o]
                  /\ RedeemsCoupon(r)' => RedeemsCoupon(r) /\ input'[r] = input[r]
TakesCoupon(r) == /\ ~CouponHeld(r) /\ ~Exhausted(input[r].actor)
                  /\ UNCHANGED <<cartVars, orderVars, input, read, outcome>>
Redeems(r) == Complete(r) /\ input[r].body \in CouponBodies

LEMMA CouponInit == Init => CouponInv
<1> SUFFICES ASSUME Init PROVE CouponInv
  OBVIOUS
<1>1. Cardinality({}) = 0
  BY FS_EmptySet
<1>2. redeemed = {} /\ \A u : UsesOf(u) = {}
  BY DEF Init, UsesOf
<1>3. CouponWithinLimits
  BY <1>1, <1>2 DEF CouponWithinLimits
<1> QED
  BY <1>3 DEF Init, CouponInv, CouponLocks, RedeemsCoupon

LEMMA CouponSteps ==
  ASSUME TypeInv, CartInv, NEW r \in Requests, Arrive(r) \/ Handle(r) \/ Fail(r)
  PROVE  CouponStays(r) \/ TakesCoupon(r) \/ Redeems(r)
<1>t. /\ step \in [Requests -> Steps] /\ input \in [Requests -> Inputs]
      /\ orderActor \in [Orders -> SUBSET Actors] /\ redeemed \subseteq Orders
  BY DEF TypeInv, RowsTypeOK, RequestsTypeOK
<1>1. ASSUME NEW o, Answer(r, o), UNCHANGED <<redeemed, orderActor>> PROVE CouponStays(r)
  BY <1>1, <1>t DEF Answer, Go, CouponStays, RedeemsCoupon
<1>2. Refuse(r) => CouponStays(r)
  BY <1>1 DEF Refuse, orderVars
<1>3. ASSUME NEW s, Go(r, s), s # "complete" \/ input[r].body \notin CouponBodies,
             UNCHANGED <<redeemed, orderActor, input>>
      PROVE  CouponStays(r)
  BY <1>3, <1>t DEF Go, CouponStays, RedeemsCoupon
<1>4. ASSUME NEW i, NEW s, Enter(r, i, s), s # "complete", UNCHANGED <<redeemed, orderActor>>
      PROVE  CouponStays(r)
  BY <1>4, <1>t DEF Enter, Go, CouponStays, RedeemsCoupon
<1>5. ASSUME NEW i, NEW s, LookUpKey(r, i, s), s # "complete" PROVE CouponStays(r)
  <2>1. CASE Enter(r, i, s)
    BY <1>4, <1>5, <2>1 DEF LookUpKey, orderVars
  <2>2. CASE ~Enter(r, i, s)
    BY <1>5, <2>2 DEF LookUpKey, orderVars, CouponStays, RedeemsCoupon
  <2> QED
    BY <2>1, <2>2
<1>6. Arrive(r) => CouponStays(r)
  BY <1>4, <1>5 DEF Arrive, RequestAdd, ReadItem, RequestReorder, RequestCheckout, RequestPos,
     orderVars
<1>7. Begin(r) => CouponStays(r)
  <2>1. Begin(r) => Begun(r) # "complete"
    BY DEF Begin, Begun
  <2> QED
    BY <1>3, <2>1 DEF Begin, orderVars
<1>8. CreateCart(r) => CouponStays(r)
  BY <1>t DEF CreateCart, Go, CouponStays, RedeemsCoupon, orderVars
<1>9. InsertItem(r) \/ SaveItem(r) \/ InsertReorder(r) => CouponStays(r)
  BY <1>1 DEF InsertItem, SaveItem, InsertReorder, orderVars
<1>10. PriceReorder(r) \/ ReadCart(r) \/ InsertKey(r) => CouponStays(r)
  BY <1>1, <1>2, <1>3 DEF PriceReorder, ReadCart, InsertKey, orderVars
<1>11. LockCart(r) \/ Reprice(r) => CouponStays(r)
  <2>1. LockCart(r) => CouponStays(r)
    BY <1>2, <1>3 DEF LockCart, orderVars
  <2>2. Reprice(r) => CouponStays(r)
    BY <1>3 DEF Reprice, orderVars
  <2> QED
    BY <2>1, <2>2
<1>12. TakeCoupon(r) => CouponStays(r) \/ TakesCoupon(r)
  BY <1>2 DEF TakeCoupon, TakesCoupon
<1>13. ASSUME NEW o \in First(NewOrders),
              orderActor' = [orderActor EXCEPT ![o] = {input[r].actor}],
              redeemed' = redeemed, Answer(r, o)
       PROVE  CouponStays(r)
  <2>1. o \in Orders /\ o \notin redeemed
    BY DEF First, NewOrders, CartInv, NewRowsAreBlank
  <2>2. \A p \in redeemed : orderActor'[p] = orderActor[p]
    BY <1>13, <1>t, <2>1
  <2> QED
    BY <1>13, <1>t, <2>2 DEF Answer, Go, CouponStays, RedeemsCoupon
<1>14. Complete(r) => CouponStays(r) \/ Redeems(r)
  <2>1. ASSUME Complete(r), input[r].body \notin CouponBodies PROVE CouponStays(r)
    <3>1. PICK o \in First(NewOrders) :
            /\ orderActor' = [orderActor EXCEPT ![o] = {input[r].actor}]
            /\ redeemed' = IF input[r].body \in CouponBodies THEN redeemed \cup {o} ELSE redeemed
            /\ Answer(r, o)
      BY <2>1, Zenon DEF Complete
    <3> QED
      BY <1>13, <2>1, <3>1
  <2> QED
    BY <2>1 DEF Redeems
<1>15. CreatePos(r) => CouponStays(r)
  BY <1>2, <1>13 DEF CreatePos
<1>16. Fail(r) => CouponStays(r)
  BY <1>2 DEF Fail
<1> QED
  BY <1>6, <1>7, <1>8, <1>9, <1>10, <1>11, <1>12, <1>14, <1>15, <1>16 DEF Handle

LEMMA CouponsStay ==
  ASSUME CouponInv, NEW r \in Requests, Others(r), CouponStays(r)
  PROVE  CouponInv'
<1>1. redeemed' = redeemed /\ \A u : UsesOf(u)' = UsesOf(u)
  BY DEF CouponStays, UsesOf
<1>2. \A q \in Requests : RedeemsCoupon(q)' => RedeemsCoupon(q) /\ input'[q] = input[q]
  BY DEF Others, CouponStays, RedeemsCoupon
<1>3. \A u : Exhausted(u)' <=> Exhausted(u)
  BY <1>1 DEF Exhausted
<1>4. CouponLocks'
  BY <1>2, <1>3 DEF CouponInv, CouponLocks
<1>5. CouponWithinLimits'
  BY <1>1 DEF CouponInv, CouponWithinLimits
<1> QED
  BY <1>4, <1>5 DEF CouponInv

LEMMA CouponIsTaken ==
  ASSUME CouponInv, NEW r \in Requests, Others(r), TakesCoupon(r)
  PROVE  CouponInv'
<1>1. UNCHANGED <<redeemed, orderActor, input>>
  BY DEF TakesCoupon, orderVars
<1>2. redeemed' = redeemed /\ \A u : UsesOf(u)' = UsesOf(u)
  BY <1>1 DEF UsesOf
<1>3. \A u : Exhausted(u)' <=> Exhausted(u)
  BY <1>2 DEF Exhausted
<1>4. \A q \in Requests \ {r} : ~RedeemsCoupon(q)'
  BY <1>1 DEF Others, TakesCoupon, CouponHeld, RedeemsCoupon
<1>5. CouponLocks'
  <2> SUFFICES ASSUME NEW p \in Requests, RedeemsCoupon(p)'
               PROVE  /\ ~Exhausted(input[p].actor)'
                      /\ \A q \in Requests \ {p} : ~RedeemsCoupon(q)'
    BY DEF CouponLocks
  <2>1. p = r
    BY <1>4
  <2>2. ~Exhausted(input[r].actor)
    BY DEF TakesCoupon
  <2>3. Exhausted(input[r].actor)' <=> Exhausted(input[r].actor)
    BY <1>1, <1>2 DEF Exhausted, UsesOf
  <2> QED
    BY <1>4, <2>1, <2>2, <2>3
<1>6. CouponWithinLimits'
  BY <1>2 DEF CouponInv, CouponWithinLimits
<1> QED
  BY <1>5, <1>6 DEF CouponInv

\* One use more of a limit that has not been reached keeps within it.
LEMMA OneMoreUse ==
  ASSUME NEW S, IsFiniteSet(S), NEW o, NEW limit \in Nat, ~Reached(Cardinality(S), limit)
  PROVE  Cardinality(S \cup {o}) <= limit
<1>1. Cardinality(S) \in Nat
  BY FS_CardinalityType
<1>2. Cardinality(S \cup {o}) = IF o \in S THEN Cardinality(S) ELSE Cardinality(S) + 1
  BY FS_AddElement
<1>3. ~(Cardinality(S) >= limit)
  BY DEF Reached
<1> DEFINE n == Cardinality(S)
<1>4. n \in Nat /\ n + 1 <= limit /\ n <= limit
  <2>1. n \in Nat /\ ~(n >= limit)
    BY <1>1, <1>3
  <2> HIDE DEF n
  <2> QED
    BY <2>1
<1>5. Cardinality(S \cup {o}) \in {n, n + 1}
  BY <1>2
<1> HIDE DEF n
<1> QED
  BY <1>4, <1>5

LEMMA CouponIsRedeemed ==
  ASSUME TypeInv, CartInv, CouponInv, NEW r \in Requests, Others(r), Redeems(r)
  PROVE  CouponInv'
<1>t. /\ step \in [Requests -> Steps] /\ orderActor \in [Orders -> SUBSET Actors]
      /\ redeemed \subseteq Orders
  BY DEF TypeInv, RowsTypeOK, RequestsTypeOK
<1>1. PICK o \in First(NewOrders) :
        /\ orderActor' = [orderActor EXCEPT ![o] = {input[r].actor}]
        /\ redeemed' = IF input[r].body \in CouponBodies THEN redeemed \cup {o} ELSE redeemed
        /\ Answer(r, o)
  BY Zenon DEF Redeems, Complete
<1>2. o \in Orders /\ o \notin redeemed
  BY DEF First, NewOrders, CartInv, NewRowsAreBlank
<1>3. redeemed' = redeemed \cup {o} /\ step'[r] = "idle"
  BY <1>1, <1>t DEF Redeems, Answer, Go
<1>4. /\ ~Exhausted(input[r].actor)
      /\ \A q \in Requests \ {r} : ~RedeemsCoupon(q)
  BY DEF CouponInv, CouponLocks, Redeems, Complete, RedeemsCoupon
<1>5. CouponLocks'
  <2>1. \A q \in Requests : ~RedeemsCoupon(q)'
    BY <1>3, <1>4 DEF Others, RedeemsCoupon
  <2> QED
    BY <2>1 DEF CouponLocks
<1>6. IsFiniteSet(redeemed) /\ \A u : IsFiniteSet(UsesOf(u))
  <2>1. IsFiniteSet(Orders)
    BY CheckoutAssumption, FS_Interval DEF Orders
  <2>2. IsFiniteSet(redeemed)
    BY <1>t, <2>1, FS_Subset
  <2>3. \A u : UsesOf(u) \subseteq redeemed
    BY DEF UsesOf
  <2> QED
    BY <2>2, <2>3, FS_Subset
<1>7. TotalLimit \in Nat => Cardinality(redeemed') <= TotalLimit
  BY <1>3, <1>4, <1>6, OneMoreUse DEF Exhausted
<1>8. ASSUME CustomerLimit \in Nat, NEW u \in Customers
      PROVE  Cardinality(UsesOf(u)') <= CustomerLimit
  <2>1. \A p \in redeemed : orderActor'[p] = orderActor[p]
    BY <1>1, <1>2, <1>t
  <2>2. orderActor'[o] = {input[r].actor}
    BY <1>1, <1>2, <1>t
  <2>3. CASE u = input[r].actor
    <3>1. UsesOf(u)' = UsesOf(u) \cup {o}
      BY <1>3, <2>1, <2>2, <2>3 DEF UsesOf
    <3>2. Cardinality(UsesOf(u) \cup {o}) <= CustomerLimit
      BY <1>4, <1>6, <1>8, <2>3, OneMoreUse DEF Exhausted
    <3> QED
      BY <3>1, <3>2
  <2>4. CASE u # input[r].actor
    <3>1. UsesOf(u)' = UsesOf(u)
      BY <1>3, <2>1, <2>2, <2>4 DEF UsesOf
    <3> QED
      BY <1>8, <3>1 DEF CouponInv, CouponWithinLimits
  <2> QED
    BY <2>3, <2>4
<1>9. CouponWithinLimits'
  BY <1>7, <1>8 DEF CouponWithinLimits
<1> QED
  BY <1>5, <1>9 DEF CouponInv

LEMMA CouponStep == TypeInv /\ CartInv /\ CouponInv /\ [Next]_vars => CouponInv'
<1> SUFFICES ASSUME TypeInv, CartInv, CouponInv, [Next]_vars PROVE CouponInv'
  OBVIOUS
<1>1. ASSUME NEW r \in Requests, Arrive(r) \/ Handle(r) \/ Fail(r) PROVE CouponInv'
  BY <1>1, OthersWait, CouponSteps, CouponsStay, CouponIsTaken, CouponIsRedeemed
<1>2. ASSUME UNCHANGED <<orderVars, step, input>> PROVE CouponInv'
  BY <1>2 DEF CouponInv, CouponLocks, RedeemsCoupon, Exhausted, UsesOf, CouponWithinLimits,
     orderVars
<1>3. ASSUME NEW j \in Items, RemoveItem(j) PROVE CouponInv'
  BY <1>2, <1>3 DEF RemoveItem
<1>4. ASSUME NEW u \in Customers, Clear(u) PROVE CouponInv'
  BY <1>2, <1>4 DEF Clear
<1>5. CASE UNCHANGED vars
  BY <1>2, <1>5 DEF vars
<1> QED
  BY <1>1, <1>3, <1>4, <1>5 DEF Next

\* Concurrent checkouts never use a coupon beyond its total limit or a
\* customer's, whatever the limits are.
THEOREM CouponCorrect == Spec => []CouponWithinLimits
<1>1. CouponInv => CouponWithinLimits
  BY DEF CouponInv
<1> QED
  BY <1>1, TypeInit, CartInit, CouponInit, TypeStep, CartStep, CouponStep, PTL DEF Spec
-----------------------------------------------------------------------------
(* Checkout implements Purchases. *)

\* What each caller has been told, as the refinement maps it.
Told == [r \in Requests |-> IF outcome[r] = 0 THEN {}
                            ELSE {[input |-> input[r], order |-> outcome[r]]}]

\* The three kinds of steps that place no order: they tell the caller nothing or
\* what the key says, or they open a cart.
Tells(r) ==
  /\ UNCHANGED <<cartOwner, converted, orderVars>>
  /\ \E K \in {{}} \cup {{k} : k \in keyRows} : Told' = [Told EXCEPT ![r] = K]
Opens(r) ==
  /\ UNCHANGED <<converted, orderVars, Told>>
  /\ \E c \in Carts, u \in Customers :
       cartOwner[c] = {} /\ cartOwner' = [cartOwner EXCEPT ![c] = {u}]

\* The other callers have been told what they had been told.
LEMMA OneIsTold ==
  ASSUME NEW r \in Requests, Others(r), NEW K,
         K = IF outcome'[r] = 0 THEN {} ELSE {[input |-> input'[r], order |-> outcome'[r]]}
  PROVE  Told' = [Told EXCEPT ![r] = K]
<1>1. \A q \in Requests \ {r} : input'[q] = input[q] /\ outcome'[q] = outcome[q]
  BY DEF Others
<1>2. \A q \in Requests : Told'[q] = [Told EXCEPT ![r] = K][q]
  BY <1>1 DEF Told
<1> QED
  BY <1>2 DEF Told

LEMMA PromiseSteps ==
  ASSUME TypeInv, KeyInv, NEW r \in Requests, Arrive(r) \/ Handle(r) \/ Fail(r)
  PROVE  Tells(r) \/ Opens(r) \/ Complete(r) \/ Creates(r)
<1> SUFFICES ASSUME ~Complete(r), ~Creates(r) PROVE Tells(r) \/ Opens(r)
  OBVIOUS
<1>o. Others(r)
  BY OthersWait
<1>t. /\ outcome \in [Requests -> Orders \cup {0}] /\ cartOwner \in [Carts -> SUBSET Customers]
      /\ step \in [Requests -> Steps]
  BY DEF TypeInv, RowsTypeOK, RequestsTypeOK
<1>k. KeyStays(r) \/ TakesKey(r)
  BY KeySteps
<1>1. ASSUME UNCHANGED <<cartOwner, converted, orderVars>> PROVE Tells(r)
  <2> DEFINE K == IF outcome'[r] = 0 THEN {} ELSE {[input |-> input'[r], order |-> outcome'[r]]}
  <2>1. Answers(r)'
    BY <1>k DEF KeyStays, TakesKey, KeyInv, OneOrderPerKey, Answers, orderVars
  <2>2. K \in {{}} \cup {{k} : k \in keyRows}
    BY <1>1, <2>1 DEF Answers, orderVars
  <2>3. Told' = [Told EXCEPT ![r] = K]
    BY <1>o, OneIsTold
  <2> HIDE DEF K
  <2> QED
    BY <1>1, <2>2, <2>3 DEF Tells
<1>2. ASSUME step[r] # "idle", outcome'[r] = 0 PROVE Told' = Told
  <2>1. outcome[r] = 0
    BY <1>2, AtStep DEF Fits
  <2>2. \A q \in Requests \ {r} : input'[q] = input[q] /\ outcome'[q] = outcome[q]
    BY <1>o DEF Others
  <2> QED
    BY <1>2, <2>1, <2>2 DEF Told
<1>3. CASE CreateCart(r)
  <2>1. /\ outcome[r] = 0 /\ input[r].actor \in Customers /\ step[r] # "idle"
    BY <1>3, AtStep DEF CreateCart, Fits, CustomerSteps, Steps
  <2>2. Told' = Told
    BY <1>2, <1>3, <2>1 DEF CreateCart
  <2>3. PICK c \in First(NewCarts) :
          cartOwner' = [cartOwner EXCEPT ![c] = {input[r].actor}]
    BY <1>3 DEF CreateCart
  <2>4. c \in Carts /\ cartOwner[c] = {}
    BY DEF First, NewCarts
  <2> QED
    BY <1>3, <2>1, <2>2, <2>3, <2>4 DEF CreateCart, Opens
<1>4. CASE InsertReorder(r)
  <2>1. /\ input[r].actor \in Customers /\ step[r] # "idle" /\ outcome'[r] = 0
    BY <1>t, <1>4, AtStep DEF InsertReorder, Answer, Fits, CustomerSteps, Steps, Transaction
  <2>2. Told' = Told
    BY <1>2, <2>1
  <2>3. PICK c \in IF ActiveCarts(input[r].actor) = {} THEN First(NewCarts)
                   ELSE ActiveCarts(input[r].actor) :
          cartOwner' = [cartOwner EXCEPT ![c] = {input[r].actor}]
    BY <1>4 DEF InsertReorder
  <2>4. CASE ActiveCarts(input[r].actor) = {}
    <3>1. c \in Carts /\ cartOwner[c] = {}
      BY <2>3, <2>4 DEF First, NewCarts
    <3> QED
      BY <1>4, <2>1, <2>2, <2>3, <3>1 DEF InsertReorder, Opens
  <2>5. CASE ActiveCarts(input[r].actor) # {}
    <3>1. c \in Carts /\ cartOwner[c] = {input[r].actor}
      BY <2>3, <2>5 DEF ActiveCarts
    <3>2. cartOwner' = cartOwner
      BY <1>t, <2>3, <3>1
    <3> QED
      BY <1>1, <1>4, <3>2 DEF InsertReorder
  <2> QED
    BY <2>4, <2>5
<1>5. CASE ~CreateCart(r) /\ ~InsertReorder(r)
  <2>1. UNCHANGED <<cartOwner, converted, orderVars>>
    <3>1. \/ Leaves(r) \/ Keeps(r) \/ Locks(r)
          \/ ReadItem(r) \/ InsertItem(r) \/ SaveItem(r)
      BY <1>5, CartStepKinds
    <3>2. Leaves(r) \/ Keeps(r) \/ ReadItem(r) => UNCHANGED <<cartOwner, converted, orderVars>>
      BY DEF Leaves, Keeps, ReadItem, cartVars
    <3>3. Locks(r) => UNCHANGED <<cartOwner, converted, orderVars>>
      BY DEF Locks, LockCart, cartVars
    <3>4. InsertItem(r) \/ SaveItem(r) => UNCHANGED <<cartOwner, converted, orderVars>>
      BY DEF InsertItem, SaveItem
    <3> QED
      BY <3>1, <3>2, <3>3, <3>4
  <2> QED
    BY <1>1, <2>1
<1> QED
  BY <1>3, <1>4, <1>5

\* The key of a wish that places an order gets its first order.
LEMMA WishIsKept ==
  ASSUME TypeInv, NEW r \in Requests, Others(r), NEW o \in Orders, Answer(r, o),
         input[r].key # NoKey => SameKey(input[r]) = {},
         keyRows' = IF input[r].key = NoKey THEN keyRows
                    ELSE keyRows \cup {[input |-> input[r], order |-> o]}
  PROVE  Promise!Keep(r, input[r], o)
<1> DEFINE w == input[r]
           mine == IF w.key = NoKey THEN {} ELSE {[input |-> w, order |-> o]}
<1>t. /\ input \in [Requests -> Inputs] /\ outcome \in [Requests -> Orders \cup {0}]
      /\ keyRows \subseteq KeyRows /\ o # 0
  BY DEF TypeInv, RowsTypeOK, RequestsTypeOK, Orders
<1>1. \A k \in keyRows, l \in mine : k.input.actor = l.input.actor => k.input.key # l.input.key
  BY DEF SameKey
<1>2. keyRows' = keyRows \cup mine
  OBVIOUS
<1>3. mine = IF outcome'[r] = 0 THEN {} ELSE {[input |-> input'[r], order |-> outcome'[r]]}
  <2>1. CASE w.key = NoKey
    BY <1>t, <2>1 DEF Answer
  <2>2. CASE w.key # NoKey
    <3>1. outcome'[r] = o /\ input'[r] = w
      BY <1>t, <2>2 DEF Answer
    <3> QED
      BY <1>t, <2>2, <3>1
  <2> QED
    BY <2>1, <2>2
<1>4. Told' = [Told EXCEPT ![r] = mine]
  <2> HIDE DEF mine
  <2> QED
    BY <1>3, OneIsTold
<1> QED
  BY <1>1, <1>2, <1>4 DEF Promise!Keep, Told

LEMMA CompleteIsPurchase ==
  ASSUME TypeInv, CartInv, KeyInv, CouponInv, NEW r \in Requests, Others(r), Complete(r)
  PROVE  Promise!Next
<1> DEFINE c == input[r].cart
           u == input[r].actor
<1>t. /\ input \in [Requests -> Inputs] /\ read \in [Requests -> SUBSET Items]
      /\ orderActor \in [Orders -> SUBSET Actors] /\ redeemed \subseteq Orders
  BY DEF TypeInv, RowsTypeOK, RequestsTypeOK
<1>0. PICK o \in First(NewOrders) :
        /\ orderActor' = [orderActor EXCEPT ![o] = {u}]
        /\ orderCart' = [orderCart EXCEPT ![o] = {c}]
        /\ orderItems' = [orderItems EXCEPT ![o] = read[r]]
        /\ redeemed' = IF input[r].body \in CouponBodies THEN redeemed \cup {o} ELSE redeemed
        /\ keyRows' = IF input[r].key = NoKey THEN keyRows
                      ELSE keyRows \cup {[input |-> input[r], order |-> o]}
        /\ Answer(r, o)
  BY Zenon DEF Complete
<1>1. o \in Orders /\ orderActor[o] = {}
  BY DEF First, NewOrders
<1>2. /\ step[r] \in CartLocked /\ step[r] = "complete"
      /\ converted' = converted \cup {c} /\ cartOwner' = cartOwner
  BY DEF Complete, CartLocked
<1>3. /\ c \in Carts \ converted /\ cartOwner[c] = {u} /\ read[r] \in (SUBSET Items) \ {{}}
  BY <1>t, <1>2 DEF CartInv, CartLocks, ActiveCarts
<1>4. u \in Customers
  BY <1>2, AtStep DEF Fits, CustomerSteps, CartLocked, Steps, Transaction
<1>5. \A p \in Orders : orderItems[p] \cap read[r] = {}
  <2>1. \A p \in Orders : c \notin orderCart[p]
    BY <1>3 DEF CartInv, ConvertedIsOrdered
  <2> QED
    BY <2>1 DEF CartInv, ItemsStay
<1>6. Promise!Keep(r, input[r], o)
  <2>1. input[r].key # NoKey => SameKey(input[r]) = {}
    BY <1>2 DEF KeyInv, KeyLocks, HoldsKey
  <2> QED
    BY <1>0, <1>1, <2>1, WishIsKept
<1>7. IF input[r].body \in CouponBodies THEN Promise!Redeem(u, o) ELSE UNCHANGED redeemed
  <2>1. ASSUME input[r].body \in CouponBodies PROVE Promise!Redeem(u, o)
    <3>1. ~Exhausted(u)
      BY <1>2, <2>1 DEF CouponInv, CouponLocks, RedeemsCoupon
    <3>2. IsFiniteSet(redeemed) /\ IsFiniteSet(UsesOf(u))
      <4>1. IsFiniteSet(Orders)
        BY CheckoutAssumption, FS_Interval DEF Orders
      <4>2. IsFiniteSet(redeemed) /\ UsesOf(u) \subseteq redeemed
        BY <1>t, <4>1, FS_Subset DEF UsesOf
      <4> QED
        BY <4>2, FS_Subset
    <3>3. ASSUME NEW S, IsFiniteSet(S), NEW limit, ~Reached(Cardinality(S), limit)
          PROVE  Promise!Below(Cardinality(S), limit)
      <4>1. Cardinality(S) \in Nat
        BY <3>3, FS_CardinalityType
      <4>2. limit \in Nat /\ ~(Cardinality(S) >= limit)
        BY <3>3 DEF Reached
      <4>3. Cardinality(S) < limit
        BY <4>1, <4>2
      <4> QED
        BY <4>2, <4>3 DEF Promise!Below
    <3>4. /\ Promise!Below(Cardinality(redeemed), TotalLimit)
          /\ Promise!Below(Cardinality(UsesOf(u)), CustomerLimit)
      BY <3>1, <3>2, <3>3 DEF Exhausted
    <3>5. redeemed' = redeemed \cup {o}
      BY <1>0, <2>1
    <3>6. \A S : Promise!Cardinality(S) = Cardinality(S)
      BY DEF Promise!Cardinality, Cardinality, Promise!IsFiniteSet, IsFiniteSet
    <3> QED
      BY <3>4, <3>5, <3>6 DEF Promise!Redeem, UsesOf
  <2> QED
    BY <1>0, <2>1
<1>8. \E q \in Requests, w \in Inputs :
        /\ w.actor = u /\ w.cart = c /\ Promise!Keep(q, w, o)
        /\ IF w.body \in CouponBodies THEN Promise!Redeem(u, o) ELSE UNCHANGED redeemed
  BY <1>t, <1>6, <1>7
<1> HIDE DEF c, u
<1>9. Promise!Purchase(o, u)
  BY <1>0, <1>1, <1>2, <1>3, <1>5, <1>8 DEF Promise!Purchase
<1> QED
  BY <1>1, <1>4, <1>9 DEF Promise!Next

LEMMA CreateIsWalkIn ==
  ASSUME TypeInv, NEW r \in Requests, Others(r), Creates(r)
  PROVE  Promise!Next
<1>0. PICK o \in First(NewOrders) :
        /\ orderActor' = [orderActor EXCEPT ![o] = {input[r].actor}]
        /\ keyRows' = keyRows \cup {[input |-> input[r], order |-> o]}
        /\ Answer(r, o)
        /\ UNCHANGED <<cartVars, orderCart, orderItems, redeemed>>
  BY Zenon DEF Creates, CreatePos
<1>1. o \in Orders /\ orderActor[o] = {}
  BY DEF First, NewOrders
<1>2. SameKey(input[r]) = {} /\ step[r] = "create_pos"
  BY DEF Creates, CreatePos
<1>3. input[r].key # NoKey /\ input[r].actor \in Cashiers /\ input[r] \in Inputs
  BY <1>2, AtStep DEF Fits
<1>4. Promise!Keep(r, input[r], o)
  BY <1>0, <1>1, <1>2, <1>3, WishIsKept
<1>5. Promise!WalkIn(o, input[r].actor)
  BY <1>0, <1>1, <1>3, <1>4 DEF Promise!WalkIn, cartVars
<1> QED
  BY <1>1, <1>3, <1>5 DEF Promise!Next

LEMMA PromiseStep ==
  TypeInv /\ CartInv /\ KeyInv /\ CouponInv /\ [Next]_vars => [Promise!Next]_Promise!vars
<1> SUFFICES ASSUME TypeInv, CartInv, KeyInv, CouponInv, [Next]_vars
             PROVE  [Promise!Next]_Promise!vars
  OBVIOUS
<1>1. ASSUME UNCHANGED <<cartOwner, converted, orderVars, Told>> PROVE UNCHANGED Promise!vars
  BY <1>1 DEF Promise!vars, Promise!orderVars, orderVars, Told
<1>2. ASSUME NEW r \in Requests, Tells(r) PROVE Promise!Next
  <2>1. Promise!Answer(r)
    BY <1>2 DEF Tells, Promise!Answer, Promise!orderVars, orderVars, Told
  <2> QED
    BY <2>1 DEF Promise!Next
<1>3. ASSUME NEW r \in Requests, Opens(r) PROVE Promise!Next
  <2>1. PICK c \in Carts, u \in Customers :
          cartOwner[c] = {} /\ cartOwner' = [cartOwner EXCEPT ![c] = {u}]
    BY <1>3 DEF Opens
  <2>2. Promise!Open(c, u)
    BY <1>3, <2>1 DEF Opens, Promise!Open, Promise!orderVars, orderVars, Told
  <2> QED
    BY <2>2 DEF Promise!Next
<1>4. ASSUME NEW r \in Requests, Arrive(r) \/ Handle(r) \/ Fail(r) PROVE Promise!Next
  BY <1>2, <1>3, <1>4, OthersWait, PromiseSteps, CompleteIsPurchase, CreateIsWalkIn
<1>5. ASSUME UNCHANGED <<cartOwner, converted, orderVars, input, outcome>>
      PROVE  [Promise!Next]_Promise!vars
  BY <1>1, <1>5 DEF Told
<1>6. ASSUME NEW j \in Items, RemoveItem(j) PROVE [Promise!Next]_Promise!vars
  BY <1>5, <1>6 DEF RemoveItem
<1>7. ASSUME NEW u \in Customers, Clear(u) PROVE [Promise!Next]_Promise!vars
  BY <1>5, <1>7 DEF Clear
<1>8. CASE UNCHANGED vars
  BY <1>5, <1>8 DEF vars, cartVars
<1> QED
  BY <1>4, <1>6, <1>7, <1>8 DEF Next

\* Checkout implements Purchases: whatever requests overlap, fail and repeat, an
\* order appears at once with its cart, coupon and key row, and nothing of it
\* ever changes.
THEOREM CheckoutImplementsPurchases == Spec => ImplementsPurchases
<1>1. Init => Promise!Init
  BY DEF Init, Promise!Init
<1> QED
  BY <1>1, TypeInit, CartInit, KeyInit, CouponInit, TypeStep, CartStep, KeyStep, CouponStep,
     PromiseStep, PTL DEF Spec, ImplementsPurchases, Promise!Spec

\* By way of the refinement: nothing of an order changes after it has been placed,
\* neither its cart, its items nor its coupon, and no key is forgotten.
THEOREM PlacedOrdersStay == Spec => Promise!PlacedStays
<1>1. TypeInv /\ [Promise!Next]_Promise!vars => Promise!KeepsPlaced
  <2> SUFFICES ASSUME TypeInv, [Promise!Next]_Promise!vars PROVE Promise!KeepsPlaced
    OBVIOUS
  <2>t. /\ orderActor \in [Orders -> SUBSET Actors] /\ orderCart \in [Orders -> SUBSET Carts]
        /\ orderItems \in [Orders -> SUBSET Items]
    BY DEF TypeInv, RowsTypeOK
  <2>1. ASSUME UNCHANGED <<orderActor, orderCart, orderItems, redeemed, keyRows>> PROVE Promise!KeepsPlaced
    BY <2>1 DEF Promise!KeepsPlaced
  <2>2. ASSUME NEW r, NEW w, NEW o, Promise!Keep(r, w, o) PROVE keyRows \subseteq keyRows'
    BY <2>2 DEF Promise!Keep
  <2>3. ASSUME NEW o \in Orders, NEW u \in Customers, Promise!Purchase(o, u) PROVE Promise!KeepsPlaced
    <3>1. PICK c, S, r, w :
            /\ orderActor[o] = {} /\ orderActor' = [orderActor EXCEPT ![o] = {u}]
            /\ orderCart' = [orderCart EXCEPT ![o] = {c}]
            /\ orderItems' = [orderItems EXCEPT ![o] = S]
            /\ redeemed' = redeemed \cup {o} \/ UNCHANGED redeemed
            /\ Promise!Keep(r, w, o)
      BY <2>3 DEF Promise!Purchase, Promise!Redeem
    <3> QED
      BY <2>2, <2>t, <3>1 DEF Promise!KeepsPlaced
  <2>4. ASSUME NEW o \in Orders, NEW u \in Cashiers, Promise!WalkIn(o, u) PROVE Promise!KeepsPlaced
    <3>1. PICK r, w :
            /\ orderActor[o] = {} /\ orderActor' = [orderActor EXCEPT ![o] = {u}]
            /\ UNCHANGED <<orderCart, orderItems, redeemed>>
            /\ Promise!Keep(r, w, o)
      BY <2>4 DEF Promise!WalkIn
    <3> QED
      BY <2>2, <2>t, <3>1 DEF Promise!KeepsPlaced
  <2>5. ASSUME NEW c, NEW u, Promise!Open(c, u) PROVE Promise!KeepsPlaced
    BY <2>1, <2>5 DEF Promise!Open, Promise!orderVars
  <2>6. ASSUME NEW r, Promise!Answer(r) PROVE Promise!KeepsPlaced
    BY <2>1, <2>6 DEF Promise!Answer, Promise!orderVars
  <2>7. CASE UNCHANGED Promise!vars
    BY <2>1, <2>7 DEF Promise!vars, Promise!orderVars
  <2> QED
    BY <2>3, <2>4, <2>5, <2>6, <2>7 DEF Promise!Next
<1> QED
  BY <1>1, CheckoutImplementsPurchases, TypeInit, TypeStep, PTL
     DEF Spec, ImplementsPurchases, Promise!Spec, Promise!PlacedStays
=============================================================================
