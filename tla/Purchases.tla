----------------------------- MODULE Purchases -----------------------------
(***************************************************************************)
(* What checkout and the POS promise: an order is there at once with its   *)
(* buyer, its cart, its items, its coupon and the answer to its key, and   *)
(* stays as it is.  Nothing is sold twice, whoever repeats a wish gets the *)
(* order it has got, and every answer is a wish that was kept.             *)
(***************************************************************************)
EXTENDS Naturals, FiniteSets

CONSTANTS Clients,      \* who waits for answers
          Customers, Cashiers,
          Wishes,       \* records of what an actor asks for: a key, a cart, a body
          NoKey,        \* the key of a wish that is not to be remembered
          CouponBodies, \* bodies that name the coupon
          Carts, Items, Orders,
          TotalLimit, CustomerLimit

VARIABLES
  owner,    \* the customer of a cart, {} before there is one
  closed,   \* the carts that have become orders
  buyer,    \* who placed the order, {} before there is one
  cart,     \* the cart it was, {} for a walk-in order
  sold,     \* the items that were in it
  redeemed, \* the orders with the coupon
  kept,     \* the wishes with a key and the order of each
  answer    \* the wish and the order each client was last answered with

orderVars == <<closed, buyer, cart, sold, redeemed, kept>>
vars == <<owner, orderVars, answer>>

Init ==
  /\ owner = [c \in Carts |-> {}]
  /\ closed = {}
  /\ buyer = [o \in Orders |-> {}]
  /\ cart = [o \in Orders |-> {}]
  /\ sold = [o \in Orders |-> {}]
  /\ redeemed = {}
  /\ kept = {}
  /\ answer = [r \in Clients |-> {}]

Open(c, u) ==
  /\ owner[c] = {}
  /\ owner' = [owner EXCEPT ![c] = {u}]
  /\ UNCHANGED <<orderVars, answer>>

\* A client is answered with a wish that was kept, or asks for something else.
Answer(r) ==
  /\ \E K \in {{}} \cup {{k} : k \in kept} : answer' = [answer EXCEPT ![r] = K]
  /\ UNCHANGED <<owner, orderVars>>

\* The wish of client r got order o; a key gets one.
Keep(r, w, o) ==
  LET mine == IF w.key = NoKey THEN {} ELSE {[input |-> w, order |-> o]}
  IN /\ \A k \in kept, l \in mine : k.input.actor = l.input.actor => k.input.key # l.input.key
     /\ kept' = kept \cup mine
     /\ answer' = [answer EXCEPT ![r] = mine]

Below(uses, limit) == limit \in Nat /\ uses < limit
Redeem(u, o) ==
  /\ Below(Cardinality(redeemed), TotalLimit)
  /\ Below(Cardinality({p \in redeemed : buyer[p] = {u}}), CustomerLimit)
  /\ redeemed' = redeemed \cup {o}

\* A customer's open cart becomes the order, with items nobody has bought.
Purchase(o, u) ==
  /\ buyer[o] = {}
  /\ buyer' = [buyer EXCEPT ![o] = {u}]
  /\ \E c \in Carts \ closed :
       /\ owner[c] = {u}
       /\ closed' = closed \cup {c}
       /\ cart' = [cart EXCEPT ![o] = {c}]
       /\ \E S \in (SUBSET Items) \ {{}} :
            /\ \A p \in Orders : sold[p] \cap S = {}
            /\ sold' = [sold EXCEPT ![o] = S]
       /\ \E r \in Clients, w \in Wishes :
            /\ w.actor = u /\ w.cart = c /\ Keep(r, w, o)
            /\ IF w.body \in CouponBodies THEN Redeem(u, o) ELSE UNCHANGED redeemed
  /\ UNCHANGED owner

WalkIn(o, u) ==
  /\ buyer[o] = {}
  /\ buyer' = [buyer EXCEPT ![o] = {u}]
  /\ \E r \in Clients, w \in Wishes : w.actor = u /\ w.key # NoKey /\ Keep(r, w, o)
  /\ UNCHANGED <<owner, closed, cart, sold, redeemed>>

Next ==
  \/ \E c \in Carts, u \in Customers : Open(c, u)
  \/ \E r \in Clients : Answer(r)
  \/ \E o \in Orders, u \in Customers : Purchase(o, u)
  \/ \E o \in Orders, u \in Cashiers : WalkIn(o, u)

Spec == Init /\ [][Next]_vars

\* An order that has been placed stays as it is, and a wish that was kept is kept.
KeepsPlaced ==
  /\ \A o \in Orders : buyer[o] # {} =>
       /\ buyer'[o] = buyer[o] /\ cart'[o] = cart[o] /\ sold'[o] = sold[o]
       /\ o \in redeemed' <=> o \in redeemed
  /\ kept \subseteq kept'
PlacedStays == [][KeepsPlaced]_vars
=============================================================================
