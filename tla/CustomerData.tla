---------------------------- MODULE CustomerData ----------------------------
(***************************************************************************)
(* The rows a customer's app keeps about its customer: profile and         *)
(* preferences (CustomersService), addresses (AddressesService), favourites*)
(* (FavoritesService), device tokens and notification preferences          *)
(* (NotificationsService) and carts (CartsService, as far as a request     *)
(* makes one), and the deletion request that erases most of them.          *)
(*                                                                         *)
(* A handler is the sequence of its database statements; what each finds   *)
(* may change it.  repository.save of a row that is gone inserts it again  *)
(* under its old id.  Only the addresses' transactions hold locks beyond   *)
(* one statement.  The columns of a row that no rule reads are left out,   *)
(* and so are other customers: no row is shared with them.                 *)
(***************************************************************************)
EXTENDS Naturals, Sequences

CONSTANTS Requests, \* requests the API handles at a time
          Ids       \* bound: the keys of the rows there are or a request has read

VARIABLES
  rows,       \* the rows there are
  request,    \* what each request has still to do, was sent and has read
  snapshot,   \* what the running deletion saw: {} if none runs, else {its rows}
  overlapped, \* a request on a table it erases was under way while the deletion ran
  erased      \* the deletion has committed: the account is deleted

customerVars == <<rows, request, snapshot, overlapped, erased>>

Tables == {"profile", "preference", "address", "favorite", "device", "notice", "cart"}
Row == [table : Tables, id : Ids, active : BOOLEAN, default : BOOLEAN]

\* "active" and "default" are the flags to set: {} leaves one alone.  "picked"
\* are the default addresses a transaction clears, "held" once it has them locked.
Idle == [todo |-> <<>>, active |-> {}, default |-> {},
         seen |-> {}, picked |-> {}, held |-> FALSE]

Init ==
  /\ rows = {}
  /\ request = [r \in Requests |-> Idle]
  /\ snapshot = {}
  /\ overlapped = FALSE
  /\ erased = FALSE
-----------------------------------------------------------------------------
Busy(r) == request[r].todo # <<>>
Of(t) == {x \in rows : x.table = t}
Named(S) == {x.id : x \in S}

InUse == Named(rows) \cup Named(UNION snapshot)
           \cup UNION {Named(request[r].seen) \cup request[r].picked : r \in Requests}
Fresh == Ids \ InUse

\* The unique columns, and the partial index uq_customer_default_address.
Singular == {"profile", "preference", "device", "notice"}
Storable(S) ==
  /\ \A x, y \in S : x.table = y.table /\ x.table \in Singular => x = y
  /\ \A x, y \in S : x.active /\ x.default /\ y.active /\ y.default => x = y

\* What each handler does to the database.
ProfileScripts ==
  LET p == "profile" q == "preference" IN
  {<<<<"view", p>>>>,
   <<<<"find", p>>, <<"save", p>>, <<"view", p>>>>,
   <<<<"view", q>>>>,
   <<<<"view", q>>, <<"require", q>>, <<"save", q>>, <<"view", q>>>>,
   <<<<"view", q>>, <<"require", q>>, <<"save", q>>,
     <<"find", p>>, <<"save", p>>, <<"view", q>>>>}
FavoriteScripts ==
  LET f == "favorite" IN
  {<<<<"find", f>>, <<"save", f>>>>, <<<<"save", f>>>>,
   <<<<"require", f>>, <<"delete", f>>>>}
NoticeScripts == {<<<<"view", "notice">>>>, <<<<"find", "notice">>, <<"save", "notice">>>>}
GetCart == <<<<"view", "cart">>>>
RegisterDevice   == <<<<"find", "device">>, <<"save", "device">>>>
DeactivateDevice == <<<<"require", "device">>, <<"save", "device">>>>
WriteAddress(default) ==
  IF TRUE \in default THEN <<<<"clear", "address">>, <<"save", "address">>>>
                      ELSE <<<<"save", "address">>>>
UpdateAddress(default) == <<<<"require", "address">>>> \o WriteAddress(default)
RemoveAddress == <<<<"require", "address">>, <<"save", "address">>>>

\* The deletion leaves these rows, and so may the requests on them overlap it.
Kept == {"notice", "cart"}
Harmless(todo) == \A i \in 1 .. Len(todo) : todo[i][2] \in Kept

\* JwtStrategy.validate lets in a request of an account that is active.
Admit(r, script, active, default) ==
  /\ ~Busy(r) /\ ~erased
  /\ request' = [request EXCEPT ![r] =
                   [Idle EXCEPT !.todo = script, !.active = active, !.default = default]]
  /\ overlapped' = (overlapped \/ (snapshot # {} /\ ~Harmless(script)))
  /\ UNCHANGED <<rows, snapshot, erased>>

Arrive(r) ==
  \/ \E script \in ProfileScripts \cup FavoriteScripts \cup NoticeScripts \cup {GetCart} :
       Admit(r, script, {}, {})
  \/ Admit(r, RegisterDevice, {}, {})
  \/ Admit(r, DeactivateDevice, {}, {})
  \/ \E default \in {{TRUE}, {FALSE}} : Admit(r, WriteAddress(default), {TRUE}, default)
  \/ \E default \in {{}, {TRUE}, {FALSE}} :
       Admit(r, UpdateAddress(default), {}, default)
  \/ Admit(r, RemoveAddress, {FALSE}, {FALSE})
-----------------------------------------------------------------------------
At(r, op, t) == Busy(r) /\ Head(request[r].todo) = <<op, t>>
Rest(r) == Tail(request[r].todo)

\* The request goes on with "todo" having read "seen"; without, it is over.
GoOn(r, todo, seen) ==
  request' = [request EXCEPT ![r] = IF todo = <<>> THEN Idle
                                    ELSE [@ EXCEPT !.todo = todo, !.seen = seen]]
Over(r) == request' = [request EXCEPT ![r] = Idle]

Reading == UNCHANGED <<rows, snapshot, overlapped, erased>>

\* profile() and preferences() insert the row if there is none.
View(r, t) ==
  /\ At(r, "view", t)
  /\ GoOn(r, (IF Of(t) = {} THEN <<<<"insert", t>>>> ELSE <<>>) \o Rest(r), {})
  /\ Reading

Find(r, t) ==
  /\ At(r, "find", t)
  /\ \/ \E x \in Of(t) : GoOn(r, Rest(r), {x})
     \/ /\ Of(t) = {}
        /\ GoOn(r, (IF t = "profile" THEN <<<<"view", t>>, <<"require", t>>>> ELSE <<>>)
                     \o Rest(r), {})
  /\ Reading

\* Addresses that were removed are kept, but not found.
Require(r, t) ==
  /\ At(r, "require", t)
  /\ LET found == {x \in Of(t) : t = "address" => x.active} IN
     \/ \E x \in found : GoOn(r, Rest(r), {x})
     \/ found = {} /\ Over(r)
  /\ Reading

Insert(r, t) ==
  /\ At(r, "insert", t)
  /\ \E n \in Fresh :
       LET after == rows \cup {[table |-> t, id |-> n, active |-> TRUE, default |-> FALSE]} IN
       \/ Storable(after) /\ rows' = after /\ GoOn(r, Rest(r), {})
       \/ ~Storable(after) /\ UNCHANGED rows /\ Over(r)
  /\ UNCHANGED <<snapshot, overlapped, erased>>

\* A fault: create and update run without a transaction.
ClearAtOnce(r) ==
  /\ At(r, "clear", "address")
  /\ rows' = {[x EXCEPT !.default = FALSE] : x \in rows}
  /\ GoOn(r, Rest(r), request[r].seen)
  /\ UNCHANGED <<snapshot, overlapped, erased>>
\* UPDATE ... SET is_default = false: the rows its snapshot shows, each of them
\* once no other transaction has it locked, and if it is still a default then.
Clear(r) ==
  /\ At(r, "clear", "address")
  /\ request' = [request EXCEPT ![r].todo = <<<<"lock", "address">>>> \o Rest(r),
                                ![r].picked = Named({x \in rows : x.default})]
  /\ Reading
Lock(r) ==
  /\ At(r, "lock", "address")
  /\ \A q \in Requests : request[q].held => request[q].picked \cap request[r].picked = {}
  /\ request' = [request EXCEPT ![r].todo = Rest(r), ![r].held = TRUE,
                                ![r].picked = @ \cap Named({x \in rows : x.default})]
  /\ Reading

Cleared(r, x) ==
  IF request[r].held /\ x.id \in request[r].picked THEN [x EXCEPT !.default = FALSE] ELSE x
Changed(r, x) ==
  [x EXCEPT !.active  = IF request[r].active = {}  THEN @ ELSE TRUE \in request[r].active,
            !.default = IF request[r].default = {} THEN @ ELSE TRUE \in request[r].default]
New(t) == {[table |-> t, id |-> n, active |-> TRUE, default |-> FALSE] : n \in Fresh}

\* Commits with the flags cleared before.  A row that goes after save has looked
\* for it and before it is updated is not inserted again.
Save(r, t) ==
  /\ At(r, "save", t)
  /\ \E x \in (IF request[r].seen = {} THEN New(t) ELSE request[r].seen) :
       LET others == {Cleared(r, y) : y \in {y \in rows : y.id # x.id}}
           after  == others \cup {Changed(r, x)}
       IN \/ Storable(after) /\ rows' = after /\ GoOn(r, Rest(r), {})
          \/ ~Storable(after) /\ UNCHANGED rows /\ Over(r)
          \/ /\ request[r].seen # {} /\ x.id \notin Named(rows)
             /\ rows' = others /\ GoOn(r, Rest(r), {})
  /\ UNCHANGED <<snapshot, overlapped, erased>>

Delete(r, t) ==
  /\ At(r, "delete", t)
  /\ rows' = {x \in rows : x.id \notin Named(request[r].seen)}
  /\ GoOn(r, Rest(r), {})
  /\ UNCHANGED <<snapshot, overlapped, erased>>

\* The process dies, or the database refuses: an open transaction is undone.
Fail(r) ==
  /\ Busy(r)
  /\ Over(r)
  /\ Reading
-----------------------------------------------------------------------------
\* A fault: the device tokens are forgotten.
ErasableButDevices == {"favorite", "address", "preference", "profile"}
\* What anonymizeAccount deletes of these tables.
Erasable == {"device", "favorite", "address", "preference", "profile"}

\* fulfillPrivacyRequest is REPEATABLE READ: it sees the rows of its first
\* statement, and fails if it is to delete one that was changed since.
BeginErasure ==
  /\ ~erased /\ snapshot = {}
  /\ snapshot' = {{x \in rows : x.table \in Erasable}}
  /\ overlapped' = ~ \A r \in Requests : Harmless(request[r].todo)
  /\ UNCHANGED <<rows, request, erased>>
CommitErasure ==
  /\ \E S \in snapshot :
       /\ S \subseteq rows
       /\ \A r \in Requests : request[r].held => request[r].picked \cap Named(S) = {}
       /\ rows' = rows \ S
  /\ snapshot' = {}
  /\ erased' = TRUE
  /\ UNCHANGED <<request, overlapped>>
AbortErasure ==
  /\ snapshot # {}
  /\ snapshot' = {}
  /\ overlapped' = FALSE
  /\ UNCHANGED <<rows, request, erased>>

Next ==
  \/ \E r \in Requests :
       \/ Arrive(r) \/ Clear(r) \/ Lock(r) \/ Fail(r)
       \/ \E t \in Tables : \/ View(r, t) \/ Find(r, t) \/ Require(r, t)
                            \/ Insert(r, t) \/ Save(r, t) \/ Delete(r, t)
  \/ BeginErasure \/ CommitErasure \/ AbortErasure

Spec == Init /\ [][Next]_customerVars
-----------------------------------------------------------------------------
Ops == {"view", "find", "require", "insert", "clear", "lock", "save", "delete"}
Request == [todo : Seq(Ops \X Tables), active : SUBSET BOOLEAN, default : SUBSET BOOLEAN,
            seen : SUBSET Row, picked : SUBSET Ids, held : BOOLEAN]

\* The rows and requests have the shape the handlers give them.
TypeOK ==
  /\ rows \in SUBSET Row
  /\ request \in [Requests -> Request]
  /\ snapshot \in SUBSET (SUBSET Row)
  /\ overlapped \in BOOLEAN /\ erased \in BOOLEAN

\* Of the rows followed here a deletion that no request on the tables it erases
\* overlapped leaves carts and notification preferences only, then or later,
\* although requests that make those are under way (anonymizeAccount, with
\* JwtStrategy.validate for what arrives later).
ErasureIsComplete == erased /\ ~overlapped => \A x \in rows : x.table \in Kept

\* The default address goes only with the deletion or because an address that
\* had been read is saved: adding one, successful or not, and any request that
\* fails leave the customer with a default (the transactions of AddressesService).
Defaults == {x \in rows : x.default}
DefaultIsReplaced ==
  [][Defaults # {} /\ Defaults' = {} =>
       \/ erased'
       \/ \E r \in Requests : At(r, "save", "address") /\ request[r].seen # {}
                               /\ request'[r] = Idle]_customerVars
=============================================================================
