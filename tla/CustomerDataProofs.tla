------------------------- MODULE CustomerDataProofs -------------------------
(***************************************************************************)
(* Proofs about CustomerData, for any number of requests and rows.         *)
(***************************************************************************)
EXTENDS CustomerData, SequenceTheorems, TLAPS

Todo == Seq(Ops \X Tables)
Flags == SUBSET BOOLEAN

LEMMA IdleType == Idle \in Request
BY DEF Idle, Request, Ops, Tables

LEMMA PairType == \A op \in Ops, t \in Tables : <<op, t>> \in Ops \X Tables
OBVIOUS

\* The statements of every handler.
LEMMA ScriptType ==
  /\ ProfileScripts \subseteq Todo /\ FavoriteScripts \subseteq Todo
  /\ NoticeScripts \subseteq Todo /\ GetCart \in Todo
  /\ RegisterDevice \in Todo /\ DeactivateDevice \in Todo /\ RemoveAddress \in Todo
  /\ \A d \in Flags : WriteAddress(d) \in Todo /\ UpdateAddress(d) \in Todo
<1> DEFINE S == Ops \X Tables
<1>1. \A x \in S : <<x>> \in Todo
  BY DEF Todo
<1>2. \A x, y \in S : <<x, y>> \in Todo
  BY DEF Todo
<1>3. \A x, y, z \in S : <<x, y, z>> \in Todo
  BY DEF Todo
<1>4. \A x, y, z, v \in S : <<x, y, z, v>> \in Todo
  BY DEF Todo
<1>5. \A x, y, z, u, v, w \in S : <<x, y, z, u, v, w>> \in Todo
  BY DEF Todo
<1>6. /\ \A t \in {"profile", "preference", "notice", "cart"} : <<"view", t>> \in S
      /\ \A op \in {"find", "save"} : <<op, "notice">> \in S
      /\ \A op \in {"find", "save"} : <<op, "profile">> \in S
      /\ \A op \in {"require", "save"} : <<op, "preference">> \in S
      /\ \A op \in {"find", "save", "require", "delete"} : <<op, "favorite">> \in S
      /\ \A op \in {"find", "save", "require"} : <<op, "device">> \in S
      /\ \A op \in {"clear", "save", "require"} : <<op, "address">> \in S
  BY DEF Ops, Tables
<1>7. ProfileScripts \subseteq Todo
  <2> DEFINE p == "profile" q == "preference"
             vp == <<"view", p>> fp == <<"find", p>> sp == <<"save", p>>
             vq == <<"view", q>> rq == <<"require", q>> sq == <<"save", q>>
  <2>1. vp \in S /\ fp \in S /\ sp \in S /\ vq \in S /\ rq \in S /\ sq \in S
    BY <1>6
  <2>2. <<vp>> \in Todo /\ <<vq>> \in Todo
    BY <1>1, <2>1
  <2>3. <<fp, sp, vp>> \in Todo
    BY <1>3, <2>1
  <2>4. <<vq, rq, sq, vq>> \in Todo
    BY <1>4, <2>1
  <2>5. <<vq, rq, sq, fp, sp, vq>> \in Todo
    BY <1>5, <2>1
  <2>6. ProfileScripts = {<<vp>>, <<fp, sp, vp>>, <<vq>>, <<vq, rq, sq, vq>>,
                          <<vq, rq, sq, fp, sp, vq>>}
    BY DEF ProfileScripts
  <2> HIDE DEF vp, fp, sp, vq, rq, sq
  <2> QED BY <2>2, <2>3, <2>4, <2>5, <2>6
<1>8. FavoriteScripts \subseteq Todo
  BY <1>1, <1>2, <1>6 DEF FavoriteScripts
<1>n. NoticeScripts \subseteq Todo /\ GetCart \in Todo
  BY <1>1, <1>2, <1>6 DEF NoticeScripts, GetCart
<1>9. RegisterDevice \in Todo /\ DeactivateDevice \in Todo /\ RemoveAddress \in Todo
  BY <1>2, <1>6 DEF RegisterDevice, DeactivateDevice, RemoveAddress
<1>10. ASSUME NEW d \in Flags PROVE WriteAddress(d) \in Todo
  BY <1>1, <1>2, <1>6 DEF WriteAddress
<1>11. ASSUME NEW d \in Flags PROVE UpdateAddress(d) \in Todo
  <2>1. <<<<"require", "address">>>> \in Todo
    BY <1>1, <1>6
  <2> QED BY <2>1, <1>10 DEF UpdateAddress, Todo
<1> QED BY <1>7, <1>8, <1>9, <1>10, <1>11, <1>n

LEMMA RestType ==
  ASSUME TypeOK, NEW r \in Requests, NEW op, NEW t, At(r, op, t)
  PROVE  /\ Rest(r) \in Todo
         /\ \A x \in Ops \X Tables : <<x>> \o Rest(r) \in Todo
         /\ \A x, y \in Ops \X Tables : <<x, y>> \o Rest(r) \in Todo
<1>1. request[r].todo \in Todo /\ request[r].todo # <<>>
  BY DEF TypeOK, Request, Todo, At, Busy
<1>2. Rest(r) \in Todo
  BY <1>1 DEF Rest, Todo
<1>3. /\ \A x \in Ops \X Tables : <<x>> \in Todo
      /\ \A x, y \in Ops \X Tables : <<x, y>> \in Todo
  BY DEF Todo
<1> QED BY <1>2, <1>3 DEF Todo

LEMMA FieldTypes ==
  ASSUME TypeOK, NEW r \in Requests
  PROVE  /\ request[r].seen \in SUBSET Row
         /\ request[r].active \in Flags /\ request[r].default \in Flags
         /\ request[r].picked \in SUBSET Ids
BY DEF TypeOK, Request, Flags

LEMMA GoOnType ==
  ASSUME TypeOK, NEW r \in Requests, NEW todo \in Todo, NEW seen \in SUBSET Row,
         GoOn(r, todo, seen)
  PROVE  request' \in [Requests -> Request]
<1>1. ASSUME NEW x \in Request PROVE [x EXCEPT !.todo = todo] \in Request
  BY DEF Request, Todo
<1>2. ASSUME NEW x \in Request PROVE [x EXCEPT !.seen = seen] \in Request
  BY DEF Request
<1>3. [[request[r] EXCEPT !.todo = todo] EXCEPT !.seen = seen] \in Request
  BY <1>1, <1>2 DEF TypeOK
<1>4. [request[r] EXCEPT !.todo = todo, !.seen = seen] \in Request
  BY <1>3
<1> QED BY <1>4, IdleType DEF GoOn, TypeOK

LEMMA OverType ==
  ASSUME TypeOK, NEW r \in Requests, Over(r)
  PROVE  request' \in [Requests -> Request]
BY IdleType DEF Over, TypeOK

LEMMA AdmitType ==
  ASSUME TypeOK, NEW r \in Requests, NEW s \in Todo, NEW a \in Flags, NEW d \in Flags,
         Admit(r, s, a, d)
  PROVE  TypeOK'
<1>1. [Idle EXCEPT !.todo = s, !.active = a, !.default = d] \in Request
  BY IdleType DEF Request, Todo, Flags
<1> QED BY <1>1 DEF Admit, TypeOK

\* A request arrives with the statements and the flags of one handler.
LEMMA ArriveIs ==
  ASSUME NEW r \in Requests, Arrive(r)
  PROVE  \E s \in Todo, a \in Flags, d \in Flags : Admit(r, s, a, d)
<1>1. {} \in Flags /\ {TRUE} \in Flags /\ {FALSE} \in Flags
  BY DEF Flags
<1> QED BY <1>1, ScriptType DEF Arrive

\* What save and insert may leave in the table.
LEMMA SaveRows ==
  ASSUME TypeOK, NEW r \in Requests, NEW t \in Tables, Save(r, t)
  PROVE  /\ rows' \in SUBSET Row
         /\ request' \in [Requests -> Request]
<1> DEFINE From == IF request[r].seen = {} THEN New(t) ELSE request[r].seen
<1>1. From \subseteq Row
  <2>1. \A n \in Fresh : [table |-> t, id |-> n, active |-> TRUE, default |-> FALSE] \in Row
    BY DEF Fresh, Row
  <2>2. New(t) \subseteq Row
    BY <2>1 DEF New
  <2> QED BY <2>2, FieldTypes
<1>2. PICK x \in From :
        LET others == {Cleared(r, y) : y \in {y \in rows : y.id # x.id}}
            after  == others \cup {Changed(r, x)}
        IN \/ Storable(after) /\ rows' = after /\ GoOn(r, Rest(r), {})
           \/ ~Storable(after) /\ UNCHANGED rows /\ Over(r)
           \/ /\ request[r].seen # {} /\ x.id \notin Named(rows)
              /\ rows' = others /\ GoOn(r, Rest(r), {})
  BY DEF Save
<1> DEFINE others == {Cleared(r, y) : y \in {y \in rows : y.id # x.id}}
<1>3. x \in Row
  BY <1>1
<1>4. others \in SUBSET Row
  <2>1. ASSUME NEW y \in Row PROVE Cleared(r, y) \in Row
    BY DEF Cleared, Row
  <2> QED BY <2>1 DEF TypeOK
<1>5. Changed(r, x) \in Row
  <2>1. /\ (IF request[r].active = {} THEN x.active ELSE TRUE \in request[r].active) \in BOOLEAN
        /\ (IF request[r].default = {} THEN x.default ELSE TRUE \in request[r].default) \in BOOLEAN
    <3>1. x.active \in BOOLEAN /\ x.default \in BOOLEAN
      BY <1>3 DEF Row
    <3>2. /\ (TRUE \in request[r].active) \in BOOLEAN
          /\ (TRUE \in request[r].default) \in BOOLEAN
      OBVIOUS
    <3>3. (IF request[r].active = {} THEN x.active ELSE TRUE \in request[r].active) \in BOOLEAN
      <4>1. CASE request[r].active = {}
        BY <3>1, <4>1
      <4>2. CASE request[r].active # {}
        BY <3>2, <4>2
      <4> QED BY <4>1, <4>2
    <3>4. (IF request[r].default = {} THEN x.default ELSE TRUE \in request[r].default) \in BOOLEAN
      <4>1. CASE request[r].default = {}
        BY <3>1, <4>1
      <4>2. CASE request[r].default # {}
        BY <3>2, <4>2
      <4> QED BY <4>1, <4>2
    <3> QED BY <3>3, <3>4
  <2>2. \A y \in Row, b \in BOOLEAN : [y EXCEPT !.active = b] \in Row
    BY DEF Row
  <2>3. \A y \in Row, b \in BOOLEAN : [y EXCEPT !.default = b] \in Row
    BY DEF Row
  <2> DEFINE a == IF request[r].active = {} THEN x.active ELSE TRUE \in request[r].active
             d == IF request[r].default = {} THEN x.default ELSE TRUE \in request[r].default
  <2>4. [[x EXCEPT !.active = a] EXCEPT !.default = d] \in Row
    BY <1>3, <2>1, <2>2, <2>3
  <2>5. Changed(r, x) = [[x EXCEPT !.active = a] EXCEPT !.default = d]
    BY <1>3 DEF Changed, Row
  <2> QED BY <2>4, <2>5
<1>6. request' \in [Requests -> Request]
  <2>1. Rest(r) \in Todo
    BY RestType DEF Save
  <2> QED BY <1>2, <2>1, GoOnType, OverType
<1> QED BY <1>2, <1>3, <1>4, <1>5, <1>6 DEF TypeOK

LEMMA InsertRows ==
  ASSUME TypeOK, NEW r \in Requests, NEW t \in Tables, Insert(r, t)
  PROVE  /\ rows' \in SUBSET Row
         /\ request' \in [Requests -> Request]
<1>1. Rest(r) \in Todo
  BY RestType DEF Insert
<1>2. \A n \in Fresh : [table |-> t, id |-> n, active |-> TRUE, default |-> FALSE] \in Row
  BY DEF Fresh, Row
<1>3. PICK n \in Fresh :
        LET after == rows \cup {[table |-> t, id |-> n, active |-> TRUE, default |-> FALSE]}
        IN \/ Storable(after) /\ rows' = after /\ GoOn(r, Rest(r), {})
           \/ ~Storable(after) /\ UNCHANGED rows /\ Over(r)
  BY DEF Insert
<1>4. request' \in [Requests -> Request]
  BY <1>1, <1>3, GoOnType, OverType
<1>5. rows' \in SUBSET Row
  BY <1>2, <1>3 DEF TypeOK
<1> QED BY <1>3, <1>4, <1>5

-----------------------------------------------------------------------------
(* Type correctness.                                                       *)

LEMMA InitType == Init => TypeOK
BY IdleType DEF Init, TypeOK

LEMMA ReadingType ==
  ASSUME TypeOK, Reading, request' \in [Requests -> Request] PROVE TypeOK'
BY DEF TypeOK, Reading

LEMMA StatementType ==
  ASSUME TypeOK, NEW r \in Requests, NEW t \in Tables,
         \/ View(r, t) \/ Find(r, t) \/ Require(r, t)
         \/ Insert(r, t) \/ Save(r, t) \/ Delete(r, t)
  PROVE  TypeOK'
<1> USE PairType
<1>1. CASE View(r, t)
  <2>1. <<<<"insert", t>>>> \o Rest(r) \in Todo
    BY <1>1, RestType DEF View, Ops
  <2>2. Rest(r) \in Todo /\ <<>> \o Rest(r) = Rest(r)
    BY <1>1, RestType DEF View, Todo
  <2>3. (IF Of(t) = {} THEN <<<<"insert", t>>>> ELSE <<>>) \o Rest(r) \in Todo
    BY <2>1, <2>2
  <2> QED BY <1>1, <2>3, GoOnType, ReadingType DEF View
<1>2. CASE Find(r, t)
  <2>1. Rest(r) \in Todo /\ <<>> \o Rest(r) = Rest(r)
    BY <1>2, RestType DEF Find, Todo
  <2>2. <<"view", t>> \in Ops \X Tables /\ <<"require", t>> \in Ops \X Tables
    BY DEF Ops
  <2>3. <<<<"view", t>>, <<"require", t>>>> \o Rest(r) \in Todo
    BY <1>2, <2>2, RestType DEF Find
  <2>4. (IF t = "profile" THEN <<<<"view", t>>, <<"require", t>>>> ELSE <<>>) \o Rest(r) \in Todo
    BY <2>1, <2>3
  <2>5. \A x \in Of(t) : {x} \in SUBSET Row
    BY DEF Of, TypeOK
  <2>6. request' \in [Requests -> Request]
    BY <1>2, <2>1, <2>4, <2>5, GoOnType DEF Find
  <2> QED BY <1>2, <2>6, ReadingType DEF Find
<1>3. CASE Require(r, t)
  <2>1. Rest(r) \in Todo
    BY <1>3, RestType DEF Require
  <2>2. \A x \in {x \in Of(t) : t = "address" => x.active} : {x} \in SUBSET Row
    BY DEF Of, TypeOK
  <2>3. request' \in [Requests -> Request]
    BY <1>3, <2>1, <2>2, GoOnType, OverType DEF Require
  <2> QED BY <1>3, <2>3, ReadingType DEF Require
<1>4. CASE Insert(r, t)
  BY <1>4, InsertRows DEF Insert, TypeOK
<1>5. CASE Save(r, t)
  BY <1>5, SaveRows DEF Save, TypeOK
<1>6. CASE Delete(r, t)
  <2>1. request' \in [Requests -> Request]
    BY <1>6, RestType, GoOnType DEF Delete
  <2> QED BY <1>6, <2>1 DEF Delete, TypeOK
<1> QED BY <1>1, <1>2, <1>3, <1>4, <1>5, <1>6

LEMMA LocksType ==
  ASSUME TypeOK, NEW r \in Requests, Clear(r) \/ Lock(r)
  PROVE  TypeOK'
<1>1. Named({x \in rows : x.default}) \in SUBSET Ids
  BY DEF Named, TypeOK, Row
<1>2. CASE Clear(r)
  <2>1. <<<<"lock", "address">>>> \o Rest(r) \in Todo
    BY <1>2, PairType, RestType DEF Clear, Ops, Tables
  <2>2. /\ \A q \in Request, s \in Todo : [q EXCEPT !.todo = s] \in Request
        /\ \A q \in Request, S \in SUBSET Ids : [q EXCEPT !.picked = S] \in Request
    BY DEF Request, Todo
  <2>3. request' \in [Requests -> Request]
    BY <1>1, <1>2, <2>1, <2>2 DEF Clear, TypeOK
  <2> QED BY <1>2, <2>3, ReadingType DEF Clear
<1>3. CASE Lock(r)
  <2>1. Rest(r) \in Todo
    BY <1>3, RestType DEF Lock
  <2>2. /\ \A q \in Request, s \in Todo : [q EXCEPT !.todo = s] \in Request
        /\ \A q \in Request : [q EXCEPT !.held = TRUE] \in Request
        /\ \A q \in Request, S \in SUBSET Ids : [q EXCEPT !.picked = S] \in Request
    BY DEF Request, Todo
  <2>3. \A q \in Request : q.picked \cap Named({x \in rows : x.default}) \in SUBSET Ids
    BY <1>1
  <2> DEFINE a == [request[r] EXCEPT !.todo = Rest(r)]
             b == [a EXCEPT !.held = TRUE]
             N == Named({x \in rows : x.default})
             c == [b EXCEPT !.picked = request[r].picked \cap N]
  <2>4. request[r] \in Request /\ request[r].picked \cap N \in SUBSET Ids
    BY <2>3 DEF TypeOK
  <2>5. c \in Request
    BY <2>1, <2>2, <2>4
  <2>6. request' = [request EXCEPT ![r] = c]
    BY <1>3 DEF Lock, TypeOK, Request
  <2>7. request' \in [Requests -> Request]
    BY <2>5, <2>6 DEF TypeOK
  <2> QED BY <1>3, <2>7, ReadingType DEF Lock
<1> QED BY <1>2, <1>3

LEMMA StepType == TypeOK /\ [Next]_customerVars => TypeOK'
<1> SUFFICES ASSUME TypeOK, [Next]_customerVars PROVE TypeOK'
  OBVIOUS
<1>1. ASSUME NEW r \in Requests, Arrive(r) PROVE TypeOK'
  BY <1>1, ArriveIs, AdmitType
<1>2. ASSUME NEW r \in Requests, Fail(r) PROVE TypeOK'
  BY <1>2, OverType, ReadingType DEF Fail
<1>3. CASE BeginErasure
  BY <1>3 DEF BeginErasure, TypeOK
<1>4. CASE CommitErasure
  BY <1>4 DEF CommitErasure, TypeOK
<1>5. CASE AbortErasure
  BY <1>5 DEF AbortErasure, TypeOK
<1>6. CASE UNCHANGED customerVars
  BY <1>6 DEF customerVars, TypeOK
<1> QED BY <1>1, <1>2, <1>3, <1>4, <1>5, <1>6, StatementType, LocksType DEF Next

\* Every variable keeps its type in every reachable state.
THEOREM CustomerDataTypeCorrect == Spec => []TypeOK
<1> QED BY InitType, StepType, PTL DEF Spec

-----------------------------------------------------------------------------
(* The default address is replaced.  Two things are needed: what a request *)
(* has read is a row of the table it goes on to write, and a row keeps the *)
(* table it was made in for as long as anybody knows it.                   *)

ReadOps  == {"find", "require", "clear", "lock"}
WriteOps == {"save", "delete", "clear", "lock"}

\* A statement of a request with the default flag d is on its addresses, only
\* favourites are deleted and only a new default clears the old ones.
Fits(s, d) ==
  /\ d # {} => s[2] = "address"
  /\ s[1] = "delete" => s[2] = "favorite"
  /\ s[1] \in {"clear", "lock"} => TRUE \in d

\* What is read is written next, and an address is saved last.
Follows(s, next) ==
  /\ s # <<"save", "address">>
  /\ s[1] \in ReadOps /\ next[1] \in WriteOps => s[2] = next[2]

Good(todo, d) ==
  /\ \A i \in 1 .. Len(todo) : Fits(todo[i], d)
  /\ \A i \in 1 .. Len(todo) : i + 1 \in 1 .. Len(todo) => Follows(todo[i], todo[i + 1])

\* What a request holds fits the statement it is at.
Sound(q) ==
  /\ Good(q.todo, q.default)
  /\ q.held => TRUE \in q.default
  /\ q.todo # <<>> /\ Head(q.todo)[1] \in WriteOps =>
       \A x \in q.seen : x.table = Head(q.todo)[2]

\* Every row there is or that somebody has read.
Known == rows \cup (UNION snapshot) \cup (UNION {request[r].seen : r \in Requests})

\* An id is used in one table, and only addresses are defaults.
RowsAreOfOneTable ==
  /\ \A x, y \in Known : x.id = y.id => x.table = y.table
  /\ \A x \in Known : x.default => x.table = "address"

HandlersInv == RowsAreOfOneTable /\ \A r \in Requests : Sound(request[r])

\* The statements that remain are good.
LEMMA GoodRest ==
  ASSUME NEW todo \in Todo, todo # <<>>, NEW d, Good(todo, d)
  PROVE  /\ Fits(Head(todo), d)
         /\ Tail(todo) \in Todo /\ Good(Tail(todo), d)
         /\ Tail(todo) # <<>> => Follows(Head(todo), Head(Tail(todo)))
<1>1. /\ Len(todo) \in Nat \ {0} /\ Head(todo) = todo[1] /\ Tail(todo) \in Todo
      /\ Len(Tail(todo)) = Len(todo) - 1
      /\ \A i \in 1 .. Len(todo) - 1 : Tail(todo)[i] = todo[i + 1]
  BY DEF Todo
<1>2. Fits(Head(todo), d)
  BY <1>1 DEF Good
<1>3. \A i \in 1 .. Len(Tail(todo)) : Fits(Tail(todo)[i], d)
  BY <1>1 DEF Good
<1>4. ASSUME NEW i \in 1 .. Len(Tail(todo)), i + 1 \in 1 .. Len(Tail(todo))
      PROVE  Follows(Tail(todo)[i], Tail(todo)[i + 1])
  <2>1. i + 1 \in 1 .. Len(todo) /\ (i + 1) + 1 \in 1 .. Len(todo)
    BY <1>1, <1>4
  <2> QED BY <1>1, <1>4, <2>1 DEF Good
<1>5. Tail(todo) # <<>> => Follows(Head(todo), Head(Tail(todo)))
  <2> SUFFICES ASSUME Tail(todo) # <<>> PROVE Follows(Head(todo), Head(Tail(todo)))
    OBVIOUS
  <2>1. Head(Tail(todo)) = todo[1 + 1] /\ 1 + 1 \in 1 .. Len(todo)
    BY <1>1 DEF Todo
  <2> QED BY <1>1, <2>1 DEF Good
<1> QED BY <1>1, <1>2, <1>3, <1>4, <1>5 DEF Good

\* A fitting statement before good ones.
LEMMA GoodCons ==
  ASSUME NEW todo \in Todo, NEW d, Good(todo, d), NEW s \in Ops \X Tables, Fits(s, d),
         todo # <<>> => Follows(s, Head(todo))
  PROVE  <<s>> \o todo \in Todo /\ Good(<<s>> \o todo, d) /\ Head(<<s>> \o todo) = s
<1> DEFINE all == <<s>> \o todo
<1>1. /\ all \in Todo /\ Len(todo) \in Nat /\ Len(all) = Len(todo) + 1 /\ all[1] = s
      /\ Head(all) = s
      /\ \A i \in 1 .. Len(todo) : all[i + 1] = todo[i]
  BY DEF Todo
<1>2. ASSUME NEW i \in 1 .. Len(all) PROVE i = 1 \/ i - 1 \in 1 .. Len(todo)
  BY <1>1
<1> HIDE DEF all
<1>3. ASSUME NEW i \in 1 .. Len(all) PROVE Fits(all[i], d)
  <2>1. CASE i = 1
    BY <1>1, <2>1
  <2>2. CASE i - 1 \in 1 .. Len(todo)
    <3>1. all[i] = todo[i - 1]
      BY <1>1, <2>2
    <3> QED BY <2>2, <3>1 DEF Good
  <2> QED BY <1>2, <2>1, <2>2
<1>4. ASSUME NEW i \in 1 .. Len(all), i + 1 \in 1 .. Len(all)
      PROVE  Follows(all[i], all[i + 1])
  <2>1. CASE i = 1
    <3>1. todo # <<>> /\ all[1 + 1] = Head(todo)
      BY <1>1, <1>4, <2>1 DEF Todo
    <3> QED BY <1>1, <2>1, <3>1
  <2>2. CASE i - 1 \in 1 .. Len(todo)
    <3>1. all[i] = todo[i - 1] /\ all[i + 1] = todo[(i - 1) + 1] /\ (i - 1) + 1 \in 1 .. Len(todo)
      BY <1>1, <1>4, <2>2
    <3> QED BY <2>2, <3>1 DEF Good
  <2> QED BY <1>2, <2>1, <2>2
<1> QED BY <1>1, <1>3, <1>4 DEF Good, all

\* Scripts of the lengths there are.
LEMMA GoodScripts ==
  ASSUME NEW S, NEW d, \A s \in S : Fits(s, d)
  PROVE  /\ \A a \in S : Good(<<a>>, d)
         /\ \A a, b \in S : Follows(a, b) => Good(<<a, b>>, d)
         /\ \A a, b, c \in S : Follows(a, b) /\ Follows(b, c) => Good(<<a, b, c>>, d)
         /\ \A a, b, c, e \in S :
              Follows(a, b) /\ Follows(b, c) /\ Follows(c, e) => Good(<<a, b, c, e>>, d)
         /\ \A a, b, c, e, f, g \in S :
              /\ Follows(a, b) /\ Follows(b, c) /\ Follows(c, e)
              /\ Follows(e, f) /\ Follows(f, g)
              => Good(<<a, b, c, e, f, g>>, d)
<1>1. \A a \in S : Good(<<a>>, d)
  BY DEF Good
<1>2. ASSUME NEW a \in S, NEW b \in S, Follows(a, b) PROVE Good(<<a, b>>, d)
  BY <1>2 DEF Good
<1>3. ASSUME NEW a \in S, NEW b \in S, NEW c \in S, Follows(a, b), Follows(b, c)
      PROVE  Good(<<a, b, c>>, d)
  BY <1>3 DEF Good
<1>4. ASSUME NEW a \in S, NEW b \in S, NEW c \in S, NEW e \in S,
             Follows(a, b), Follows(b, c), Follows(c, e)
      PROVE  Good(<<a, b, c, e>>, d)
  BY <1>4 DEF Good
<1>5. ASSUME NEW a \in S, NEW b \in S, NEW c \in S, NEW e \in S, NEW f \in S, NEW g \in S,
             Follows(a, b), Follows(b, c), Follows(c, e), Follows(e, f), Follows(f, g)
      PROVE  Good(<<a, b, c, e, f, g>>, d)
  BY <1>5 DEF Good
<1> QED BY <1>1, <1>2, <1>3, <1>4, <1>5

\* The statements of every handler are good for the flags it is sent.
LEMMA ScriptsAreGood ==
  /\ \A s \in ProfileScripts \cup FavoriteScripts \cup NoticeScripts \cup {GetCart} : Good(s, {})
  /\ Good(RegisterDevice, {}) /\ Good(DeactivateDevice, {})
  /\ Good(RemoveAddress, {FALSE})
  /\ \A d \in {{}, {TRUE}, {FALSE}} : Good(WriteAddress(d), d) /\ Good(UpdateAddress(d), d)
<1>1. \A s \in ProfileScripts : Good(s, {})
  <2> DEFINE vp == <<"view", "profile">> fp == <<"find", "profile">> sp == <<"save", "profile">>
             vq == <<"view", "preference">> rq == <<"require", "preference">>
             sq == <<"save", "preference">>
             S == {vp, fp, sp, vq, rq, sq}
  <2>1. \A s \in S : Fits(s, {})
    BY DEF Fits
  <2>2. /\ Follows(fp, sp) /\ Follows(sp, vp) /\ Follows(vq, rq) /\ Follows(rq, sq)
        /\ Follows(sq, vq) /\ Follows(sq, fp) /\ Follows(sp, vq)
    BY DEF Follows, ReadOps, WriteOps
  <2>3. ProfileScripts = {<<vp>>, <<fp, sp, vp>>, <<vq>>, <<vq, rq, sq, vq>>,
                          <<vq, rq, sq, fp, sp, vq>>}
    BY DEF ProfileScripts
  <2>4. vp \in S /\ fp \in S /\ sp \in S /\ vq \in S /\ rq \in S /\ sq \in S
    OBVIOUS
  <2> HIDE DEF vp, fp, sp, vq, rq, sq, S
  <2>5. Good(<<vp>>, {}) /\ Good(<<vq>>, {}) /\ Good(<<fp, sp, vp>>, {})
        /\ Good(<<vq, rq, sq, vq>>, {}) /\ Good(<<vq, rq, sq, fp, sp, vq>>, {})
    BY <2>1, <2>2, <2>4, GoodScripts
  <2> QED BY <2>3, <2>5
<1>2. ASSUME NEW t, NEW d, d # {} => t = "address"
      PROVE  LET f == <<"find", t>> q == <<"require", t>> v == <<"save", t>> IN
             Good(<<v>>, d) /\ Good(<<f, v>>, d) /\ Good(<<q, v>>, d)
  <2> DEFINE f == <<"find", t>> q == <<"require", t>> v == <<"save", t>> S == {f, q, v}
  <2>1. \A s \in S : Fits(s, d)
    <3>1. Fits(f, d)
      BY <1>2 DEF Fits
    <3>2. Fits(q, d)
      BY <1>2 DEF Fits
    <3>3. Fits(v, d)
      BY <1>2 DEF Fits
    <3> HIDE DEF f, q, v
    <3> QED BY <3>1, <3>2, <3>3
  <2>2. Follows(f, v) /\ Follows(q, v)
    BY DEF Follows, ReadOps, WriteOps
  <2>3. f \in S /\ q \in S /\ v \in S
    OBVIOUS
  <2> HIDE DEF f, q, v, S
  <2>4. Good(<<v>>, d) /\ Good(<<f, v>>, d) /\ Good(<<q, v>>, d)
    BY <2>1, <2>2, <2>3, GoodScripts
  <2> QED BY <2>4 DEF f, q, v
<1>3. \A s \in FavoriteScripts : Good(s, {})
  <2> DEFINE q == <<"require", "favorite">> v == <<"delete", "favorite">> S == {q, v}
  <2>1. \A s \in S : Fits(s, {})
    BY DEF Fits
  <2>2. Follows(q, v) /\ q \in S /\ v \in S
    BY DEF Follows, ReadOps, WriteOps
  <2>3. Good(<<q, v>>, {})
    <3> HIDE DEF q, v, S
    <3> QED BY <2>1, <2>2, GoodScripts
  <2> QED BY <1>2, <2>3 DEF FavoriteScripts
<1>n. /\ \A s \in NoticeScripts : Good(s, {})
      /\ Good(GetCart, {})
  <2>1. ASSUME NEW t PROVE Good(<<<<"view", t>>>>, {})
    <3> DEFINE v == <<"view", t>>
    <3>1. Fits(v, {})
      BY DEF Fits
    <3> HIDE DEF v
    <3>2. Good(<<v>>, {})
      BY <3>1 DEF Good
    <3> QED BY <3>2 DEF v
  <2> QED BY <2>1, <1>2 DEF NoticeScripts, GetCart
<1>4. Good(RegisterDevice, {}) /\ Good(DeactivateDevice, {}) /\ Good(RemoveAddress, {FALSE})
  BY <1>2 DEF RegisterDevice, DeactivateDevice, RemoveAddress
<1>5. ASSUME NEW d \in {{}, {TRUE}, {FALSE}} PROVE Good(WriteAddress(d), d)
  <2> DEFINE c == <<"clear", "address">> v == <<"save", "address">> S == {c, v}
  <2>1. Follows(c, v) /\ c \in S /\ v \in S
    BY DEF Follows, ReadOps, WriteOps
  <2>2. ASSUME TRUE \in d PROVE Good(<<c, v>>, d)
    <3>1. Fits(c, d) /\ Fits(v, d)
      <4>1. Fits(c, d)
        BY <2>2 DEF Fits
      <4>2. Fits(v, d)
        BY <2>2 DEF Fits
      <4> QED BY <4>1, <4>2
    <3> HIDE DEF c, v
    <3>2. \A s \in S : Fits(s, d)
      BY <3>1
    <3> HIDE DEF S
    <3> QED BY <2>1, <3>2, GoodScripts
  <2> QED BY <1>2, <2>2 DEF WriteAddress
<1>6. ASSUME NEW d \in {{}, {TRUE}, {FALSE}} PROVE Good(UpdateAddress(d), d)
  <2> DEFINE q == <<"require", "address">> W == WriteAddress(d)
  <2>1. q \in Ops \X Tables /\ Fits(q, d)
    BY DEF Ops, Tables, Fits
  <2>2. W \in Todo /\ Good(W, d)
    BY <1>5, ScriptType DEF Flags
  <2>3. W # <<>> /\ Head(W)[2] = "address"
    BY DEF WriteAddress
  <2>4. Follows(q, Head(W))
    BY <2>3 DEF Follows
  <2>5. UpdateAddress(d) = <<q>> \o W
    BY DEF UpdateAddress
  <2> HIDE DEF q, W
  <2> QED BY <2>1, <2>2, <2>4, <2>5, GoodCons
<1> QED BY <1>1, <1>3, <1>4, <1>5, <1>6, <1>n

-----------------------------------------------------------------------------
(* The steps of the handlers.                                              *)

\* How a request goes on.
LEMMA GoOnIs ==
  ASSUME TypeOK, NEW r \in Requests, NEW todo, NEW seen, GoOn(r, todo, seen)
  PROVE  /\ \A q \in Requests \ {r} : request'[q] = request[q]
         /\ todo = <<>> => request'[r] = Idle
         /\ todo # <<>> => /\ request'[r].todo = todo
                           /\ request'[r].seen = seen
                           /\ request'[r].default = request[r].default
                           /\ request'[r].held = request[r].held
BY DEF GoOn, TypeOK, Request

\* Nothing is left to do for an idle request.
LEMMA IdleIsSound == Sound(Idle) /\ Idle.seen = {}
BY DEF Sound, Idle, Good

\* A request that goes on with what it has read stays sound.
LEMMA SoundGoOn ==
  ASSUME TypeOK, HandlersInv, NEW r \in Requests, NEW todo, NEW seen, GoOn(r, todo, seen),
         Good(todo, request[r].default),
         todo # <<>> /\ Head(todo)[1] \in WriteOps => \A x \in seen : x.table = Head(todo)[2]
  PROVE  \A q \in Requests : Sound(request'[q])
<1>1. CASE todo = <<>>
  BY <1>1, GoOnIs, IdleIsSound DEF HandlersInv
<1>2. CASE todo # <<>>
  <2> DEFINE q == request[r] p == request'[r]
  <2>0. p.todo = todo /\ p.seen = seen /\ p.default = q.default /\ p.held = q.held
    BY <1>2, GoOnIs
  <2>a. q.held => TRUE \in q.default
    BY DEF HandlersInv, Sound
  <2> HIDE DEF p, q
  <2>b. p.held => TRUE \in p.default
    BY <2>0, <2>a, Zenon
  <2>c. Good(p.todo, p.default)
    BY <2>0 DEF q
  <2>d. p.todo # <<>> /\ Head(p.todo)[1] \in WriteOps => \A x \in p.seen : x.table = Head(p.todo)[2]
    BY <2>0
  <2>1. Sound(request'[r])
    BY <2>b, <2>c, <2>d DEF Sound, p
  <2> QED BY <2>1, GoOnIs DEF HandlersInv
<1> QED BY <1>1, <1>2

LEMMA SoundOver ==
  ASSUME TypeOK, HandlersInv, NEW r \in Requests, Over(r)
  PROVE  \A q \in Requests : Sound(request'[q])
BY IdleIsSound DEF Over, TypeOK, HandlersInv

\* The statement a request is at, and those it has left.
LEMMA AtIs ==
  ASSUME TypeOK, HandlersInv, NEW r \in Requests, NEW op \in Ops, NEW t \in Tables, At(r, op, t)
  PROVE  /\ Fits(<<op, t>>, request[r].default)
         /\ Rest(r) \in Todo /\ Good(Rest(r), request[r].default)
         /\ Rest(r) # <<>> => Follows(<<op, t>>, Head(Rest(r)))
         /\ op \in WriteOps => \A x \in request[r].seen : x.table = t
<1>1. /\ request[r].todo \in Todo /\ request[r].todo # <<>>
      /\ Head(request[r].todo) = <<op, t>>
  BY DEF At, Busy, TypeOK, Request, Todo
<1>2. Sound(request[r])
  BY DEF HandlersInv
<1> QED BY <1>1, <1>2, GoodRest DEF Sound, Rest

\* Only the request that takes the step reads anything new.
LEMMA KnownAfter ==
  ASSUME TypeOK, NEW r \in Requests,
         \A q \in Requests \ {r} : request'[q] = request[q],
         UNCHANGED snapshot
  PROVE  Known' \subseteq rows' \cup request'[r].seen \cup Known
BY DEF Known

\* Without a new row nothing new is known.
LEMMA NothingNew == RowsAreOfOneTable /\ Known' \subseteq Known => RowsAreOfOneTable'
BY DEF RowsAreOfOneTable

\* A row that keeps its id and its table may lose its default; a new one has an
\* id nobody knows.
LEMMA OneRowMore ==
  ASSUME RowsAreOfOneTable, NEW n, NEW t,
         \A x \in Known' : \/ \E y \in Known : x.id = y.id /\ x.table = y.table
                           \/ x.id = n /\ x.table = t,
         \A x \in Known' : x.default => x.table = "address",
         \A y \in Known : y.id = n => y.table = t
  PROVE  RowsAreOfOneTable'
BY DEF RowsAreOfOneTable

\* A fresh id is that of no row anybody knows.
LEMMA FreshIsUnknown == \A n \in Fresh : \A y \in Known : y.id # n
<1> SUFFICES ASSUME NEW n \in Fresh, NEW y \in Known PROVE y.id # n
  OBVIOUS
<1>1. n \notin Named(rows) /\ n \notin Named(UNION snapshot)
  BY DEF Fresh, InUse
<1>2. \A r \in Requests : n \notin Named(request[r].seen)
  BY DEF Fresh, InUse
<1> QED BY <1>1, <1>2 DEF Named, Known

\* Reading a row, or nothing.
LEMMA ReadStep ==
  ASSUME TypeOK, HandlersInv, NEW r \in Requests, NEW todo, NEW seen \in SUBSET rows,
         GoOn(r, todo, seen), Reading, Good(todo, request[r].default),
         todo # <<>> /\ Head(todo)[1] \in WriteOps => \A x \in seen : x.table = Head(todo)[2]
  PROVE  HandlersInv'
<1>1. \A q \in Requests : Sound(request'[q])
  BY SoundGoOn
<1>2. request'[r].seen \subseteq rows
  BY GoOnIs, IdleIsSound
<1>3. Known' \subseteq Known
  BY <1>2, GoOnIs, KnownAfter DEF Reading, Known
<1> QED BY <1>1, <1>3, NothingNew DEF HandlersInv

LEMMA OverStep ==
  ASSUME TypeOK, HandlersInv, NEW r \in Requests, Over(r), Reading
  PROVE  HandlersInv'
<1>1. \A q \in Requests : Sound(request'[q])
  BY SoundOver
<1>2. request'[r].seen = {} /\ \A q \in Requests \ {r} : request'[q] = request[q]
  BY IdleIsSound DEF Over, TypeOK
<1>3. Known' \subseteq Known
  BY <1>2, KnownAfter DEF Reading, Known
<1> QED BY <1>1, <1>3, NothingNew DEF HandlersInv


\* A request that arrives has read nothing and has good statements before it.
LEMMA ArriveStep ==
  ASSUME TypeOK, HandlersInv, NEW r \in Requests, Arrive(r)
  PROVE  HandlersInv'
<1>1. PICK s, a, d : Admit(r, s, a, d) /\ Good(s, d)
         /\ (s # <<>> => s \in Todo)
  <2>1. ASSUME NEW s \in ProfileScripts \cup FavoriteScripts \cup NoticeScripts \cup {GetCart}
        PROVE  Good(s, {}) /\ s \in Todo
    BY ScriptsAreGood, ScriptType
  <2>2. \A d \in {{}, {TRUE}, {FALSE}} : d \in Flags
    BY DEF Flags
  <2> QED BY <2>1, <2>2, ScriptsAreGood, ScriptType DEF Arrive
<1> DEFINE q == [Idle EXCEPT !.todo = s, !.active = a, !.default = d]
<1>2. /\ q.todo = s /\ q.default = d /\ q.seen = {} /\ q.held = FALSE
      /\ request' = [request EXCEPT ![r] = q]
      /\ UNCHANGED <<rows, snapshot>>
  BY <1>1 DEF Admit, Idle
<1> HIDE DEF q
<1>3. Sound(q)
  BY <1>1, <1>2 DEF Sound
<1>4. \A p \in Requests : request'[p] = IF p = r THEN q ELSE request[p]
  BY <1>2 DEF TypeOK
<1>5. Known' \subseteq Known
  BY <1>2, <1>4, KnownAfter DEF Known
<1> QED BY <1>3, <1>4, <1>5, NothingNew DEF HandlersInv

\* The statements that read.
LEMMA ReadingSteps ==
  ASSUME TypeOK, HandlersInv, NEW r \in Requests, NEW t \in Tables,
         View(r, t) \/ Find(r, t) \/ Require(r, t)
  PROVE  HandlersInv'
<1>1. CASE View(r, t)
  <2>1. /\ Fits(<<"view", t>>, request[r].default)
        /\ Rest(r) \in Todo /\ Good(Rest(r), request[r].default)
    BY <1>1, AtIs DEF View, Ops
  <2>2. Fits(<<"insert", t>>, request[r].default)
    BY <2>1 DEF Fits
  <2>3. <<"insert", t>> \in Ops \X Tables /\ \A n : Follows(<<"insert", t>>, n)
    BY DEF Ops, Follows, ReadOps
  <2>4. Good(<<<<"insert", t>>>> \o Rest(r), request[r].default)
    BY <2>1, <2>2, <2>3, GoodCons
  <2>5. <<>> \o Rest(r) = Rest(r)
    BY <2>1 DEF Todo
  <2> DEFINE todo == (IF Of(t) = {} THEN <<<<"insert", t>>>> ELSE <<>>) \o Rest(r)
  <2>6. Good(todo, request[r].default) /\ GoOn(r, todo, {}) /\ Reading
    BY <1>1, <2>1, <2>4, <2>5 DEF View
  <2> HIDE DEF todo
  <2> QED BY <2>6, ReadStep
<1>2. CASE Find(r, t)
  <2>1. /\ Fits(<<"find", t>>, request[r].default)
        /\ Rest(r) \in Todo /\ Good(Rest(r), request[r].default)
        /\ Rest(r) # <<>> => Follows(<<"find", t>>, Head(Rest(r)))
    BY <1>2, AtIs DEF Find, Ops
  <2>2. ASSUME NEW x \in Of(t), GoOn(r, Rest(r), {x}) PROVE HandlersInv'
    <3>1. Rest(r) # <<>> /\ Head(Rest(r))[1] \in WriteOps => x.table = Head(Rest(r))[2]
      BY <2>1 DEF Follows, ReadOps, Of
    <3>2. {x} \in SUBSET rows
      BY DEF Of
    <3> QED BY <1>2, <2>1, <2>2, <3>1, <3>2, ReadStep DEF Find
  <2> DEFINE v == <<"view", t>> q == <<"require", t>>
  <2>3. /\ v \in Ops \X Tables /\ q \in Ops \X Tables
        /\ Fits(v, request[r].default) /\ Fits(q, request[r].default)
    BY <2>1 DEF Ops, Fits
  <2>4. Follows(v, q) /\ (Rest(r) # <<>> => Follows(q, Head(Rest(r))))
    BY <2>1 DEF Follows, ReadOps
  <2> HIDE DEF v, q
  <2>5. <<q>> \o Rest(r) \in Todo /\ Good(<<q>> \o Rest(r), request[r].default)
        /\ Head(<<q>> \o Rest(r)) = q
    BY <2>1, <2>3, <2>4, GoodCons
  <2>6. Good(<<v>> \o (<<q>> \o Rest(r)), request[r].default)
    BY <2>3, <2>4, <2>5, GoodCons
  <2>7. <<v, q>> \o Rest(r) = <<v>> \o (<<q>> \o Rest(r)) /\ <<>> \o Rest(r) = Rest(r)
    <3>a. \A x \in Ops \X Tables : <<x>> \in Seq(Ops \X Tables)
      OBVIOUS
    <3>b. ASSUME NEW x \in Ops \X Tables, NEW y \in Ops \X Tables
          PROVE  <<x, y>> = <<x>> \o <<y>>
      <4> DEFINE one == <<x>> \o <<y>>
      <4>1. /\ <<x, y>> \in Todo /\ one \in Todo
            /\ Len(<<x, y>>) = 2 /\ Len(one) = 2
            /\ one[1] = x /\ one[2] = y
        BY <3>a DEF Todo
      <4> HIDE DEF one
      <4>2. \A i \in 1 .. 2 : <<x, y>>[i] = one[i]
        BY <4>1
      <4>3. <<x, y>> = one
        BY <4>1, <4>2, SeqEqual DEF Todo
      <4> QED BY <4>3 DEF one
    <3>1. <<v>> \in Todo /\ <<q>> \in Todo /\ <<v, q>> = <<v>> \o <<q>>
      BY <2>3, <3>a, <3>b DEF Todo
    <3>2. (<<v>> \o <<q>>) \o Rest(r) = <<v>> \o (<<q>> \o Rest(r))
      BY <2>1, <3>1, ConcatAssociative DEF Todo
    <3>3. <<>> \o Rest(r) = Rest(r)
      BY <2>1 DEF Todo
    <3> QED BY <3>1, <3>2, <3>3
  <2> DEFINE todo == (IF t = "profile" THEN <<v, q>> ELSE <<>>) \o Rest(r)
  <2>8. Good(todo, request[r].default)
    BY <2>1, <2>6, <2>7
  <2>9. ASSUME GoOn(r, todo, {}) PROVE HandlersInv'
    <3> HIDE DEF todo
    <3> QED BY <1>2, <2>8, <2>9, ReadStep DEF Find
  <2> QED BY <1>2, <2>2, <2>9 DEF Find, v, q
<1>3. CASE Require(r, t)
  <2>1. /\ Rest(r) \in Todo /\ Good(Rest(r), request[r].default)
        /\ Rest(r) # <<>> => Follows(<<"require", t>>, Head(Rest(r)))
    BY <1>3, AtIs DEF Require, Ops
  <2>2. ASSUME NEW x \in Of(t), GoOn(r, Rest(r), {x}) PROVE HandlersInv'
    <3>1. Rest(r) # <<>> /\ Head(Rest(r))[1] \in WriteOps => x.table = Head(Rest(r))[2]
      BY <2>1 DEF Follows, ReadOps, Of
    <3>2. {x} \in SUBSET rows
      BY DEF Of
    <3> QED BY <1>3, <2>1, <2>2, <3>1, <3>2, ReadStep DEF Require
  <2> QED BY <1>3, <2>2, OverStep DEF Require
<1> QED BY <1>1, <1>2, <1>3

\* The statements that lock.
LEMMA LockingSteps ==
  ASSUME TypeOK, HandlersInv, NEW r \in Requests, Clear(r) \/ Lock(r)
  PROVE  HandlersInv'
<1> DEFINE d == request[r].default p == request'[r]
<1>0. PICK op \in {"clear", "lock"} : At(r, op, "address")
  BY DEF Clear, Lock
<1>1. /\ Fits(<<op, "address">>, d) /\ Rest(r) \in Todo /\ Good(Rest(r), d)
      /\ Rest(r) # <<>> => Follows(<<op, "address">>, Head(Rest(r)))
      /\ \A x \in request[r].seen : x.table = "address"
  BY <1>0, AtIs DEF Ops, Tables, WriteOps
<1>2. TRUE \in d
  BY <1>1 DEF Fits
<1>3. /\ p.default = d /\ p.seen = request[r].seen
      /\ \A q \in Requests \ {r} : request'[q] = request[q]
      /\ UNCHANGED <<rows, snapshot>>
  BY DEF Clear, Lock, TypeOK, Request, Reading
<1>4. Good(p.todo, d) /\ (p.todo # <<>> /\ Head(p.todo)[1] \in WriteOps => Head(p.todo)[2] = "address")
  <2>1. CASE Clear(r)
    <3> DEFINE l == <<"lock", "address">>
    <3>1. l \in Ops \X Tables /\ Fits(l, d)
      BY <1>2 DEF Ops, Tables, Fits
    <3>2. op = "clear" \/ op = "lock"
      OBVIOUS
    <3>3. Rest(r) # <<>> => Follows(l, Head(Rest(r)))
      BY <1>1, <3>2 DEF Follows, ReadOps
    <3>4. p.todo = <<l>> \o Rest(r)
      BY <2>1 DEF Clear, TypeOK, Request
    <3>5. Good(<<l>> \o Rest(r), d) /\ Head(<<l>> \o Rest(r)) = l
      <4> HIDE DEF l, d
      <4> QED BY <1>1, <3>1, <3>3, GoodCons
    <3> QED BY <3>4, <3>5
  <2>2. CASE Lock(r)
    <3>1. p.todo = Rest(r)
      BY <2>2 DEF Lock, TypeOK, Request
    <3>2. Rest(r) # <<>> /\ Head(Rest(r))[1] \in WriteOps => Head(Rest(r))[2] = "address"
      BY <1>1 DEF Follows, ReadOps
    <3> QED BY <1>1, <3>1, <3>2
  <2> QED BY <2>1, <2>2
<1>5. Sound(p)
  <2>1. p.todo # <<>> /\ Head(p.todo)[1] \in WriteOps => \A x \in p.seen : x.table = Head(p.todo)[2]
    BY <1>1, <1>3, <1>4
  <2>2. TRUE \in p.default /\ Good(p.todo, p.default)
    BY <1>2, <1>3, <1>4
  <2> HIDE DEF p
  <2> QED BY <2>1, <2>2 DEF Sound
<1>6. Known' \subseteq Known
  BY <1>3, KnownAfter DEF Known
<1> QED BY <1>3, <1>5, <1>6, NothingNew DEF HandlersInv


\* A new row has an id of its own, and is no default.
LEMMA InsertStep ==
  ASSUME TypeOK, HandlersInv, NEW r \in Requests, NEW t \in Tables, Insert(r, t)
  PROVE  HandlersInv'
<1> DEFINE row(n) == [table |-> t, id |-> n, active |-> TRUE, default |-> FALSE]
<1>1. PICK n \in Fresh : \/ rows' = rows \cup {row(n)} /\ GoOn(r, Rest(r), {})
                         \/ UNCHANGED rows /\ Over(r)
  BY DEF Insert
<1>2. Good(Rest(r), request[r].default)
  BY AtIs DEF Insert, Ops
<1>3. \A q \in Requests : Sound(request'[q])
  BY <1>1, <1>2, SoundGoOn, SoundOver
<1>4. request'[r].seen = {} /\ \A q \in Requests \ {r} : request'[q] = request[q]
  BY <1>1, GoOnIs, IdleIsSound DEF Over, TypeOK
<1>5. \A x \in Known' : x \in Known \/ x = row(n)
  BY <1>1, <1>4, KnownAfter DEF Insert, Known
<1>6. row(n).id = n /\ row(n).table = t /\ row(n).default = FALSE
  OBVIOUS
<1> HIDE DEF row
<1>7. /\ \A x \in Known' : \/ \E y \in Known : x.id = y.id /\ x.table = y.table
                           \/ x.id = n /\ x.table = t
      /\ \A x \in Known' : x.default => x.table = "address"
  BY <1>5, <1>6 DEF HandlersInv, RowsAreOfOneTable
<1>8. \A y \in Known : y.id = n => y.table = t
  BY FreshIsUnknown
<1>9. RowsAreOfOneTable'
  BY <1>7, <1>8, OneRowMore DEF HandlersInv
<1> QED BY <1>3, <1>9 DEF HandlersInv

\* What save stores, and how the request goes on.
LEMMA SaveIs ==
  ASSUME TypeOK, HandlersInv, NEW r \in Requests, NEW t \in Tables, Save(r, t)
  PROVE  \E x : LET others == {Cleared(r, y) : y \in {y \in rows : y.id # x.id}} IN
           /\ \/ x \in request[r].seen
              \/ request[r].seen = {} /\ x.id \in Fresh /\ x.default = FALSE
           /\ x.table = t /\ x \in Row
           /\ \/ rows' = others \cup {Changed(r, x)} /\ GoOn(r, Rest(r), {})
              \/ UNCHANGED rows /\ Over(r)
              \/ /\ request[r].seen # {} /\ rows' = others /\ GoOn(r, Rest(r), {})
<1>1. \A x \in request[r].seen : x.table = t /\ x \in Row
  BY AtIs, FieldTypes DEF Save, Ops, WriteOps
<1>2. \A x \in New(t) : x.table = t /\ x.id \in Fresh /\ x.default = FALSE /\ x \in Row
  <2>1. ASSUME NEW n \in Fresh
        PROVE  LET x == [table |-> t, id |-> n, active |-> TRUE, default |-> FALSE]
               IN  x.table = t /\ x.id \in Fresh /\ x.default = FALSE /\ x \in Row
    BY DEF Fresh, Row
  <2> QED BY <2>1 DEF New
<1> QED BY <1>1, <1>2 DEF Save

\* Saving changes flags only: the row keeps its id and its table, and a flag for
\* the default is sent with an address.
LEMMA ChangedIs ==
  ASSUME TypeOK, HandlersInv, NEW r \in Requests, NEW t \in Tables, At(r, "save", t),
         NEW x \in Row, x.table = t
  PROVE  /\ Changed(r, x).id = x.id /\ Changed(r, x).table = t
         /\ Changed(r, x).default => x.default \/ t = "address"
         /\ TRUE \in request[r].default => Changed(r, x).default
<1>1. Fits(<<"save", t>>, request[r].default)
  BY AtIs DEF Ops
<1>2. /\ Changed(r, x).id = x.id /\ Changed(r, x).table = t
      /\ Changed(r, x).default = IF request[r].default = {} THEN x.default
                                 ELSE TRUE \in request[r].default
  BY DEF Changed, Row
<1>3. request[r].default # {} => t = "address"
  BY <1>1 DEF Fits
<1> QED BY <1>2, <1>3

LEMMA ClearedIs ==
  ASSUME TypeOK, NEW r \in Requests, NEW y \in rows
  PROVE  /\ Cleared(r, y).id = y.id /\ Cleared(r, y).table = y.table
         /\ Cleared(r, y).default => y.default
         /\ ~request[r].held => Cleared(r, y) = y
BY DEF Cleared, TypeOK, Row

LEMMA SaveStep ==
  ASSUME TypeOK, HandlersInv, NEW r \in Requests, NEW t \in Tables, Save(r, t)
  PROVE  HandlersInv'
<1> DEFINE others(x) == {Cleared(r, y) : y \in {y \in rows : y.id # x.id}}
<1>1. PICK x :
        /\ \/ x \in request[r].seen
           \/ request[r].seen = {} /\ x.id \in Fresh /\ x.default = FALSE
        /\ x.table = t /\ x \in Row
        /\ \/ rows' = others(x) \cup {Changed(r, x)} /\ GoOn(r, Rest(r), {})
           \/ UNCHANGED rows /\ Over(r)
           \/ /\ request[r].seen # {} /\ rows' = others(x) /\ GoOn(r, Rest(r), {})
  BY SaveIs
<1>2. Good(Rest(r), request[r].default) /\ At(r, "save", t)
  BY AtIs DEF Save, Ops
<1>3. \A q \in Requests : Sound(request'[q])
  BY <1>1, <1>2, SoundGoOn, SoundOver
<1>4. request'[r].seen = {} /\ \A q \in Requests \ {r} : request'[q] = request[q]
  BY <1>1, GoOnIs, IdleIsSound DEF Over, TypeOK
<1>5. rows' \subseteq rows \cup others(x) \cup {Changed(r, x)}
  BY <1>1
<1>6. Known' \subseteq Known \cup others(x) \cup {Changed(r, x)}
  BY <1>4, <1>5, KnownAfter DEF Save, Known
<1>7. /\ Changed(r, x).id = x.id /\ Changed(r, x).table = t
      /\ Changed(r, x).default => x.default \/ t = "address"
  BY <1>1, <1>2, ChangedIs
<1>8. x.default => t = "address"
  BY <1>1 DEF HandlersInv, RowsAreOfOneTable, Known
<1>9. ASSUME NEW z \in others(x)
      PROVE  /\ \E y \in Known : z.id = y.id /\ z.table = y.table
             /\ z.default => z.table = "address"
  <2>1. PICK y \in rows : z = Cleared(r, y)
    BY <1>9
  <2>2. y \in Known
    BY DEF Known
  <2> QED BY <2>1, <2>2, ClearedIs DEF HandlersInv, RowsAreOfOneTable
<1>10. /\ \A z \in Known' : \/ \E y \in Known : z.id = y.id /\ z.table = y.table
                            \/ z.id = x.id /\ z.table = t
       /\ \A z \in Known' : z.default => z.table = "address"
  <2> HIDE DEF others
  <2> QED BY <1>6, <1>7, <1>8, <1>9 DEF HandlersInv, RowsAreOfOneTable
<1>11. \A y \in Known : y.id = x.id => y.table = t
  <2>1. CASE x \in request[r].seen
    BY <1>1, <2>1 DEF HandlersInv, RowsAreOfOneTable, Known
  <2>2. CASE x.id \in Fresh
    BY <2>2, FreshIsUnknown
  <2> QED BY <1>1, <2>1, <2>2
<1>12. RowsAreOfOneTable'
  BY <1>10, <1>11, OneRowMore DEF HandlersInv
<1> QED BY <1>3, <1>12 DEF HandlersInv

\* The steps that only take rows away, and those of the deletion.
LEMMA TakingSteps ==
  ASSUME TypeOK, HandlersInv,
         \/ \E r \in Requests : Fail(r) \/ \E t \in Tables : Delete(r, t)
         \/ BeginErasure \/ CommitErasure \/ AbortErasure \/ UNCHANGED customerVars
  PROVE  HandlersInv'
<1>1. ASSUME NEW r \in Requests, Fail(r) PROVE HandlersInv'
  BY <1>1, OverStep DEF Fail
<1>2. ASSUME NEW r \in Requests, NEW t \in Tables, Delete(r, t) PROVE HandlersInv'
  <2>1. Good(Rest(r), request[r].default)
    BY <1>2, AtIs DEF Delete, Ops
  <2>2. \A q \in Requests : Sound(request'[q])
    BY <1>2, <2>1, SoundGoOn DEF Delete
  <2>3. request'[r].seen = {} /\ \A q \in Requests \ {r} : request'[q] = request[q]
    BY <1>2, GoOnIs, IdleIsSound DEF Delete
  <2>4. Known' \subseteq Known
    BY <1>2, <2>3, KnownAfter DEF Delete, Known
  <2> QED BY <2>2, <2>4, NothingNew DEF HandlersInv
<1>3. ASSUME UNCHANGED request, rows' \subseteq rows,
             \/ UNCHANGED snapshot \/ snapshot' = {}
             \/ snapshot' = {{x \in rows : x.table \in Erasable}}
      PROVE  HandlersInv'
  <2>1. Known' \subseteq Known
    BY <1>3 DEF Known
  <2> QED BY <1>3, <2>1, NothingNew DEF HandlersInv
<1> QED BY <1>1, <1>2, <1>3 DEF BeginErasure, CommitErasure, AbortErasure, customerVars

LEMMA HandlersStep == TypeOK /\ HandlersInv /\ [Next]_customerVars => HandlersInv'
<1> QED BY ArriveStep, ReadingSteps, LockingSteps, InsertStep, SaveStep, TakingSteps DEF Next

LEMMA HandlersInit == Init => HandlersInv
<1> SUFFICES ASSUME Init PROVE HandlersInv
  OBVIOUS
<1>1. Known = {}
  BY IdleIsSound DEF Init, Known
<1> QED BY <1>1, IdleIsSound DEF Init, HandlersInv, RowsAreOfOneTable

\* A save that leaves the customer without default writes an address it had read,
\* and is the last thing its request does.
LEMMA SaveReplaces ==
  ASSUME TypeOK, HandlersInv, NEW r \in Requests, NEW t \in Tables, Save(r, t),
         Defaults # {}, Defaults' = {}
  PROVE  t = "address" /\ request[r].seen # {} /\ request'[r] = Idle
<1> DEFINE others(x) == {Cleared(r, y) : y \in {y \in rows : y.id # x.id}}
<1>1. PICK x :
        /\ \/ x \in request[r].seen
           \/ request[r].seen = {} /\ x.id \in Fresh /\ x.default = FALSE
        /\ x.table = t /\ x \in Row
        /\ \/ rows' = others(x) \cup {Changed(r, x)} /\ GoOn(r, Rest(r), {})
           \/ UNCHANGED rows /\ Over(r)
           \/ /\ request[r].seen # {} /\ rows' = others(x) /\ GoOn(r, Rest(r), {})
  BY SaveIs
<1>2. PICK d \in rows : d.default /\ d.table = "address" /\ d \in Known
  BY DEF Defaults, HandlersInv, RowsAreOfOneTable, Known
<1>3. \A y \in rows' : ~y.default
  BY DEF Defaults
<1>4. /\ others(x) \subseteq rows'
      /\ \/ rows' = others(x) \cup {Changed(r, x)}
         \/ rows' = others(x) /\ request[r].seen # {}
      /\ GoOn(r, Rest(r), {})
  BY <1>1, <1>2, <1>3
<1>5. /\ At(r, "save", t) /\ Fits(<<"save", t>>, request[r].default)
      /\ Rest(r) # <<>> => Follows(<<"save", t>>, Head(Rest(r)))
  BY AtIs DEF Save, Ops
<1>6. request[r].held => TRUE \in request[r].default
  BY DEF HandlersInv, Sound
<1>7. d.id # x.id => request[r].held
  <2> SUFFICES ASSUME d.id # x.id, ~request[r].held PROVE FALSE
    OBVIOUS
  <2>1. Cleared(r, d) = d /\ Cleared(r, d) \in others(x)
    BY ClearedIs
  <2> QED BY <1>2, <1>3, <1>4, <2>1
<1>8. t = "address"
  <2>1. CASE d.id = x.id
    <3>1. x \in request[r].seen
      BY <1>1, <1>2, <2>1, FreshIsUnknown
    <3>2. x \in Known
      BY <3>1 DEF Known
    <3> QED BY <1>1, <1>2, <2>1, <3>2 DEF HandlersInv, RowsAreOfOneTable
  <2>2. CASE request[r].held
    BY <1>5, <1>6, <2>2 DEF Fits
  <2> QED BY <1>7, <2>1, <2>2
<1>9. request[r].seen # {}
  <2> SUFFICES ASSUME request[r].seen = {} PROVE FALSE
    OBVIOUS
  <2>1. d.id # x.id
    BY <1>1, <1>2, FreshIsUnknown
  <2>2. Changed(r, x) \in rows' /\ Changed(r, x).default
    BY <1>1, <1>4, <1>5, <1>6, <1>7, <2>1, ChangedIs
  <2> QED BY <1>3, <2>2
<1>10. Rest(r) = <<>>
  BY <1>5, <1>8 DEF Follows
<1> QED BY <1>4, <1>8, <1>9, <1>10, GoOnIs

\* A customer with a default address has one until an address that had been read
\* is saved or the account is deleted: neither adding an address, nor a request
\* that fails, nor the deletion of a favourite takes it away.
THEOREM DefaultCorrect == Spec => DefaultIsReplaced
<1>1. TypeOK /\ HandlersInv /\ [Next]_customerVars =>
        [Defaults # {} /\ Defaults' = {} =>
           \/ erased'
           \/ \E r \in Requests : At(r, "save", "address") /\ request[r].seen # {}
                                   /\ request'[r] = Idle]_customerVars
  <2> SUFFICES ASSUME TypeOK, HandlersInv, Next, Defaults # {}, Defaults' = {}, ~erased'
               PROVE  \E r \in Requests : At(r, "save", "address") /\ request[r].seen # {}
                                           /\ request'[r] = Idle
    OBVIOUS
  <2>1. rows' # rows /\ ~(rows \subseteq rows')
    BY DEF Defaults
  <2>2. ASSUME NEW r \in Requests, NEW t \in Tables, Save(r, t)
        PROVE  At(r, "save", "address") /\ request[r].seen # {} /\ request'[r] = Idle
    BY <2>2, SaveReplaces DEF Save
  <2>3. ASSUME NEW r \in Requests, NEW t \in Tables, Delete(r, t) PROVE FALSE
    <3>1. /\ Fits(<<"delete", t>>, request[r].default)
          /\ \A x \in request[r].seen : x.table = t
      BY <2>3, AtIs DEF Delete, Ops, WriteOps
    <3>2. t = "favorite"
      BY <3>1 DEF Fits
    <3>3. ASSUME NEW d \in rows, d.default PROVE d \in rows'
      <4>1. d \in Known /\ d.table = "address" /\ request[r].seen \subseteq Known
        BY <3>3 DEF HandlersInv, RowsAreOfOneTable, Known
      <4>2. \A x \in request[r].seen : x.id # d.id
        BY <3>1, <3>2, <4>1 DEF HandlersInv, RowsAreOfOneTable
      <4> QED BY <2>3, <4>2 DEF Delete, Named
    <3> QED BY <3>3 DEF Defaults
  <2>4. ASSUME NEW r \in Requests, NEW t \in Tables, Insert(r, t) PROVE rows \subseteq rows'
    BY <2>4 DEF Insert
  <2>5. ASSUME NEW r \in Requests, Arrive(r) PROVE UNCHANGED rows
    BY <2>5 DEF Arrive, Admit
  <2>6. CASE BeginErasure \/ CommitErasure \/ AbortErasure
    BY <2>1, <2>6 DEF BeginErasure, CommitErasure, AbortErasure
  <2>7. ASSUME NEW r \in Requests, NEW t \in Tables,
               \/ Clear(r) \/ Lock(r) \/ Fail(r)
               \/ View(r, t) \/ Find(r, t) \/ Require(r, t)
        PROVE  UNCHANGED rows
    BY <2>7 DEF Clear, Lock, Fail, View, Find, Require, Reading
  <2> QED BY <2>1, <2>2, <2>3, <2>4, <2>5, <2>6, <2>7 DEF Next, Tables
<1> QED BY <1>1, InitType, StepType, HandlersInit, HandlersStep, PTL DEF Spec, DefaultIsReplaced

-----------------------------------------------------------------------------
(* The deletion.  Its snapshot stays all there is of the tables it erases  *)
(* while every request is on other tables.                                 *)

Erased(S) == {x \in S : x.table \notin Kept}

Alone ==
  /\ ~overlapped /\ (snapshot # {} \/ erased) => \A r \in Requests : Harmless(request[r].todo)
  /\ \A S \in snapshot : ~overlapped => Erased(rows) = S
  /\ erased /\ ~overlapped => Erased(rows) = {}
  /\ erased => snapshot = {}

\* A harmless request is at a statement on a row that is kept, and goes on with such.
LEMMA HarmlessAt ==
  ASSUME TypeOK, NEW r \in Requests, NEW op, NEW t, At(r, op, t), Harmless(request[r].todo)
  PROVE  t \in Kept /\ Harmless(Rest(r)) /\ Rest(r) \in Todo
<1>1. /\ request[r].todo \in Todo /\ request[r].todo # <<>>
      /\ Head(request[r].todo) = <<op, t>>
  BY DEF At, Busy, TypeOK, Request, Todo
<1>2. Len(request[r].todo) \in Nat \ {0} /\ request[r].todo[1] = <<op, t>>
  BY <1>1 DEF Todo
<1>3. t \in Kept
  BY <1>2 DEF Harmless
<1>4. /\ Len(Rest(r)) = Len(request[r].todo) - 1
      /\ \A i \in 1 .. Len(request[r].todo) - 1 : Rest(r)[i] = request[r].todo[i + 1]
  BY <1>1 DEF Rest, Todo
<1>5. Harmless(Rest(r))
  BY <1>2, <1>4 DEF Harmless
<1> QED BY <1>1, <1>3, <1>5 DEF Rest, Todo

LEMMA HarmlessCons ==
  ASSUME NEW todo \in Todo, Harmless(todo), NEW s \in Ops \X Tables, s[2] \in Kept
  PROVE  Harmless(<<s>> \o todo) /\ Harmless(<<>> \o todo)
<1> DEFINE all == <<s>> \o todo
<1>1. /\ Len(todo) \in Nat /\ Len(all) = Len(todo) + 1 /\ all[1] = s
      /\ \A i \in 1 .. Len(todo) : all[i + 1] = todo[i]
  BY DEF Todo
<1>2. <<>> \o todo = todo
  BY DEF Todo
<1> HIDE DEF all
<1>3. ASSUME NEW i \in 1 .. Len(all) PROVE all[i][2] \in Kept
  <2>1. CASE i = 1
    BY <1>1, <2>1
  <2>2. CASE i # 1
    <3>1. i - 1 \in 1 .. Len(todo) /\ all[i] = todo[i - 1]
      BY <1>1, <2>2
    <3> QED BY <3>1 DEF Harmless
  <2> QED BY <2>1, <2>2
<1>4. Harmless(all)
  BY <1>3 DEF Harmless
<1> QED BY <1>2, <1>4 DEF all

LEMMA HarmlessIdle == Harmless(Idle.todo)
BY DEF Harmless, Idle

\* A request that goes on harmlessly leaves all of them harmless.
LEMMA HarmlessGoOn ==
  ASSUME TypeOK, NEW r \in Requests, NEW todo, NEW seen,
         (GoOn(r, todo, seen) /\ Harmless(todo)) \/ Over(r),
         \A q \in Requests : Harmless(request[q].todo)
  PROVE  \A q \in Requests : Harmless(request'[q].todo)
<1>1. CASE GoOn(r, todo, seen) /\ Harmless(todo)
  BY <1>1, GoOnIs, HarmlessIdle
<1>2. CASE Over(r)
  BY <1>2, HarmlessIdle DEF Over, TypeOK
<1> QED BY <1>1, <1>2

\* Saving a row that is kept leaves the others as they are.
LEMMA HarmlessSave ==
  ASSUME TypeOK, HandlersInv, NEW r \in Requests, NEW t \in Tables, Save(r, t),
         Harmless(request[r].todo)
  PROVE  /\ Erased(rows') = Erased(rows)
         /\ GoOn(r, Rest(r), {}) \/ Over(r)
<1> DEFINE others(x) == {Cleared(r, y) : y \in {y \in rows : y.id # x.id}}
<1>1. PICK x :
        /\ \/ x \in request[r].seen
           \/ request[r].seen = {} /\ x.id \in Fresh /\ x.default = FALSE
        /\ x.table = t /\ x \in Row
        /\ \/ rows' = others(x) \cup {Changed(r, x)} /\ GoOn(r, Rest(r), {})
           \/ UNCHANGED rows /\ Over(r)
           \/ /\ request[r].seen # {} /\ rows' = others(x) /\ GoOn(r, Rest(r), {})
  BY SaveIs
<1>2. t \in Kept /\ At(r, "save", t)
  BY HarmlessAt DEF Save
<1>3. ~request[r].held
  <2>1. Fits(<<"save", t>>, request[r].default)
    BY <1>2, AtIs DEF Ops
  <2>2. request[r].held => TRUE \in request[r].default
    BY DEF HandlersInv, Sound
  <2> QED BY <1>2, <2>1, <2>2 DEF Fits, Kept
<1>4. others(x) = {y \in rows : y.id # x.id}
  BY <1>3, ClearedIs
<1>5. \A y \in rows : y.id = x.id => y.table = t
  <2>1. CASE x \in request[r].seen
    BY <1>1, <2>1 DEF HandlersInv, RowsAreOfOneTable, Known
  <2>2. CASE x.id \in Fresh
    BY <2>2, FreshIsUnknown DEF Known
  <2> QED BY <1>1, <2>1, <2>2
<1>6. Changed(r, x).table = t
  BY <1>1, <1>2, ChangedIs
<1>7. Erased(others(x)) = Erased(rows)
  BY <1>2, <1>4, <1>5 DEF Erased
<1> HIDE DEF others
<1>8. Erased(others(x) \cup {Changed(r, x)}) = Erased(others(x))
  BY <1>2, <1>6 DEF Erased
<1> QED BY <1>1, <1>7, <1>8

\* What a request that is harmless does.
LEMMA HarmlessStep ==
  ASSUME TypeOK, HandlersInv, NEW r \in Requests, \A q \in Requests : Harmless(request[q].todo),
         \/ Clear(r) \/ Lock(r) \/ Fail(r)
         \/ \E t \in Tables : \/ View(r, t) \/ Find(r, t) \/ Require(r, t)
                              \/ Insert(r, t) \/ Save(r, t) \/ Delete(r, t)
  PROVE  /\ \A q \in Requests : Harmless(request'[q].todo)
         /\ Erased(rows') = Erased(rows)
<1>1. ASSUME Clear(r) \/ Lock(r) PROVE FALSE
  BY <1>1, HarmlessAt DEF Clear, Lock, Kept
<1>2. CASE Fail(r)
  BY <1>2, HarmlessGoOn DEF Fail, Reading
<1>3. ASSUME NEW t \in Tables, View(r, t)
      PROVE  (\A q \in Requests : Harmless(request'[q].todo)) /\ UNCHANGED rows
  <2>1. t \in Kept /\ Harmless(Rest(r)) /\ Rest(r) \in Todo
    BY <1>3, HarmlessAt DEF View
  <2>2. <<"insert", t>> \in Ops \X Tables /\ <<"insert", t>>[2] \in Kept
    BY <2>1 DEF Ops
  <2> DEFINE todo == (IF Of(t) = {} THEN <<<<"insert", t>>>> ELSE <<>>) \o Rest(r)
  <2>3. Harmless(todo)
    BY <2>1, <2>2, HarmlessCons
  <2>4. GoOn(r, todo, {}) /\ UNCHANGED rows
    BY <1>3 DEF View, Reading
  <2> HIDE DEF todo
  <2> QED BY <2>3, <2>4, HarmlessGoOn
<1>4. ASSUME NEW t \in Tables, Find(r, t)
      PROVE  (\A q \in Requests : Harmless(request'[q].todo)) /\ UNCHANGED rows
  <2>1. t \in Kept /\ Harmless(Rest(r)) /\ Rest(r) \in Todo
    BY <1>4, HarmlessAt DEF Find
  <2>2. t # "profile" /\ <<>> \o Rest(r) = Rest(r)
    BY <2>1 DEF Kept, Todo
  <2>3. UNCHANGED rows /\ \E seen : GoOn(r, Rest(r), seen)
    BY <1>4, <2>2 DEF Find, Reading
  <2> QED BY <2>1, <2>3, HarmlessGoOn
<1>5. ASSUME NEW t \in Tables, Require(r, t)
      PROVE  (\A q \in Requests : Harmless(request'[q].todo)) /\ UNCHANGED rows
  <2>1. Harmless(Rest(r))
    BY <1>5, HarmlessAt DEF Require
  <2>2. UNCHANGED rows /\ ((\E seen : GoOn(r, Rest(r), seen)) \/ Over(r))
    BY <1>5 DEF Require, Reading
  <2> QED BY <2>1, <2>2, HarmlessGoOn
<1>6. ASSUME NEW t \in Tables, Insert(r, t)
      PROVE  (\A q \in Requests : Harmless(request'[q].todo)) /\ Erased(rows') = Erased(rows)
  <2>1. t \in Kept /\ Harmless(Rest(r))
    BY <1>6, HarmlessAt DEF Insert
  <2> DEFINE row(n) == [table |-> t, id |-> n, active |-> TRUE, default |-> FALSE]
  <2>2. PICK n \in Fresh : \/ rows' = rows \cup {row(n)} /\ GoOn(r, Rest(r), {})
                           \/ UNCHANGED rows /\ Over(r)
    BY <1>6 DEF Insert
  <2>3. row(n).table = t
    OBVIOUS
  <2> HIDE DEF row
  <2>4. Erased(rows') = Erased(rows)
    BY <2>1, <2>2, <2>3 DEF Erased
  <2> QED BY <2>1, <2>2, <2>4, HarmlessGoOn
<1>7. ASSUME NEW t \in Tables, Save(r, t)
      PROVE  (\A q \in Requests : Harmless(request'[q].todo)) /\ Erased(rows') = Erased(rows)
  <2>1. Harmless(Rest(r))
    BY <1>7, HarmlessAt DEF Save
  <2> QED BY <1>7, <2>1, HarmlessSave, HarmlessGoOn
<1>8. ASSUME NEW t \in Tables, Delete(r, t) PROVE FALSE
  <2>1. t \in Kept /\ Fits(<<"delete", t>>, request[r].default)
    BY <1>8, HarmlessAt, AtIs DEF Delete, Ops
  <2> QED BY <2>1 DEF Fits, Kept
<1> QED BY <1>1, <1>2, <1>3, <1>4, <1>5, <1>6, <1>7, <1>8

LEMMA StepAlone == TypeOK /\ HandlersInv /\ Alone /\ [Next]_customerVars => Alone'
<1> SUFFICES ASSUME TypeOK, HandlersInv, Alone, [Next]_customerVars PROVE Alone'
  OBVIOUS
<1>1. ASSUME NEW r \in Requests, Arrive(r) PROVE Alone'
  <2>1. PICK s, a, d : Admit(r, s, a, d)
    BY <1>1, ArriveIs
  <2>2. /\ ~erased /\ UNCHANGED <<rows, snapshot, erased>>
        /\ ~overlapped' => ~overlapped /\ (snapshot # {} => Harmless(s))
    BY <2>1 DEF Admit
  <2>3. \A q \in Requests : request'[q].todo = IF q = r THEN s ELSE request[q].todo
    BY <2>1 DEF Admit, TypeOK, Idle
  <2> QED BY <2>2, <2>3 DEF Alone
<1>2. CASE BeginErasure
  <2>1. {x \in rows : x.table \in Erasable} = Erased(rows)
    BY DEF TypeOK, Row, Tables, Erasable, Erased, Kept
  <2>2. /\ ~erased /\ snapshot' = {Erased(rows)} /\ rows' = rows /\ request' = request
        /\ erased' = erased
        /\ (overlapped' = ~ \A r \in Requests : Harmless(request[r].todo))
    BY <1>2, <2>1 DEF BeginErasure
  <2> QED BY <2>2 DEF Alone
<1>3. CASE CommitErasure
  <2>1. PICK S \in snapshot : S \subseteq rows /\ rows' = rows \ S
    BY <1>3 DEF CommitErasure
  <2>2. ~overlapped => Erased(rows') = {}
    BY <2>1 DEF Alone, Erased
  <2>3. snapshot' = {} /\ erased' /\ overlapped' = overlapped /\ request' = request
    BY <1>3 DEF CommitErasure
  <2> QED BY <2>1, <2>2, <2>3 DEF Alone
<1>4. CASE AbortErasure
  <2>1. snapshot # {} /\ snapshot' = {} /\ erased' = erased
    BY <1>4 DEF AbortErasure
  <2> QED BY <2>1 DEF Alone
<1>5. CASE UNCHANGED customerVars
  BY <1>5 DEF customerVars, Alone
<1>6. ASSUME NEW r \in Requests,
             \/ Clear(r) \/ Lock(r) \/ Fail(r)
             \/ \E t \in Tables : \/ View(r, t) \/ Find(r, t) \/ Require(r, t)
                                  \/ Insert(r, t) \/ Save(r, t) \/ Delete(r, t)
      PROVE  Alone'
  <2>1. UNCHANGED <<snapshot, overlapped, erased>>
    BY <1>6 DEF Clear, Lock, Fail, View, Find, Require, Insert, Save, Delete, Reading
  <2>2. CASE overlapped \/ (snapshot = {} /\ ~erased)
    BY <2>1, <2>2 DEF Alone
  <2>3. CASE ~overlapped /\ (snapshot # {} \/ erased)
    <3>1. /\ \A q \in Requests : Harmless(request'[q].todo)
          /\ Erased(rows') = Erased(rows)
      BY <1>6, <2>3, HarmlessStep DEF Alone
    <3> QED BY <2>1, <3>1 DEF Alone
  <2> QED BY <2>2, <2>3
<1> QED BY <1>1, <1>2, <1>3, <1>4, <1>5, <1>6 DEF Next

\* A deletion that no request on the tables it erases overlapped leaves no row of
\* them, for ever, although carts and preferences are made while it runs and after.
THEOREM ErasureIsCompleteHolds == Spec => []ErasureIsComplete
<1>1. Init => Alone
  BY DEF Init, Alone, Erased
<1>2. Alone => ErasureIsComplete
  BY DEF Alone, ErasureIsComplete, Erased
<1> QED BY <1>1, <1>2, InitType, StepType, HandlersInit, HandlersStep, StepAlone, PTL DEF Spec
=============================================================================
