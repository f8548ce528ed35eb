--------------------------- MODULE SupportProofs ---------------------------
(***************************************************************************)
(* Proofs about Support and Media, for every number of requests, users,    *)
(* tickets, messages and files.                                            *)
(***************************************************************************)
EXTENDS Support, FiniteSetTheorems, TLAPS

-----------------------------------------------------------------------------
(* Media.                                                                   *)

\* What is stored, saved, checked or active has been stored as announced.
MediaInv ==
  /\ ActiveWasStored
  /\ uploading \subseteq stored
  /\ \A a \in Assets : object[a] = "good" \/ finalizing[a] = "checked" => a \in stored

\* What a step may not change of a file that was sent.
FilesKept ==
  /\ \A a \in Assets : asset[a].by # {} => asset'[a].by = asset[a].by
                                           /\ asset'[a].target = asset[a].target
  /\ stored \subseteq stored'

\* The steps of MediaService.
FileStep ==
  \/ \E a \in Assets, u \in Users, t \in Tickets : Upload(a, u, t) \/ AuthorizeUpload(a, u, t)
  \/ MediaNext

LEMMA FileSteps ==
  ASSUME MediaTypeOK, MediaInv, FileStep
  PROVE  MediaTypeOK' /\ MediaInv' /\ FilesKept
<1> USE DEF MediaTypeOK, MediaInv, ActiveWasStored, FilesKept
<1> DEFINE Good == MediaTypeOK' /\ MediaInv' /\ FilesKept
<1>1. ASSUME NEW a \in Assets, NEW u \in Users, NEW t \in Tickets, Upload(a, u, t) PROVE Good
  BY <1>1 DEF Upload, For, Unused, AssetRow
<1>2. ASSUME NEW a \in Assets, NEW u \in Users, NEW t \in Tickets, AuthorizeUpload(a, u, t)
      PROVE  Good
  BY <1>2 DEF AuthorizeUpload, For, Unused, AssetRow
<1>3. ASSUME NEW a \in Assets, SaveUpload(a) PROVE Good
  BY <1>3 DEF SaveUpload, AssetRow
<1>4. ASSUME NEW a \in Assets, UploadFails(a) PROVE Good
  BY <1>4 DEF UploadFails
<1>5. ASSUME NEW a \in Assets, ReadPending(a) \/ CheckObject(a) PROVE Good
  BY <1>5 DEF ReadPending, CheckObject
<1>6. ASSUME NEW a \in Assets, SaveFinal(a) PROVE Good
  BY <1>6 DEF SaveFinal, AssetRow
<1>7. ASSUME NEW a \in Assets, Remove(a) PROVE Good
  BY <1>7 DEF Remove
<1>8. ASSUME NEW a \in Assets, NEW f \in {"good", "bad"}, Put(a, f) PROVE Good
  BY <1>8 DEF Put
<1>9. CASE MediaCrash
  BY <1>9 DEF MediaCrash
<1> QED BY <1>1, <1>2, <1>3, <1>4, <1>5, <1>6, <1>7, <1>8, <1>9 DEF FileStep, MediaNext

LEMMA MediaStutters ==
  ASSUME MediaTypeOK, MediaInv, UNCHANGED mediaVars
  PROVE  MediaTypeOK' /\ MediaInv' /\ FilesKept
BY DEF MediaTypeOK, MediaInv, ActiveWasStored, FilesKept, mediaVars

-----------------------------------------------------------------------------
(* Types.                                                                   *)

TicketsTypeOK ==
  /\ ticket \in [Tickets -> Ticket]
  /\ message \in [Messages -> Message]
  /\ unread \in [Tickets -> [Sides -> SUBSET Messages]]

JobsTypeOK ==
  /\ step \in [Requests -> {"idle", "message", "read", "claim", "status"}]
  /\ input \in [Requests -> Input]
  /\ seen \in [Requests -> Ticket]

LEMMA TypeParts ==
  /\ TypeOK <=> MediaTypeOK /\ TicketsTypeOK /\ JobsTypeOK
  /\ TypeOK' <=> MediaTypeOK' /\ TicketsTypeOK' /\ JobsTypeOK'
BY DEF TypeOK, TicketsTypeOK, JobsTypeOK

LEMMA NothingType == NoTicket \in Ticket /\ NoInput \in Input
BY DEF NoTicket, NoInput, Ticket, Input, TicketStatuses, Sides

\* A ticket with one of its columns written is a ticket.
LEMMA TicketType ==
  ASSUME NEW k \in Ticket
  PROVE  /\ \A s \in Sides : [k EXCEPT !.count[s] = 0] \in Ticket
         /\ \A u \in Users : Messaged(k, u) \in Ticket
         /\ \A g : g \subseteq Staff =>
              [k EXCEPT !.assigned = g, !.status = "in_progress"] \in Ticket
         /\ \A s \in TicketStatuses :
              [k EXCEPT !.status = s, !.resolvedAt = (s = "resolved"),
                        !.closedAt = (s = "closed")] \in Ticket
<1>1. \A s \in Sides : [k EXCEPT !.count[s] = 0] \in Ticket
  BY DEF Ticket
<1>2. ASSUME NEW u \in Users PROVE Messaged(k, u) \in Ticket
  <2>1. Other(SideOf(u)) \in Sides
    BY DEF Other, SideOf, Sides
  <2>2. k.count \in [Sides -> Nat] /\ k.count[Other(SideOf(u))] + 1 \in Nat
    BY <2>1 DEF Ticket
  <2>3. [k EXCEPT !.count[Other(SideOf(u))] = @ + 1] \in Ticket
    BY <2>1, <2>2 DEF Ticket
  <2> QED BY <2>1, <2>2, <2>3 DEF Messaged, Ticket, TicketStatuses
<1>3. \A g : g \subseteq Staff =>
        [k EXCEPT !.assigned = g, !.status = "in_progress"] \in Ticket
  BY DEF Ticket, TicketStatuses
<1>4. \A s \in TicketStatuses :
        [k EXCEPT !.status = s, !.resolvedAt = (s = "resolved"),
                  !.closedAt = (s = "closed")] \in Ticket
  BY DEF Ticket
<1> QED BY <1>1, <1>2, <1>3, <1>4

-----------------------------------------------------------------------------
(* The inductive invariant of the tickets.                                  *)

\* Whoever is in a transaction holds the row as it is, and nobody else does.
LocksInv ==
  \A r \in Requests : step[r] # "idle" =>
    \E t \in Tickets :
      /\ input[r].ticket = {t} /\ ticket[t].status # "none" /\ seen[r] = ticket[t]
      /\ \A q \in Requests : step[q] # "idle" /\ input[q].ticket = {t} => q = r

\* Unread messages belong to their ticket.
UnreadInv ==
  /\ UnreadIsCounted
  /\ \A t \in Tickets, s \in Sides : \A m \in unread[t][s] : message[m].ticket = {t}

\* What a request was let in with.
LetIn(s, i, k) ==
  /\ s = "message" =>
       /\ k.status \notin Ended
       /\ \A a \in i.files : /\ asset[a].by # {} /\ asset[a].by = i.user
                             /\ asset[a].target = i.ticket /\ a \in stored
  /\ s = "claim" => /\ k.status \notin Ended
                    /\ \E g \in Staff : i.user = {g} /\ k.assigned \subseteq {g}
  /\ s \in {"message", "read"} => \E u \in Users : i.user = {u}
  /\ s = "status" => i.status # "none"
InputInv == \A r \in Requests : LetIn(step[r], input[r], seen[r])

FilesInv ==
  \A m \in Messages : \A a \in message[m].files :
    /\ asset[a].by # {} /\ asset[a].by = message[m].author
    /\ asset[a].target = message[m].ticket
    /\ a \in stored

\* Nobody has written to a ticket that does not exist.
FreshInv ==
  \A t \in Tickets : ticket[t].status = "none" =>
    ticket[t].count = [s \in Sides |-> 0] /\ ticket[t].assigned = {}

Inv == /\ MediaInv /\ LocksInv /\ UnreadInv /\ DatesFollowStatus /\ FreshInv
       /\ InputInv /\ FilesInv

LEMMA InitInv == Init => TypeOK /\ Inv
<1> SUFFICES ASSUME Init PROVE TypeOK /\ Inv
  OBVIOUS
<1>1. TypeOK
  <2>1. MediaTypeOK
    BY DEF Init, MediaInit, MediaTypeOK, AssetRow
  <2> QED BY <2>1, NothingType DEF Init, TypeOK, Message
<1>2. MediaInv
  BY DEF Init, MediaInit, MediaInv, ActiveWasStored
<1>3. LocksInv /\ InputInv /\ FilesInv
  BY DEF Init, LocksInv, InputInv, LetIn, FilesInv
<1>4. UnreadInv
  BY FS_EmptySet DEF Init, UnreadInv, UnreadIsCounted, NoTicket, Sides
<1>5. DatesFollowStatus /\ FreshInv
  BY DEF Init, DatesFollowStatus, FreshInv, NoTicket
<1> QED BY <1>1, <1>2, <1>3, <1>4, <1>5 DEF Inv

-----------------------------------------------------------------------------
(* The steps of a transaction.                                              *)

\* A step of MediaService, which no ticket is about.
LEMMA FilesStep ==
  ASSUME TypeOK, Inv, MediaTypeOK' /\ MediaInv' /\ FilesKept, UNCHANGED <<supportVars, jobVars>>
  PROVE  TypeOK' /\ Inv'
<1>1. TypeOK'
  BY TypeParts DEF TicketsTypeOK, JobsTypeOK, supportVars, jobVars
<1>2. LocksInv' /\ UnreadInv' /\ DatesFollowStatus' /\ FreshInv'
  BY DEF Inv, LocksInv, UnreadInv, UnreadIsCounted, DatesFollowStatus, FreshInv, supportVars,
         jobVars
<1>3. InputInv' /\ FilesInv'
  <2>1. /\ \A r \in Requests : input[r].files \subseteq Assets
        /\ \A m \in Messages : message[m].files \subseteq Assets
    BY DEF TypeOK, Input, Message
  <2>2. InputInv'
    BY <2>1 DEF Inv, InputInv, LetIn, FilesKept, supportVars, jobVars
  <2>3. FilesInv'
    BY <2>1 DEF Inv, FilesInv, FilesKept, supportVars, jobVars
  <2> QED BY <2>2, <2>3
<1> QED BY <1>1, <1>2, <1>3 DEF Inv

\* What Begin and Over do to the requests.
LEMMA Begins ==
  ASSUME TypeOK, LocksInv, NEW r \in Requests, NEW t \in Tickets, NEW i \in Input,
         NEW s \in {"message", "read", "claim", "status"}, Begin(r, s, i, t)
  PROVE  /\ TypeOK' /\ LocksInv'
         /\ \A q \in Requests \ {r} : step'[q] = step[q] /\ input'[q] = input[q]
                                      /\ seen'[q] = seen[q]
         /\ step'[r] = s /\ input'[r] = i /\ seen'[r] = ticket[t] /\ i.ticket = {t}
         /\ UNCHANGED <<mediaVars, supportVars>>
<1>1. /\ \A q \in Requests \ {r} : step'[q] = step[q] /\ input'[q] = input[q]
                                   /\ seen'[q] = seen[q]
      /\ step'[r] = s /\ input'[r] = i /\ seen'[r] = ticket[t] /\ i.ticket = {t}
      /\ UNCHANGED <<mediaVars, supportVars>> /\ ticket[t].status # "none" /\ ~Held(t)
  BY DEF Begin, TypeOK
<1>2. TypeOK'
  <2>1. JobsTypeOK'
    BY DEF Begin, TypeOK, JobsTypeOK
  <2> QED BY <1>1, <2>1, TypeParts DEF TicketsTypeOK, MediaTypeOK, mediaVars, supportVars
<1>3. LocksInv'
  BY <1>1 DEF LocksInv, Held, supportVars
<1> QED BY <1>1, <1>2, <1>3

\* A request that has arrived: what is left to show is what it was let in with.
LEMMA BegunInv ==
  ASSUME TypeOK, Inv, NEW r \in Requests, NEW t \in Tickets, NEW i \in Input,
         NEW s \in {"message", "read", "claim", "status"}, Begin(r, s, i, t),
         LetIn(s, i, ticket[t])
  PROVE  TypeOK' /\ Inv'
<1>0. LocksInv
  BY DEF Inv
<1>1. /\ TypeOK' /\ LocksInv'
      /\ \A q \in Requests \ {r} : step'[q] = step[q] /\ input'[q] = input[q]
                                   /\ seen'[q] = seen[q]
      /\ step'[r] = s /\ input'[r] = i /\ seen'[r] = ticket[t] /\ i.ticket = {t}
      /\ UNCHANGED <<mediaVars, supportVars>>
  BY <1>0, Begins
<1>2. MediaInv' /\ UnreadInv' /\ DatesFollowStatus' /\ FreshInv' /\ FilesInv'
  BY <1>1 DEF Inv, MediaInv, ActiveWasStored, UnreadInv, UnreadIsCounted, DatesFollowStatus,
              FreshInv, FilesInv, mediaVars, supportVars
<1>3. InputInv'
  <2>1. UNCHANGED <<asset, stored>>
    BY <1>1 DEF mediaVars
  <2>2. ASSUME NEW q \in Requests \ {r}
        PROVE  step'[q] = step[q] /\ input'[q] = input[q] /\ seen'[q] = seen[q]
    BY <1>1
  <2>3. ASSUME NEW q \in Requests PROVE LetIn(step'[q], input'[q], seen'[q])
    BY <1>1, <2>2 DEF Inv, InputInv
  <2> QED BY <2>1, <2>3 DEF InputInv, LetIn
<1> QED BY <1>1, <1>2, <1>3 DEF Inv

LEMMA ArriveInv ==
  ASSUME TypeOK, Inv, NEW r \in Requests, Arrive(r) PROVE TypeOK' /\ Inv'
<1> DEFINE mes(u, t, files) == [NoInput EXCEPT !.user = {u}, !.ticket = {t}, !.files = files]
           rd(u, t) == [NoInput EXCEPT !.user = {u}, !.ticket = {t}]
           st(u, t, s) == [NoInput EXCEPT !.user = {u}, !.ticket = {t}, !.status = s]
<1>5. ASSUME NEW u \in Users, NEW t \in Tickets
      PROVE  rd(u, t) \in Input /\ rd(u, t).user = {u}
  BY NothingType DEF Input, NoInput
<1>6. ASSUME NEW u \in Users, NEW t \in Tickets, NEW s \in TicketStatuses
      PROVE  st(u, t, s) \in Input /\ st(u, t, s).status = s
  BY NothingType DEF Input, NoInput
<1>1. ASSUME NEW u \in Users, NEW t \in Tickets, BeginRead(r, u, t) PROVE TypeOK' /\ Inv'
  <2>1. Begin(r, "read", rd(u, t), t)
    BY <1>1 DEF BeginRead
  <2>2. rd(u, t) \in Input /\ rd(u, t).user = {u}
    BY <1>5
  <2> QED BY <2>1, <2>2, BegunInv DEF LetIn
<1>2. ASSUME NEW u \in Users, NEW t \in Tickets, NEW files \in SUBSET Assets,
             BeginMessage(r, u, t, files)
      PROVE  TypeOK' /\ Inv'
  <2>1. Begin(r, "message", mes(u, t, files), t)
    BY <1>2 DEF BeginMessage
  <2>2. \A a \in files : asset[a].by = {u} /\ asset[a].target = {t} /\ a \in stored
    BY <1>2 DEF BeginMessage, Attachable, Inv, MediaInv, ActiveWasStored
  <2>3. ticket[t].status \notin Ended
    BY <1>2 DEF BeginMessage
  <2>4. /\ mes(u, t, files) \in Input /\ mes(u, t, files).user = {u}
        /\ mes(u, t, files).ticket = {t} /\ mes(u, t, files).files = files
    BY NothingType DEF Input, NoInput
  <2> QED BY <2>1, <2>2, <2>3, <2>4, BegunInv DEF LetIn
<1>3. ASSUME NEW g \in Staff, NEW t \in Tickets, BeginClaim(r, g, t) PROVE TypeOK' /\ Inv'
  <2>1. Begin(r, "claim", rd(g, t), t)
    BY <1>3 DEF BeginClaim
  <2>2. rd(g, t) \in Input /\ rd(g, t).user = {g}
    BY <1>5, SupportAssumption
  <2> QED BY <1>3, <2>1, <2>2, BegunInv DEF BeginClaim, LetIn
<1>4. ASSUME NEW g \in Staff, NEW t \in Tickets, NEW s \in TicketStatuses \ {"none"},
             BeginStatus(r, g, t, s)
      PROVE  TypeOK' /\ Inv'
  <2>1. Begin(r, "status", st(g, t, s), t)
    BY <1>4 DEF BeginStatus
  <2>2. st(g, t, s) \in Input /\ st(g, t, s).status # "none"
    <3>1. g \in Users /\ s \in TicketStatuses
      BY SupportAssumption
    <3> QED BY <1>6, <3>1
  <2> QED BY <2>1, <2>2, BegunInv DEF LetIn
<1> QED BY <1>1, <1>2, <1>3, <1>4 DEF Arrive

-----------------------------------------------------------------------------
(* The ends of a transaction.                                               *)

\* A request that is over; the row it held may have been saved.
LEMMA Overs ==
  ASSUME TypeOK, LocksInv, NEW r \in Requests, step[r] # "idle", Over(r),
         NEW t \in Tickets, input[r].ticket = {t},
         \A v \in Tickets \ {t} : ticket'[v] = ticket[v]
  PROVE  /\ JobsTypeOK' /\ LocksInv'
         /\ \A q \in Requests \ {r} : step'[q] = step[q] /\ input'[q] = input[q]
                                      /\ seen'[q] = seen[q]
         /\ step'[r] = "idle"
<1>1. /\ JobsTypeOK'
      /\ \A q \in Requests \ {r} : step'[q] = step[q] /\ input'[q] = input[q]
                                   /\ seen'[q] = seen[q]
      /\ step'[r] = "idle"
  BY NothingType DEF Over, TypeOK, JobsTypeOK
<1>2. ASSUME NEW q \in Requests, step'[q] # "idle"
      PROVE  \E v \in Tickets :
               /\ input'[q].ticket = {v} /\ ticket'[v].status # "none" /\ seen'[q] = ticket'[v]
               /\ \A p \in Requests : step'[p] # "idle" /\ input'[p].ticket = {v} => p = q
  <2>1. q # r /\ step[q] # "idle"
    BY <1>1, <1>2
  <2>2. PICK v \in Tickets :
          /\ input[q].ticket = {v} /\ ticket[v].status # "none" /\ seen[q] = ticket[v]
          /\ \A p \in Requests : step[p] # "idle" /\ input[p].ticket = {v} => p = q
    BY <2>1 DEF LocksInv
  <2>3. v # t
    BY <2>1, <2>2
  <2> QED BY <1>1, <2>1, <2>2, <2>3
<1>3. LocksInv'
  BY <1>2 DEF LocksInv
<1> QED BY <1>1, <1>3

\* The row a commit saves is the one there is, with one change.
LEMMA Locked ==
  ASSUME LocksInv, NEW r \in Requests, step[r] # "idle", NEW t \in Tickets,
         input[r].ticket = {t}
  PROVE  seen[r] = ticket[t] /\ ticket[t].status # "none"
BY DEF LocksInv

\* What the other requests were let in with still holds.
LEMMA InputKept ==
  ASSUME InputInv, NEW r \in Requests, step'[r] = "idle", UNCHANGED mediaVars,
         \A q \in Requests \ {r} : step'[q] = step[q] /\ input'[q] = input[q]
                                   /\ seen'[q] = seen[q]
  PROVE  InputInv'
<1>1. ASSUME NEW q \in Requests PROVE LetIn(step'[q], input'[q], seen'[q])
  <2>1. CASE q = r
    BY <2>1 DEF LetIn
  <2>2. CASE q # r
    BY <2>2 DEF InputInv
  <2> QED BY <2>1, <2>2
<1>2. UNCHANGED <<asset, stored>>
  BY DEF mediaVars
<1> QED BY <1>1, <1>2 DEF InputInv, LetIn

\* A new message raises the number of the other side's unread messages by one.
LEMMA Unreads ==
  ASSUME TypeOK, UnreadInv, FilesInv, UNCHANGED mediaVars,
         NEW t \in Tickets, NEW u \in Users, NEW files \in SUBSET Assets,
         NEW m \in First(NewMessages), Insert(m, t, u, files),
         \A v \in Tickets \ {t} : ticket'[v].count = ticket[v].count,
         ticket'[t].count = [ticket[t].count EXCEPT ![Other(SideOf(u))] = @ + 1],
         \A a \in files : /\ asset[a].by # {} /\ asset[a].by = {u}
                          /\ asset[a].target = {t} /\ a \in stored
  PROVE  /\ UnreadInv' /\ FilesInv'
         /\ message' \in [Messages -> Message]
         /\ unread' \in [Tickets -> [Sides -> SUBSET Messages]]
<1> DEFINE side == Other(SideOf(u))
<1>1. m \in Messages /\ message[m].ticket = {} /\ side \in Sides
  BY DEF First, NewMessages, Other, SideOf, Sides
<1>2. /\ message' = [message EXCEPT ![m] = [ticket |-> {t}, author |-> {u}, files |-> files]]
      /\ unread' = [unread EXCEPT ![t][side] = @ \cup {m}]
  BY DEF Insert
<1>3. /\ message' \in [Messages -> Message]
      /\ unread' \in [Tickets -> [Sides -> SUBSET Messages]]
  BY <1>1, <1>2 DEF TypeOK, Message
<1>4. /\ unread'[t][side] = unread[t][side] \cup {m}
      /\ \A v \in Tickets, s \in Sides : v # t \/ s # side => unread'[v][s] = unread[v][s]
      /\ message'[m].ticket = {t}
      /\ \A n \in Messages \ {m} : message'[n] = message[n]
  BY <1>1, <1>2 DEF TypeOK
<1>5. \A v \in Tickets, s \in Sides : m \notin unread[v][s]
  BY <1>1 DEF UnreadInv
<1>6. \A v \in Tickets, s \in Sides : IsFiniteSet(unread[v][s])
  <2>1. IsFiniteSet(Messages)
    BY FS_Interval, SupportAssumption DEF Messages
  <2> QED BY <2>1, FS_Subset DEF TypeOK
<1>7. Cardinality(unread'[t][side]) = Cardinality(unread[t][side]) + 1
  <2> DEFINE old == unread[t][side]
  <2>1. IsFiniteSet(old) /\ m \notin old
    BY <1>1, <1>5, <1>6
  <2> HIDE DEF old
  <2>2. Cardinality(old \cup {m}) = Cardinality(old) + 1
    BY <2>1, FS_AddElement
  <2> USE DEF old
  <2> QED BY <1>4, <2>2
<1>8. UnreadIsCounted'
  <2>1. ticket[t].count \in [Sides -> Nat]
    BY DEF TypeOK, Ticket
  <2>2. /\ ticket'[t].count[side] = ticket[t].count[side] + 1
        /\ \A s \in Sides \ {side} : ticket'[t].count[s] = ticket[t].count[s]
    BY <1>1, <2>1
  <2>3. ASSUME NEW v \in Tickets, NEW s \in Sides
        PROVE  ticket'[v].count[s] = Cardinality(unread'[v][s])
    <3>1. CASE v = t /\ s = side
      BY <1>7, <2>2, <3>1 DEF UnreadInv, UnreadIsCounted
    <3>2. CASE v = t /\ s # side
      <4>1. unread'[t][s] = unread[t][s] /\ ticket'[t].count[s] = ticket[t].count[s]
        BY <1>4, <2>2, <3>2
      <4>2. ticket[t].count[s] = Cardinality(unread[t][s])
        BY DEF UnreadInv, UnreadIsCounted
      <4> QED BY <3>2, <4>1, <4>2
    <3>3. CASE v # t
      BY <1>4, <3>3 DEF UnreadInv, UnreadIsCounted
    <3> QED BY <3>1, <3>2, <3>3
  <2> QED BY <2>3 DEF UnreadIsCounted
<1>9. \A v \in Tickets, s \in Sides : \A n \in unread'[v][s] : message'[n].ticket = {v}
  <2>1. ASSUME NEW v \in Tickets, NEW s \in Sides, NEW n \in unread'[v][s]
        PROVE  message'[n].ticket = {v}
    <3>1. CASE n = m
      BY <1>4, <1>5, <3>1
    <3>2. CASE n # m
      <4>1. n \in unread[v][s] /\ n \in Messages
        BY <1>1, <1>3, <1>4, <3>2 DEF TypeOK
      <4> QED BY <1>4, <3>2, <4>1 DEF UnreadInv
    <3> QED BY <3>1, <3>2
  <2> QED BY <2>1
<1>10. FilesInv'
  <2>1. UNCHANGED <<asset, stored>>
    BY DEF mediaVars
  <2>2. message'[m].ticket = {t} /\ message'[m].author = {u} /\ message'[m].files = files
    BY <1>1, <1>2 DEF TypeOK
  <2>3. ASSUME NEW n \in Messages, NEW a \in message'[n].files
        PROVE  /\ asset[a].by # {} /\ asset[a].by = message'[n].author
               /\ asset[a].target = message'[n].ticket /\ a \in stored
    <3>1. CASE n = m
      BY <2>2, <3>1
    <3>2. CASE n # m
      BY <1>4, <3>2 DEF FilesInv
    <3> QED BY <3>1, <3>2
  <2> QED BY <2>1, <2>3 DEF FilesInv
<1> QED BY <1>3, <1>8, <1>9, <1>10 DEF UnreadInv

\* What every commit shares: the row it held, saved as k, and the request over.
LEMMA Commits ==
  ASSUME TypeOK, Inv, NEW r \in Requests, NEW t \in Tickets, NEW k \in Ticket,
         step[r] # "idle", Save(r, t, k), Over(r), UNCHANGED mediaVars
  PROVE  /\ seen[r] = ticket[t] /\ ticket[t].status # "none"
         /\ ticket'[t] = k /\ \A v \in Tickets \ {t} : ticket'[v] = ticket[v]
         /\ ticket' \in [Tickets -> Ticket]
         /\ MediaTypeOK' /\ MediaInv' /\ JobsTypeOK' /\ LocksInv' /\ InputInv'
<1>1. input[r].ticket = {t} /\ ticket' = [ticket EXCEPT ![t] = k]
  BY DEF Save
<1>2. /\ ticket'[t] = k /\ \A v \in Tickets \ {t} : ticket'[v] = ticket[v]
      /\ ticket' \in [Tickets -> Ticket]
  BY <1>1 DEF TypeOK
<1>3. seen[r] = ticket[t] /\ ticket[t].status # "none"
  BY <1>1, Locked DEF Inv
<1>4. /\ JobsTypeOK' /\ LocksInv' /\ step'[r] = "idle"
      /\ \A q \in Requests \ {r} : step'[q] = step[q] /\ input'[q] = input[q]
                                   /\ seen'[q] = seen[q]
  BY <1>1, <1>2, Overs DEF Inv
<1>5. InputInv'
  BY <1>4, InputKept DEF Inv
<1>6. MediaTypeOK' /\ MediaInv'
  BY MediaStutters DEF Inv, TypeOK
<1> QED BY <1>2, <1>3, <1>4, <1>5, <1>6

\* A ticket whose dates follow its status among tickets that do.
LEMMA Dates ==
  ASSUME DatesFollowStatus, FreshInv, NEW t \in Tickets, ticket'[t].status # "none",
         \A v \in Tickets \ {t} : ticket'[v] = ticket[v],
         /\ ticket'[t].resolvedAt = (ticket'[t].status = "resolved")
         /\ ticket'[t].closedAt = (ticket'[t].status = "closed")
  PROVE  DatesFollowStatus' /\ FreshInv'
BY DEF DatesFollowStatus, FreshInv

\* Counters and messages that stay as they are.
LEMMA UnreadsSame ==
  ASSUME Inv, UNCHANGED <<asset, stored, message, unread>>,
         \A v \in Tickets : ticket'[v].count = ticket[v].count
  PROVE  UnreadInv' /\ FilesInv'
<1>1. UnreadInv'
  BY DEF Inv, UnreadInv, UnreadIsCounted
<1>2. FilesInv'
  BY DEF Inv, FilesInv
<1> QED BY <1>1, <1>2

LEMMA CommitInv ==
  ASSUME TypeOK, Inv, NEW r \in Requests, NEW t \in Tickets,
         AddMessage(r, t) \/ MarkRead(r, t) \/ Claim(r, t) \/ ChangeStatus(r, t)
  PROVE  TypeOK' /\ Inv'
<1>0. seen[r] \in Ticket /\ ticket[t] \in Ticket
  BY DEF TypeOK
<1>1. CASE AddMessage(r, t)
  <2>1. PICK u \in input[r].user, m \in First(NewMessages) :
          Save(r, t, Messaged(seen[r], u)) /\ Insert(m, t, u, input[r].files)
    BY <1>1 DEF AddMessage
  <2>2. /\ step[r] = "message" /\ Over(r) /\ UNCHANGED mediaVars /\ input[r].ticket = {t}
    BY <1>1, <2>1 DEF AddMessage, Save
  <2>3. u \in Users /\ input[r].files \in SUBSET Assets
    BY DEF TypeOK, Input
  <2>4. Messaged(seen[r], u) \in Ticket
    BY <1>0, <2>3, TicketType
  <2>5. /\ seen[r] = ticket[t] /\ ticket[t].status # "none"
        /\ ticket'[t] = Messaged(ticket[t], u)
        /\ \A v \in Tickets \ {t} : ticket'[v] = ticket[v]
        /\ ticket' \in [Tickets -> Ticket]
        /\ MediaTypeOK' /\ MediaInv' /\ JobsTypeOK' /\ LocksInv' /\ InputInv'
    BY <2>1, <2>2, <2>4, Commits
  <2>6. LetIn("message", input[r], ticket[t])
    BY <2>2, <2>5 DEF Inv, InputInv
  <2>7. input[r].user = {u}
    BY <2>6 DEF LetIn
  <2>8. /\ \A a \in input[r].files : /\ asset[a].by # {} /\ asset[a].by = {u}
                                     /\ asset[a].target = {t} /\ a \in stored
        /\ ticket[t].status \notin Ended
    BY <2>2, <2>6, <2>7 DEF LetIn
  <2>9. /\ ticket'[t].count = [ticket[t].count EXCEPT ![Other(SideOf(u))] = @ + 1]
        /\ ticket'[t].resolvedAt = ticket[t].resolvedAt
        /\ ticket'[t].closedAt = ticket[t].closedAt
        /\ ticket'[t].status \notin Ended /\ ticket'[t].status # "none"
    BY <1>0, <2>5, <2>8 DEF Messaged, Ticket, Ended
  <2>10. /\ UnreadInv' /\ FilesInv' /\ message' \in [Messages -> Message]
         /\ unread' \in [Tickets -> [Sides -> SUBSET Messages]]
    <3>1. \A v \in Tickets \ {t} : ticket'[v].count = ticket[v].count
      BY <2>5
    <3>2. UnreadInv /\ FilesInv
      BY DEF Inv
    <3>3. ticket'[t].count = [ticket[t].count EXCEPT ![Other(SideOf(u))] = @ + 1]
      BY <2>9
    <3>4. /\ Insert(m, t, u, input[r].files) /\ UNCHANGED mediaVars
          /\ u \in Users /\ input[r].files \in SUBSET Assets
      BY <2>1, <2>2, <2>3
    <3>5. \A a \in input[r].files : /\ asset[a].by # {} /\ asset[a].by = {u}
                                    /\ asset[a].target = {t} /\ a \in stored
      BY <2>8
    <3> HIDE DEF First, NewMessages
    <3> QED BY ONLY TypeOK, <3>1, <3>2, <3>3, <3>4, <3>5, Unreads
  <2>11. DatesFollowStatus' /\ FreshInv'
    BY <2>5, <2>8, <2>9, Dates DEF Inv, DatesFollowStatus, Ended
  <2>12. TypeOK'
    BY <2>5, <2>10, TypeParts DEF TicketsTypeOK
  <2> QED BY <2>5, <2>10, <2>11, <2>12 DEF Inv
<1>2. CASE MarkRead(r, t)
  <2>1. PICK u \in input[r].user :
          /\ Save(r, t, [seen[r] EXCEPT !.count[SideOf(u)] = 0])
          /\ unread' = [unread EXCEPT ![t][SideOf(u)] = {}]
    BY <1>2 DEF MarkRead
  <2>2. step[r] = "read" /\ Over(r) /\ UNCHANGED <<asset, stored, message>> /\ UNCHANGED mediaVars
    BY <1>2 DEF MarkRead, mediaVars
  <2>3. SideOf(u) \in Sides
    BY DEF SideOf, Sides
  <2>4. [seen[r] EXCEPT !.count[SideOf(u)] = 0] \in Ticket
    BY <1>0, <2>3, TicketType
  <2>5. /\ seen[r] = ticket[t] /\ ticket[t].status # "none"
        /\ ticket'[t] = [ticket[t] EXCEPT !.count[SideOf(u)] = 0]
        /\ \A v \in Tickets \ {t} : ticket'[v] = ticket[v]
        /\ ticket' \in [Tickets -> Ticket]
        /\ MediaTypeOK' /\ MediaInv' /\ JobsTypeOK' /\ LocksInv' /\ InputInv'
    BY <2>1, <2>2, <2>4, Commits
  <2>6. /\ ticket'[t].count[SideOf(u)] = 0
        /\ \A s \in Sides \ {SideOf(u)} : ticket'[t].count[s] = ticket[t].count[s]
        /\ ticket'[t].resolvedAt = ticket[t].resolvedAt
        /\ ticket'[t].closedAt = ticket[t].closedAt /\ ticket'[t].status = ticket[t].status
    BY <1>0, <2>3, <2>5 DEF Ticket
  <2>7. /\ unread' \in [Tickets -> [Sides -> SUBSET Messages]]
        /\ unread'[t][SideOf(u)] = {}
        /\ \A v \in Tickets, s \in Sides :
             v # t \/ s # SideOf(u) => unread'[v][s] = unread[v][s]
    BY <2>1, <2>3 DEF TypeOK
  <2>8. UnreadInv'
    <3>1. ASSUME NEW v \in Tickets, NEW s \in Sides
          PROVE  /\ ticket'[v].count[s] = Cardinality(unread'[v][s])
                 /\ \A m \in unread'[v][s] : message[m].ticket = {v}
      <4>1. CASE v = t /\ s = SideOf(u)
        BY <2>6, <2>7, <4>1, FS_EmptySet
      <4>2. CASE v # t \/ s # SideOf(u)
        <5>1. unread'[v][s] = unread[v][s] /\ ticket'[v].count[s] = ticket[v].count[s]
          BY <2>5, <2>6, <2>7, <4>2
        <5> QED BY <5>1 DEF Inv, UnreadInv, UnreadIsCounted
      <4> QED BY <4>1, <4>2
    <3> QED BY <2>2, <3>1 DEF UnreadInv, UnreadIsCounted
  <2>9. DatesFollowStatus' /\ FreshInv'
    <3>1. /\ ticket[t].resolvedAt = (ticket[t].status = "resolved")
          /\ ticket[t].closedAt = (ticket[t].status = "closed")
      BY DEF Inv, DatesFollowStatus
    <3>2. /\ ticket'[t].resolvedAt = (ticket'[t].status = "resolved")
          /\ ticket'[t].closedAt = (ticket'[t].status = "closed")
          /\ ticket'[t].status # "none"
      BY <2>5, <2>6, <3>1
    <3> QED BY <2>5, <3>2, Dates DEF Inv
  <2>10. FilesInv'
    BY <2>2 DEF Inv, FilesInv
  <2>11. TypeOK'
    BY <2>2, <2>5, <2>7, TypeParts DEF TicketsTypeOK, TypeOK
  <2> QED BY <2>5, <2>8, <2>9, <2>10, <2>11 DEF Inv
<1>3. CASE Claim(r, t)
  <2>1. /\ step[r] = "claim" /\ Over(r)
        /\ UNCHANGED <<asset, stored, message, unread>> /\ UNCHANGED mediaVars
        /\ Save(r, t, [seen[r] EXCEPT !.assigned = input[r].user, !.status = "in_progress"])
    BY <1>3 DEF Claim, mediaVars
  <2>2. LetIn("claim", input[r], seen[r])
    BY <2>1 DEF Inv, InputInv
  <2>3. [seen[r] EXCEPT !.assigned = input[r].user, !.status = "in_progress"] \in Ticket
    BY <1>0, <2>2, TicketType DEF LetIn
  <2>4. /\ seen[r] = ticket[t]
        /\ ticket'[t] = [ticket[t] EXCEPT !.assigned = input[r].user, !.status = "in_progress"]
        /\ \A v \in Tickets \ {t} : ticket'[v] = ticket[v]
        /\ ticket' \in [Tickets -> Ticket]
        /\ MediaTypeOK' /\ MediaInv' /\ JobsTypeOK' /\ LocksInv' /\ InputInv'
    <3>1. /\ seen[r] = ticket[t]
          /\ ticket'[t] = [seen[r] EXCEPT !.assigned = input[r].user, !.status = "in_progress"]
          /\ \A v \in Tickets \ {t} : ticket'[v] = ticket[v]
          /\ ticket' \in [Tickets -> Ticket]
          /\ MediaTypeOK' /\ MediaInv' /\ JobsTypeOK' /\ LocksInv' /\ InputInv'
      BY <2>1, <2>3, Commits
    <3> QED BY <3>1
  <2>5. /\ ticket'[t].count = ticket[t].count /\ ticket'[t].resolvedAt = ticket[t].resolvedAt
        /\ ticket'[t].closedAt = ticket[t].closedAt /\ ticket'[t].status = "in_progress"
    BY <1>0, <2>4 DEF Ticket
  <2>6. UnreadInv' /\ FilesInv'
    <3>1. \A v \in Tickets : ticket'[v].count = ticket[v].count
      BY <2>4, <2>5
    <3> QED BY <2>1, <3>1, UnreadsSame
  <2>7. DatesFollowStatus' /\ FreshInv'
    BY <2>2, <2>4, <2>5, Dates DEF Inv, DatesFollowStatus, LetIn, Ended
  <2>8. TypeOK'
    BY <2>1, <2>4, TypeParts DEF TicketsTypeOK, TypeOK
  <2> QED BY <2>4, <2>6, <2>7, <2>8 DEF Inv
<1>4. CASE ChangeStatus(r, t)
  <2> DEFINE to == input[r].status
             k == [seen[r] EXCEPT !.status = to, !.resolvedAt = (to = "resolved"),
                                  !.closedAt = (to = "closed")]
  <2>1. /\ step[r] = "status" /\ Over(r)
        /\ UNCHANGED <<asset, stored, message, unread>> /\ UNCHANGED mediaVars
        /\ Save(r, t, k)
    BY <1>4 DEF ChangeStatus, mediaVars
  <2>2. to \in TicketStatuses /\ to # "none"
    BY <1>4 DEF TypeOK, Input, Inv, InputInv, LetIn, ChangeStatus
  <2>3. k \in Ticket
    BY <1>0, <2>2, TicketType
  <2>4. /\ seen[r] = ticket[t] /\ ticket'[t] = k
        /\ \A v \in Tickets \ {t} : ticket'[v] = ticket[v]
        /\ ticket' \in [Tickets -> Ticket]
        /\ MediaTypeOK' /\ MediaInv' /\ JobsTypeOK' /\ LocksInv' /\ InputInv'
    BY <2>1, <2>3, Commits
  <2>5. /\ ticket'[t].count = ticket[t].count /\ ticket'[t].status = to
        /\ ticket'[t].resolvedAt = (to = "resolved") /\ ticket'[t].closedAt = (to = "closed")
    BY <1>0, <2>4 DEF Ticket
  <2>6. UnreadInv' /\ FilesInv'
    <3>1. \A v \in Tickets : ticket'[v].count = ticket[v].count
      BY <2>4, <2>5
    <3> QED BY <2>1, <3>1, UnreadsSame
  <2>7. DatesFollowStatus' /\ FreshInv'
    BY <2>2, <2>4, <2>5, Dates DEF Inv
  <2>8. TypeOK'
    BY <2>1, <2>4, TypeParts DEF TicketsTypeOK, TypeOK
  <2> QED BY <2>4, <2>6, <2>7, <2>8 DEF Inv
<1> QED BY <1>1, <1>2, <1>3, <1>4

LEMMA CreateInv ==
  ASSUME TypeOK, Inv, NEW c \in Customers, NEW t \in Tickets, Create(c, t)
  PROVE  TypeOK' /\ Inv'
<1> DEFINE k == [NoTicket EXCEPT !.customer = {c}, !.status = "open", !.count["staff"] = 1]
<1>1. /\ ticket[t].status = "none" /\ ticket' = [ticket EXCEPT ![t] = k]
      /\ UNCHANGED jobVars /\ UNCHANGED mediaVars /\ UNCHANGED <<asset, stored>>
  BY DEF Create, mediaVars
<1>2. PICK m \in First(NewMessages) : Insert(m, t, c, {})
  BY DEF Create
<1>3. /\ k \in Ticket /\ k.status = "open" /\ ~k.resolvedAt /\ ~k.closedAt
      /\ k.count = [[s \in Sides |-> 0] EXCEPT !["staff"] = 1]
  BY DEF NoTicket, Ticket, TicketStatuses, Sides
<1>4. /\ ticket'[t] = k /\ \A v \in Tickets \ {t} : ticket'[v] = ticket[v]
      /\ ticket' \in [Tickets -> Ticket]
  BY <1>1, <1>3 DEF TypeOK
<1>5. c \in Users /\ Other(SideOf(c)) = "staff"
  BY SupportAssumption DEF Other, SideOf
<1>6. ticket'[t].count = [ticket[t].count EXCEPT ![Other(SideOf(c))] = @ + 1]
  <2>1. ticket[t].count = [s \in Sides |-> 0]
    BY <1>1 DEF Inv, FreshInv
  <2> QED BY <1>3, <1>4, <1>5, <2>1 DEF Sides
<1>7. /\ UnreadInv' /\ FilesInv' /\ message' \in [Messages -> Message]
      /\ unread' \in [Tickets -> [Sides -> SUBSET Messages]]
  <2>1. \A v \in Tickets \ {t} : ticket'[v].count = ticket[v].count
    BY <1>4
  <2>2. UnreadInv /\ FilesInv
    BY DEF Inv
  <2>3. PICK files \in SUBSET Assets :
          /\ Insert(m, t, c, files)
          /\ \A a \in files : /\ asset[a].by # {} /\ asset[a].by = {c}
                               /\ asset[a].target = {t} /\ a \in stored
    BY <1>2
  <2>4. UNCHANGED mediaVars
    BY <1>1
  <2> QED BY ONLY TypeOK, <1>2, <1>5, <1>6, <2>1, <2>2, <2>3, <2>4, Unreads
<1>8. TypeOK' /\ MediaInv'
  <2>1. MediaTypeOK' /\ MediaInv'
    BY <1>1, MediaStutters DEF Inv, TypeOK
  <2>2. JobsTypeOK'
    BY <1>1 DEF JobsTypeOK, TypeOK, jobVars
  <2> QED BY <1>4, <1>7, <2>1, <2>2, TypeParts DEF TicketsTypeOK
<1>9. DatesFollowStatus' /\ FreshInv'
  <2>1. /\ ticket'[t].resolvedAt = (ticket'[t].status = "resolved")
        /\ ticket'[t].closedAt = (ticket'[t].status = "closed")
        /\ ticket'[t].status # "none"
    BY <1>4 DEF NoTicket
  <2> QED BY <1>4, <2>1, Dates DEF Inv
<1>10. LocksInv' /\ InputInv'
  <2>1. UNCHANGED <<step, input, seen>>
    BY <1>1 DEF jobVars
  <2>2. LocksInv'
    <3>1. ASSUME NEW r \in Requests, step[r] # "idle"
          PROVE  \E v \in Tickets :
                   /\ input[r].ticket = {v} /\ ticket'[v].status # "none" /\ seen[r] = ticket'[v]
                   /\ \A q \in Requests : step[q] # "idle" /\ input[q].ticket = {v} => q = r
      BY <1>1, <1>4, <3>1 DEF Inv, LocksInv
    <3> QED BY <2>1, <3>1 DEF LocksInv
  <2>3. InputInv'
    BY <1>1, <2>1 DEF Inv, InputInv, LetIn
  <2> QED BY <2>2, <2>3
<1> QED BY <1>7, <1>8, <1>9, <1>10 DEF Inv

LEMMA StepInv == TypeOK /\ Inv /\ [Next]_vars => TypeOK' /\ Inv'
<1> SUFFICES ASSUME TypeOK, Inv, [Next]_vars PROVE TypeOK' /\ Inv'
  OBVIOUS
<1>1. ASSUME NEW r \in Requests, Fail(r) PROVE TypeOK' /\ Inv'
  <2>1. /\ step[r] # "idle" /\ Over(r) /\ UNCHANGED <<asset, stored, ticket, message, unread>>
        /\ UNCHANGED mediaVars
    BY <1>1 DEF Fail, mediaVars, supportVars
  <2>2. PICK t \in Tickets : input[r].ticket = {t}
    BY <2>1 DEF Inv, LocksInv
  <2>3. /\ JobsTypeOK' /\ LocksInv' /\ step'[r] = "idle"
        /\ \A q \in Requests \ {r} : step'[q] = step[q] /\ input'[q] = input[q]
                                     /\ seen'[q] = seen[q]
    BY <2>1, <2>2, Overs DEF Inv
  <2>4. InputInv'
    BY <2>1, <2>3, InputKept DEF Inv
  <2>5. MediaTypeOK' /\ MediaInv'
    BY <2>1, MediaStutters DEF Inv, TypeOK
  <2>6. TypeOK'
    BY <2>1, <2>3, <2>5, TypeParts DEF TicketsTypeOK, TypeOK
  <2>7. UnreadInv' /\ FilesInv' /\ DatesFollowStatus' /\ FreshInv'
    BY <2>1, UnreadsSame DEF Inv, DatesFollowStatus, FreshInv
  <2> QED BY <2>3, <2>4, <2>5, <2>6, <2>7 DEF Inv
<1>2. ASSUME NEW r \in Requests, Commit(r) PROVE TypeOK' /\ Inv'
  BY <1>2, CommitInv DEF Commit
<1>3. ASSUME FileStep, UNCHANGED <<supportVars, jobVars>> PROVE TypeOK' /\ Inv'
  BY <1>3, FileSteps, FilesStep DEF Inv, TypeOK
<1>4. CASE UNCHANGED vars
  <2>1. UNCHANGED mediaVars /\ UNCHANGED <<supportVars, jobVars>>
    BY <1>4 DEF vars
  <2> QED BY <2>1, MediaStutters, FilesStep DEF Inv, TypeOK
<1>5. ASSUME NEW r \in Requests, Arrive(r) PROVE TypeOK' /\ Inv'
  BY <1>5, ArriveInv
<1>6. ASSUME NEW c \in Customers, NEW t \in Tickets, Create(c, t) PROVE TypeOK' /\ Inv'
  BY <1>6, CreateInv
<1>7. CASE SendFile
  <2>1. FileStep /\ UNCHANGED <<supportVars, jobVars>>
    BY <1>7 DEF SendFile, FileStep
  <2> QED BY <2>1, <1>3
<1>10. ASSUME MediaNext, UNCHANGED supportVars, UNCHANGED jobVars PROVE TypeOK' /\ Inv'
  BY <1>3, <1>10 DEF FileStep
<1>8. CASE \E r \in Requests : Arrive(r) \/ Commit(r) \/ Fail(r)
  BY <1>1, <1>2, <1>5, <1>8
<1>9. CASE \E c \in Customers, t \in Tickets : Create(c, t)
  BY <1>6, <1>9
<1> QED BY <1>4, <1>7, <1>8, <1>9, <1>10 DEF Next

LEMMA InvCorrect == Spec => [](TypeOK /\ Inv)
<1> QED BY InitInv, StepInv, PTL DEF Spec

-----------------------------------------------------------------------------
(* The theorems.                                                            *)

\* Every variable keeps its type in every reachable state.
THEOREM SupportTypeCorrect == Spec => []TypeOK
<1> QED BY InvCorrect, PTL

\* The counters are the numbers of messages there are to read.
THEOREM UnreadCorrect == Spec => []UnreadIsCounted
<1>1. Inv => UnreadIsCounted
  BY DEF Inv, UnreadInv
<1> QED BY <1>1, InvCorrect, PTL

\* The dates of a ticket say what its status says.
THEOREM DatesCorrect == Spec => []DatesFollowStatus
<1>1. Inv => DatesFollowStatus
  BY DEF Inv
<1> QED BY <1>1, InvCorrect, PTL

\* A file in a message was uploaded for it by its author and has been stored.
THEOREM FilesCorrect == Spec => []FilesBelong
<1>1. Inv => FilesBelong
  BY DEF Inv, FilesInv, FilesBelong
<1> QED BY <1>1, InvCorrect, PTL

\* An active asset has been stored as announced.
THEOREM StoredCorrect == Spec => []ActiveWasStored
<1>1. Inv => ActiveWasStored
  BY DEF Inv, MediaInv
<1> QED BY <1>1, InvCorrect, PTL

\* What no step may do to ticket t.
Respects(t) ==
  /\ ticket[t].assigned # {} => ticket'[t].assigned = ticket[t].assigned
  /\ ticket[t].status \in Ended =>
       \A n \in Messages : message'[n].ticket = {t} => message[n].ticket = {t}

\* A commit knows the row as it is, and was let in with its status and claim.
LEMMA CommitRespects ==
  ASSUME TypeOK, Inv, NEW r \in Requests, NEW v \in Tickets, NEW t \in Tickets,
         AddMessage(r, v) \/ MarkRead(r, v) \/ Claim(r, v) \/ ChangeStatus(r, v)
  PROVE  Respects(t)
<1>1. step[r] # "idle" /\ input[r].ticket = {v}
  BY DEF AddMessage, MarkRead, Claim, ChangeStatus, Save
<1>2. seen[r] = ticket[v] /\ ticket[v] \in Ticket
  BY <1>1, Locked DEF Inv, TypeOK
<1>3. LetIn(step[r], input[r], ticket[v])
  BY <1>2 DEF Inv, InputInv
<1>4. CASE AddMessage(r, v)
  <2>1. PICK u \in input[r].user, m \in First(NewMessages) :
          Save(r, v, Messaged(ticket[v], u)) /\ Insert(m, v, u, input[r].files)
    BY <1>2, <1>4 DEF AddMessage
  <2>2. ticket' = [ticket EXCEPT ![v] = Messaged(ticket[v], u)] /\ m \in Messages
        /\ message' = [message EXCEPT ![m] = [ticket |-> {v}, author |-> {u},
                                              files |-> input[r].files]]
    BY <2>1 DEF Save, Insert, First, NewMessages
  <2>3. Messaged(ticket[v], u).assigned = ticket[v].assigned
    BY <1>2 DEF Messaged, Ticket
  <2>4. ticket'[t].assigned = ticket[t].assigned
    BY <2>2, <2>3 DEF TypeOK
  <2>5. ticket[v].status \notin Ended
    BY <1>3, <1>4 DEF AddMessage, LetIn
  <2>6. v # t => \A n \in Messages : message'[n].ticket = {t} => message[n].ticket = {t}
    BY <2>2 DEF TypeOK
  <2> QED BY <2>4, <2>5, <2>6 DEF Respects
<1>5. CASE MarkRead(r, v)
  <2>1. PICK u \in input[r].user :
          ticket' = [ticket EXCEPT ![v] = [ticket[v] EXCEPT !.count[SideOf(u)] = 0]]
    BY <1>2, <1>5 DEF MarkRead, Save
  <2> QED BY <1>2, <1>5, <2>1 DEF MarkRead, Respects, TypeOK, Ticket
<1>6. CASE ChangeStatus(r, v)
  <2>1. ticket' = [ticket EXCEPT ![v] =
                     [ticket[v] EXCEPT !.status = input[r].status,
                                       !.resolvedAt = (input[r].status = "resolved"),
                                       !.closedAt = (input[r].status = "closed")]]
    BY <1>2, <1>6 DEF ChangeStatus, Save
  <2> QED BY <1>2, <1>6, <2>1 DEF ChangeStatus, Respects, TypeOK, Ticket
<1>7. CASE Claim(r, v)
  <2>1. ticket' = [ticket EXCEPT ![v] = [ticket[v] EXCEPT !.assigned = input[r].user,
                                                          !.status = "in_progress"]]
    BY <1>2, <1>7 DEF Claim, Save
  <2>2. PICK g \in Staff : input[r].user = {g} /\ ticket[v].assigned \subseteq {g}
    BY <1>3, <1>7 DEF Claim, LetIn
  <2>3. UNCHANGED message
    BY <1>7 DEF Claim
  <2>4. ASSUME v = t, ticket[t].assigned # {} PROVE ticket'[t].assigned = ticket[t].assigned
    <3>1. ticket'[t].assigned = {g}
      BY <1>2, <2>1, <2>2, <2>4 DEF TypeOK, Ticket
    <3> QED BY <2>2, <2>4, <3>1
  <2>5. v # t => ticket'[t] = ticket[t]
    BY <2>1 DEF TypeOK
  <2> QED BY <2>3, <2>4, <2>5 DEF Respects
<1> QED BY <1>4, <1>5, <1>6, <1>7

LEMMA StepRespects ==
  ASSUME TypeOK, Inv, [Next]_vars, NEW t \in Tickets PROVE Respects(t)
<1>1. CASE UNCHANGED supportVars
  BY <1>1 DEF supportVars, Respects
<1>2. ASSUME NEW c \in Customers, NEW v \in Tickets, Create(c, v) PROVE Respects(t)
  <2>1. PICK m \in First(NewMessages) :
          message' = [message EXCEPT ![m] = [ticket |-> {v}, author |-> {c}, files |-> {}]]
    BY <1>2 DEF Create, Insert
  <2>2. ticket[v].status = "none" /\ \A w \in Tickets \ {v} : ticket'[w] = ticket[w]
    BY <1>2 DEF Create, TypeOK
  <2>3. CASE v = t
    BY <2>2, <2>3 DEF Respects, Inv, FreshInv, Ended
  <2>4. CASE v # t
    BY <2>1, <2>2, <2>4 DEF Respects, First, NewMessages, TypeOK
  <2> QED BY <2>3, <2>4
<1>3. ASSUME NEW r \in Requests, Arrive(r) \/ Fail(r) PROVE UNCHANGED supportVars
  BY <1>3 DEF Arrive, Fail, BeginRead, BeginMessage, BeginClaim, BeginStatus, Begin
<1>4. CASE SendFile \/ UNCHANGED vars
  BY <1>1, <1>4 DEF SendFile, vars
<1>5. CASE \E r \in Requests : Arrive(r) \/ Commit(r) \/ Fail(r)
  BY <1>1, <1>3, <1>5, CommitRespects DEF Commit
<1>6. CASE \E c \in Customers, v \in Tickets : Create(c, v)
  BY <1>2, <1>6
<1> QED BY <1>1, <1>4, <1>5, <1>6 DEF Next

\* Whoever has claimed a ticket keeps it.
THEOREM ClaimedOnceCorrect == Spec => ClaimedOnce
<1>1. TypeOK /\ Inv /\ [Next]_vars =>
        [\A t \in Tickets : ticket[t].assigned # {} =>
           ticket'[t].assigned = ticket[t].assigned]_vars
  BY StepRespects DEF Respects
<1> QED BY <1>1, InvCorrect, PTL DEF Spec, ClaimedOnce

\* Nobody writes on a ticket that has been resolved or closed.
THEOREM EndedIsSilentCorrect == Spec => EndedIsSilent
<1>1. TypeOK /\ Inv /\ [Next]_vars =>
        [\A t \in Tickets : ticket[t].status \in Ended =>
           \A m \in Messages : message'[m].ticket = {t} => message[m].ticket = {t}]_vars
  BY StepRespects DEF Respects
<1> QED BY <1>1, InvCorrect, PTL DEF Spec, EndedIsSilent
=============================================================================
