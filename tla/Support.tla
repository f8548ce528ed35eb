------------------------------ MODULE Support ------------------------------
(***************************************************************************)
(* SupportService: tickets between a customer and the staff, and, with     *)
(* MediaService, the files attached to their messages.                     *)
(*                                                                         *)
(* A handler runs in a transaction that reads the ticket FOR UPDATE and    *)
(* saves it at the end, two steps: what it writes is computed from what it *)
(* read.  Subjects, bodies and priorities are left out.                    *)
(***************************************************************************)
EXTENDS Media

CONSTANTS Requests,    \* requests the API handles at a time
          Customers,
          Agents,      \* users with the role support
          Admins,      \* users with the role admin
          MaxMessages  \* bound: messages that ever exist

Staff == Agents \cup Admins
ASSUME SupportAssumption ==
  /\ Users = Customers \cup Staff /\ Customers \cap Staff = {}
  /\ MaxMessages \in Nat

Messages == 1 .. MaxMessages
Sides == {"staff", "customer"}
SideOf(u) == IF u \in Staff THEN "staff" ELSE "customer"
Other(side) == IF side = "staff" THEN "customer" ELSE "staff"

VARIABLES
  ticket,   \* support_tickets
  message,  \* support_messages with its attachments
  unread,   \* history: the messages of the other side nobody has marked read
  step,     \* what each request does at the end of its transaction
  input,    \* who sent it about which ticket, and the assets or status given
  seen      \* the row it has read and locked

supportVars == <<ticket, message, unread>>
jobVars == <<step, input, seen>>
vars == <<mediaVars, supportVars, jobVars>>

TicketStatuses == {"none", "open", "in_progress", "waiting_customer", "resolved", "closed"}
Ended == {"resolved", "closed"}
Ticket == [customer : SUBSET Customers, assigned : SUBSET Staff, status : TicketStatuses,
           resolvedAt : BOOLEAN, closedAt : BOOLEAN, count : [Sides -> Nat]]
Message == [ticket : SUBSET Tickets, author : SUBSET Users, files : SUBSET Assets]
Input == [user : SUBSET Users, ticket : SUBSET Tickets, files : SUBSET Assets,
          status : TicketStatuses]
NoTicket == [customer |-> {}, assigned |-> {}, status |-> "none", resolvedAt |-> FALSE,
             closedAt |-> FALSE, count |-> [s \in Sides |-> 0]]
NoInput == [user |-> {}, ticket |-> {}, files |-> {}, status |-> "none"]

TypeOK ==
  /\ MediaTypeOK
  /\ ticket \in [Tickets -> Ticket]
  /\ message \in [Messages -> Message]
  /\ unread \in [Tickets -> [Sides -> SUBSET Messages]]
  /\ step \in [Requests -> {"idle", "message", "read", "claim", "status"}]
  /\ input \in [Requests -> Input]
  /\ seen \in [Requests -> Ticket]

Init ==
  /\ MediaInit
  /\ ticket = [t \in Tickets |-> NoTicket]
  /\ message = [m \in Messages |-> [ticket |-> {}, author |-> {}, files |-> {}]]
  /\ unread = [t \in Tickets |-> [s \in Sides |-> {}]]
  /\ step = [r \in Requests |-> "idle"]
  /\ input = [r \in Requests |-> NoInput]
  /\ seen = [r \in Requests |-> NoTicket]
-----------------------------------------------------------------------------
First(S) == {x \in S : \A y \in S : x <= y}
NewMessages == {m \in Messages : message[m].ticket = {}}

\* A member of support writes only on tickets assigned to him.
CanAccess(u, k, writing) ==
  \/ u \in Customers /\ k.customer = {u}
  \/ u \in Admins
  \/ u \in Agents /\ (writing => k.assigned = {u})

\* A fault: the row is read without a lock.
HeldNever(t) == FALSE
\* Another transaction has the ticket FOR UPDATE.
Held(t) == \E r \in Requests : step[r] # "idle" /\ input[r].ticket = {t}

\* findOne with a pessimistic lock; what the handler refuses changes nothing.
Begin(r, s, i, t) ==
  /\ step[r] = "idle" /\ i.ticket = {t} /\ ticket[t].status # "none" /\ ~Held(t)
  /\ step' = [step EXCEPT ![r] = s]
  /\ input' = [input EXCEPT ![r] = i]
  /\ seen' = [seen EXCEPT ![r] = ticket[t]]
  /\ UNCHANGED <<mediaVars, supportVars>>
Over(r) ==
  /\ step' = [step EXCEPT ![r] = "idle"]
  /\ input' = [input EXCEPT ![r] = NoInput]
  /\ seen' = [seen EXCEPT ![r] = NoTicket]
\* The commit saves the row with one change to what was read.
Save(r, t, k) == input[r].ticket = {t} /\ ticket' = [ticket EXCEPT ![t] = k]

\* A message becomes part of a ticket and unread for the other side.
Insert(m, t, u, files) ==
  /\ message' = [message EXCEPT ![m] = [ticket |-> {t}, author |-> {u}, files |-> files]]
  /\ unread' = [unread EXCEPT ![t][Other(SideOf(u))] = @ \cup {m}]
-----------------------------------------------------------------------------
\* By a customer; tickets the staff opens for itself are left out.
Create(c, t) ==
  /\ ticket[t].status = "none"
  /\ ticket' = [ticket EXCEPT ![t] = [NoTicket EXCEPT
       !.customer = {c}, !.status = "open", !.count["staff"] = 1]]
  /\ \E m \in First(NewMessages) : Insert(m, t, c, {})
  /\ UNCHANGED <<mediaVars, jobVars>>

\* A fault: who uploaded the file for what is not looked at.
AttachableActive(u, t, a) == asset[a].status = "active"
\* validateAttachments, of assets it reads without locking them.
Attachable(u, t, a) == asset[a].status = "active" /\ asset[a].target = {t} /\ asset[a].by = {u}

BeginMessage(r, u, t, files) ==
  /\ CanAccess(u, ticket[t], TRUE) /\ ticket[t].status \notin Ended
  /\ \A a \in files : Attachable(u, t, a)
  /\ Begin(r, "message", [NoInput EXCEPT !.user = {u}, !.ticket = {t}, !.files = files], t)

\* What a message of u makes of the ticket.
Messaged(k, u) ==
  [k EXCEPT !.count[Other(SideOf(u))] = @ + 1,
            !.status = IF u \in Staff THEN "waiting_customer"
                       ELSE IF k.assigned # {} THEN "in_progress" ELSE @]
AddMessage(r, t) ==
  /\ step[r] = "message"
  /\ \E u \in input[r].user, m \in First(NewMessages) :
       Save(r, t, Messaged(seen[r], u)) /\ Insert(m, t, u, input[r].files)
  /\ Over(r)
  /\ UNCHANGED mediaVars

BeginRead(r, u, t) ==
  /\ CanAccess(u, ticket[t], FALSE)
  /\ Begin(r, "read", [NoInput EXCEPT !.user = {u}, !.ticket = {t}], t)

MarkRead(r, t) ==
  /\ step[r] = "read"
  /\ \E u \in input[r].user :
       /\ Save(r, t, [seen[r] EXCEPT !.count[SideOf(u)] = 0])
       /\ unread' = [unread EXCEPT ![t][SideOf(u)] = {}]
  /\ Over(r)
  /\ UNCHANGED <<mediaVars, message>>

BeginClaim(r, g, t) ==
  /\ ticket[t].assigned \subseteq {g} /\ ticket[t].status \notin Ended
  /\ Begin(r, "claim", [NoInput EXCEPT !.user = {g}, !.ticket = {t}], t)

Claim(r, t) ==
  /\ step[r] = "claim"
  /\ Save(r, t, [seen[r] EXCEPT !.assigned = input[r].user, !.status = "in_progress"])
  /\ Over(r)
  /\ UNCHANGED <<mediaVars, message, unread>>

BeginStatus(r, g, t, s) ==
  /\ CanAccess(g, ticket[t], TRUE)
  /\ Begin(r, "status", [NoInput EXCEPT !.user = {g}, !.ticket = {t}, !.status = s], t)

ChangeStatus(r, t) ==
  /\ step[r] = "status"
  /\ Save(r, t, [seen[r] EXCEPT !.status = input[r].status,
                                !.resolvedAt = (input[r].status = "resolved"),
                                !.closedAt = (input[r].status = "closed")])
  /\ Over(r)
  /\ UNCHANGED <<mediaVars, message, unread>>

\* Rolled back.
Fail(r) == step[r] # "idle" /\ Over(r) /\ UNCHANGED <<mediaVars, supportVars>>

\* assertTargetAccess: the ticket's customer, or the one it is assigned to.
MayUpload(u, t) == ticket[t].customer = {u} \/ ticket[t].assigned = {u}
SendFile ==
  /\ \E a \in Assets, u \in Users, t \in Tickets :
       MayUpload(u, t) /\ (Upload(a, u, t) \/ AuthorizeUpload(a, u, t))
  /\ UNCHANGED <<supportVars, jobVars>>
-----------------------------------------------------------------------------
Arrive(r) ==
  \E t \in Tickets :
    \/ \E u \in Users : \/ BeginRead(r, u, t)
                        \/ \E files \in SUBSET Assets : BeginMessage(r, u, t, files)
    \/ \E g \in Staff : \/ BeginClaim(r, g, t)
                        \/ \E s \in TicketStatuses \ {"none"} : BeginStatus(r, g, t, s)

Commit(r) ==
  \E t \in Tickets : AddMessage(r, t) \/ MarkRead(r, t) \/ Claim(r, t) \/ ChangeStatus(r, t)

Next ==
  \/ \E r \in Requests : Arrive(r) \/ Commit(r) \/ Fail(r)
  \/ \E c \in Customers, t \in Tickets : Create(c, t)
  \/ SendFile
  \/ MediaNext /\ UNCHANGED <<supportVars, jobVars>>

Spec == Init /\ [][Next]_vars
-----------------------------------------------------------------------------
\* The counters on the badges are the messages there are to read, however
\* answers and mark-read cross each other.
UnreadIsCounted ==
  \A t \in Tickets, s \in Sides : ticket[t].count[s] = Cardinality(unread[t][s])

\* Whoever claimed a ticket keeps it.
ClaimedOnce ==
  [][\A t \in Tickets : ticket[t].assigned # {} => ticket'[t].assigned = ticket[t].assigned]_vars

\* Nothing is written on a ticket that has been resolved or closed.
EndedIsSilent ==
  [][\A t \in Tickets : ticket[t].status \in Ended =>
       \A m \in Messages : message'[m].ticket = {t} => message[m].ticket = {t}]_vars

\* The two dates say what the status says, whichever handler moved it.
DatesFollowStatus ==
  \A t \in Tickets : /\ ticket[t].resolvedAt = (ticket[t].status = "resolved")
                     /\ ticket[t].closedAt = (ticket[t].status = "closed")

\* A file in a message was uploaded for that ticket by the message's author,
\* and was stored as it was announced.
FilesBelong ==
  \A m \in Messages : \A a \in message[m].files :
    /\ asset[a].by = message[m].author /\ asset[a].target = message[m].ticket
    /\ a \in stored
=============================================================================
