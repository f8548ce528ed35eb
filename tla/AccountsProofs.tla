--------------------------- MODULE AccountsProofs ---------------------------
(***************************************************************************)
(* Proofs about Accounts, for every number of requests, users, sessions,   *)
(* codes and privacy requests.                                             *)
(***************************************************************************)
EXTENDS Accounts, TLAPS

-----------------------------------------------------------------------------
(* What the steps of a request have in common.                              *)

\* Whatever is at a step of S has been at it, about the same row.
Stay(S) ==
  \A q \in Requests : step'[q] \in S =>
    step'[q] = step[q] /\ row'[q] = row[q] /\ about'[q] = about[q] /\ seen'[q] = seen[q]

JobsTypeOK ==
  /\ step \in [Requests -> Steps]
  /\ about \in [Requests -> SUBSET Users]
  /\ row \in [Requests -> Nat]
  /\ seen \in [Requests -> Account]

LEMMA NoAccountType == NoAccount \in Account
BY DEF NoAccount, Account, Statuses

\* A request that arrives stays typed and is the only one that moves.
LEMMA Enters ==
  ASSUME TypeOK, NEW r \in Requests, NEW s \in Steps, NEW u \in Users, NEW n \in Nat,
         Enter(r, s, u, n)
  PROVE  /\ JobsTypeOK'
         /\ \A S : s \notin S => Stay(S)
         /\ \A S : s \in S => Stay(S \ {s})
         /\ \A q \in Requests : q # r => step'[q] = step[q] /\ row'[q] = row[q]
                                         /\ about'[q] = about[q] /\ seen'[q] = seen[q]
         /\ step[r] = "idle" /\ step'[r] = s /\ about'[r] = {u} /\ row'[r] = n
<1>1. JobsTypeOK'
  <2>1. account[u] \in Account /\ Removed(account[u]) \in Account
    BY DEF TypeOK, Removed, Account, Statuses
  <2> QED BY <2>1, NoAccountType DEF Enter, TypeOK, JobsTypeOK
<1>2. /\ \A q \in Requests : q # r => step'[q] = step[q] /\ row'[q] = row[q]
                                         /\ about'[q] = about[q] /\ seen'[q] = seen[q]
      /\ step[r] = "idle" /\ step'[r] = s /\ about'[r] = {u} /\ row'[r] = n
  BY DEF Enter, TypeOK
<1>3. \A S : s \notin S => Stay(S)
  BY <1>2 DEF Stay
<1>4. \A S : s \in S => Stay(S \ {s})
  BY <1>2 DEF Stay
<1> QED BY <1>1, <1>2, <1>3, <1>4

\* So is one that goes on.
LEMMA Continues ==
  ASSUME TypeOK, NEW r \in Requests, NEW s \in Steps, Continue(r, s)
  PROVE  /\ JobsTypeOK'
         /\ \A S : s \notin S => Stay(S)
         /\ \A q \in Requests : q # r => step'[q] = step[q] /\ row'[q] = row[q]
                                         /\ about'[q] = about[q] /\ seen'[q] = seen[q]
         /\ step'[r] = s /\ about'[r] = about[r] /\ row'[r] = row[r] /\ seen'[r] = seen[r]
<1>1. JobsTypeOK'
  BY DEF Continue, TypeOK, JobsTypeOK
<1>2. /\ \A q \in Requests : q # r => step'[q] = step[q] /\ row'[q] = row[q]
                                         /\ about'[q] = about[q] /\ seen'[q] = seen[q]
      /\ step'[r] = s /\ about'[r] = about[r] /\ row'[r] = row[r] /\ seen'[r] = seen[r]
  BY DEF Continue, TypeOK
<1>3. \A S : s \notin S => Stay(S)
  BY <1>2 DEF Stay
<1> QED BY <1>1, <1>2, <1>3

\* And one that is over.
LEMMA Ends ==
  ASSUME TypeOK, NEW r \in Requests, Over(r)
  PROVE  /\ JobsTypeOK'
         /\ \A S : "idle" \notin S => Stay(S)
         /\ \A q \in Requests : q # r => step'[q] = step[q] /\ row'[q] = row[q]
                                         /\ about'[q] = about[q] /\ seen'[q] = seen[q]
         /\ step'[r] = "idle"
<1>1. JobsTypeOK'
  BY NoAccountType DEF Over, TypeOK, JobsTypeOK, Steps
<1>2. /\ \A q \in Requests : q # r => step'[q] = step[q] /\ row'[q] = row[q]
                                         /\ about'[q] = about[q] /\ seen'[q] = seen[q]
      /\ step'[r] = "idle"
  BY DEF Over, TypeOK
<1>3. \A S : "idle" \notin S => Stay(S)
  BY <1>2 DEF Stay
<1> QED BY <1>1, <1>2, <1>3

\* Requests that nothing happens to stay where they are.
LEMMA Rest ==
  ASSUME TypeOK, UNCHANGED jobVars
  PROVE  JobsTypeOK' /\ \A S : Stay(S)
BY DEF TypeOK, JobsTypeOK, Stay, jobVars

-----------------------------------------------------------------------------
(* Types.                                                                   *)

RowsTypeOK ==
  /\ account \in [Users -> Account]
  /\ holders \in SUBSET Users
  /\ sessions \in [Sessions -> Session]
  /\ codes \in [Codes -> Code]
  /\ privacy \in [Privacy -> PrivacyRequest]

LEMMA TypeParts == RowsTypeOK' /\ JobsTypeOK' => TypeOK'
BY DEF TypeOK, RowsTypeOK, JobsTypeOK

\* The rows a session, a code or a deletion leaves are typed.
LEMMA GoneType ==
  ASSUME TypeOK, NEW u \in Users
  PROVE  Gone(sessions, u) \in [Sessions -> Session] /\ Gone(codes, u) \in [Codes -> Code]
BY DEF Gone, TypeOK, Session, Code

LEMMA CompletedType ==
  ASSUME TypeOK, NEW p \in Nat, Completed(p) PROVE privacy' \in [Privacy -> PrivacyRequest]
<1>1. CASE p \in Privacy
  <2>1. [privacy[p] EXCEPT !.status = "completed", !.fulfilled = @ + 1] \in PrivacyRequest
    <3>1. privacy[p] \in PrivacyRequest /\ privacy[p].fulfilled + 1 \in Nat
      BY <1>1 DEF TypeOK, PrivacyRequest
    <3> QED BY <3>1 DEF PrivacyRequest
  <2> QED BY <1>1, <2>1 DEF Completed, TypeOK
<1>2. CASE p \notin Privacy
  BY <1>2 DEF Completed, TypeOK
<1> QED BY <1>1, <1>2

LEMMA UsedType ==
  ASSUME TypeOK, NEW c \in Nat, Used(c) PROVE codes' \in [Codes -> Code]
<1>1. CASE c \in Codes
  <2>1. [codes[c] EXCEPT !.state = "consumed", !.uses = @ + 1] \in Code
    <3>1. codes[c] \in Code /\ codes[c].uses + 1 \in Nat
      BY <1>1 DEF TypeOK, Code
    <3> QED BY <3>1 DEF Code
  <2> QED BY <1>1, <2>1 DEF Used, TypeOK
<1>2. CASE c \notin Codes
  BY <1>2 DEF Used, TypeOK
<1> QED BY <1>1, <1>2

LEMMA ArriveType ==
  ASSUME TypeOK, NEW r \in Requests, Arrive(r) PROVE TypeOK'
<1> USE DEF TypeOK
<1>1. ASSUME NEW u \in Customers,
             \/ Register(r, u) \/ RequestVerification(r, u) \/ RequestReset(r, u)
             \/ Login(r, u) \/ SocialLogin(r, u) \/ ReadProfile(r, u)
      PROVE  TypeOK'
  <2> u \in Users BY AccountsAssumption
  <2>1. RowsTypeOK'
    <3>1. CASE UNCHANGED rowVars
      BY <3>1 DEF rowVars, RowsTypeOK
    <3>2. /\ [NoAccount EXCEPT !.status = "pending_verification", !.named = TRUE] \in Account
          /\ [NoAccount EXCEPT !.status = "active", !.named = TRUE, !.verified = TRUE]
               \in Account
      BY DEF NoAccount, Account, Statuses
    <3>3. CASE Register(r, u) \/ SocialLogin(r, u)
      BY <3>2, <3>3 DEF Register, SocialLogin, RowsTypeOK
    <3>4. \/ UNCHANGED rowVars \/ Register(r, u) \/ SocialLogin(r, u)
      BY <1>1 DEF RequestVerification, RequestReset, Login, ReadProfile
    <3> QED BY <3>1, <3>3, <3>4
  <2>2. \E s \in Steps : Enter(r, s, u, 0)
    BY <1>1 DEF Register, RequestVerification, RequestReset, Login, SocialLogin, ReadProfile,
                Steps, Writes
  <2> QED BY <2>1, <2>2, Enters, TypeParts
<1>2. ASSUME NEW c \in Codes, PresentCode(r, c) PROVE TypeOK'
  <2>1. c \in Nat /\ "use_code" \in Steps /\ codes[c].owner \subseteq Users
    BY AccountsAssumption DEF Codes, Steps, Code
  <2>2. RowsTypeOK'
    BY <1>2 DEF PresentCode, RowsTypeOK, rowVars
  <2> QED BY <1>2, <2>1, <2>2, Enters, TypeParts DEF PresentCode
<1>3. ASSUME NEW s \in Sessions, ReadSession(r, s) \/ ReadOwnSession(r, s) PROVE TypeOK'
  <2>1. /\ s \in Nat /\ "rotate" \in Steps /\ "save_session" \in Steps
        /\ sessions[s].owner \subseteq Users
    BY AccountsAssumption DEF Sessions, Steps, Writes, Session
  <2>2. RowsTypeOK'
    BY <1>3 DEF ReadSession, ReadOwnSession, RowsTypeOK, rowVars
  <2> QED BY <1>3, <2>1, <2>2, Enters, TypeParts DEF ReadSession, ReadOwnSession
<1>4. ASSUME NEW a \in Users, NEW u \in Customers, CheckUpdate(r, a, u) \/ CheckRemove(r, a, u)
      PROVE  TypeOK'
  <2> u \in Users BY AccountsAssumption
  <2> QED BY <1>4, Enters, TypeParts
          DEF CheckUpdate, CheckRemove, RowsTypeOK, rowVars, Steps, Writes
<1>5. ASSUME NEW p \in Privacy, LockPrivacy(r, p) PROVE TypeOK'
  <2>1. p \in Nat /\ "fulfill" \in Steps /\ privacy[p].owner \subseteq Users
    BY AccountsAssumption DEF Privacy, Steps, PrivacyRequest
  <2>2. RowsTypeOK'
    BY <1>5 DEF LockPrivacy, RowsTypeOK, rowVars
  <2> QED BY <1>5, <2>1, <2>2, Enters, TypeParts DEF LockPrivacy
<1> QED BY <1>1, <1>2, <1>3, <1>4, <1>5
     DEF Arrive, AuthRequests, UsersRequests, CustomersRequests, PrivacyRequests

LEMMA HandleType ==
  ASSUME TypeOK, NEW r \in Requests, Handle(r) PROVE TypeOK'
<1>1. CASE ConsumeCodes(r)
  <2>1. \E s \in Steps : Continue(r, s)
    BY <1>1 DEF ConsumeCodes, Steps, Writes, InsertStep
  <2>2. RowsTypeOK'
    BY <1>1 DEF ConsumeCodes, RowsTypeOK, TypeOK, Code
  <2> QED BY <2>1, <2>2, Continues, TypeParts
<1>2. CASE InsertCode(r)
  BY <1>2, Ends, TypeParts DEF InsertCode, First, NewCodes, RowsTypeOK, TypeOK, Code, CodeTypes
<1>3. CASE SaveSession(r)
  BY <1>3, Ends, TypeParts DEF SaveSession, RowsTypeOK, TypeOK, Session
<1>4. CASE Restrict(r)
  <2>1. privacy' \in [Privacy -> PrivacyRequest]
    BY <1>4, CompletedType DEF Restrict, TypeOK
  <2> QED BY <1>4, <2>1, Ends, TypeParts DEF Restrict, RowsTypeOK, TypeOK
<1>5. ASSUME NEW u \in Users, VerifyEmail(r, u) PROVE TypeOK'
  <2>1. codes' \in [Codes -> Code]
    BY <1>5, UsedType DEF VerifyEmail, TypeOK
  <2> QED BY <1>5, <2>1, Ends, TypeParts DEF VerifyEmail, RowsTypeOK, TypeOK, Account, Statuses
<1>6. ASSUME NEW u \in Users, ResetPassword(r, u) PROVE TypeOK'
  <2>1. codes' \in [Codes -> Code]
    BY <1>6, UsedType DEF ResetPassword, TypeOK
  <2> QED BY <1>6, <2>1, Ends, TypeParts DEF ResetPassword, RowsTypeOK, TypeOK, Session
<1>7. ASSUME NEW u \in Users, Link(r, u) PROVE TypeOK'
  <2>1. "open_session" \in Steps
    BY DEF Steps, Writes
  <2>2. JobsTypeOK'
    BY <1>7, <2>1, Continues DEF Link
  <2>3. RowsTypeOK'
    BY <1>7 DEF Link, RowsTypeOK, TypeOK, Account
  <2> QED BY <2>2, <2>3, TypeParts
<1>8. ASSUME NEW u \in Users, OpenSession(r, u) PROVE TypeOK'
  BY <1>8, Ends, TypeParts
     DEF OpenSession, NewSession, First, NewSessions, RowsTypeOK, TypeOK, Session
<1>9. ASSUME NEW u \in Users, Rotate(r, u) PROVE TypeOK'
  <2>0. PICK t \in First(NewSessions) :
          sessions' = [sessions EXCEPT ![row[r]].state = "revoked",
                         ![t] = NewSession(u, {row[r]})]
    BY <1>9 DEF Rotate
  <2> DEFINE revoked == [sessions EXCEPT ![row[r]].state = "revoked"]
  <2>1. revoked \in [Sessions -> Session]
    <3>1. \A s \in Sessions : [sessions[s] EXCEPT !.state = "revoked"] \in Session
      BY DEF TypeOK, Session
    <3> QED BY <3>1 DEF TypeOK
  <2>2. NewSession(u, {row[r]}) \in Session
    BY DEF NewSession, Session, TypeOK
  <2>3. sessions' \in [Sessions -> Session]
    BY <2>0, <2>1, <2>2
  <2>4. RowsTypeOK'
    BY <1>9, <2>3 DEF Rotate, RowsTypeOK, TypeOK
  <2> QED BY <1>9, <2>4, Ends, TypeParts DEF Rotate
<1>10. ASSUME NEW u \in Users, WriteUpdate(r, u) PROVE TypeOK'
  <2>1. Updated(u, step[r]) \in Account
    <3>1. account[u] \in Account
      BY DEF TypeOK
    <3>2. \A s \in DOMAIN Update : Update[s] \in Statuses
      BY DEF Update, Statuses
    <3>3. step[r] \in {"demote"} \cup DOMAIN Update
      BY <1>10 DEF WriteUpdate
    <3>4. CASE step[r] = "demote"
      BY <3>1, <3>4 DEF Updated, Account
    <3>5. CASE step[r] # "demote"
      BY <3>1, <3>2, <3>3, <3>5 DEF Updated, Account
    <3> QED BY <3>4, <3>5
  <2> QED BY <1>10, <2>1, Ends, TypeParts DEF WriteUpdate, RowsTypeOK, TypeOK
<1>11. ASSUME NEW u \in Users, SaveDisabled(r, u) PROVE TypeOK'
  <2>1. seen[r] \in Account
    BY DEF TypeOK
  <2>2. RowsTypeOK'
    BY <1>11, <2>1 DEF SaveDisabled, RowsTypeOK, TypeOK
  <2>3. "delete_sessions" \in Steps
    BY DEF Steps, Writes
  <2> QED BY <1>11, <2>2, <2>3, Continues, TypeParts DEF SaveDisabled
<1>12. ASSUME NEW u \in Users, DeleteSessions(r, u) PROVE TypeOK'
  BY <1>12, Ends, GoneType, TypeParts DEF DeleteSessions, RowsTypeOK, TypeOK
<1>13. ASSUME NEW u \in Users, SaveName(r, u) PROVE TypeOK'
  BY <1>13, Ends, TypeParts DEF SaveName, RowsTypeOK, TypeOK
<1>14. ASSUME NEW u \in Users, Anonymize(r, u) PROVE TypeOK'
  <2>1. RowsTypeOK'
    <3>1. privacy' \in [Privacy -> PrivacyRequest]
      BY <1>14, CompletedType DEF Anonymize, TypeOK
    <3>2. Anonymous(account[u]) \in Account
      BY DEF Anonymous, TypeOK, Account, Statuses
    <3>3. sessions' \in [Sessions -> Session]
      BY <1>14 DEF Anonymize, Gone, TypeOK, Session
    <3> QED BY <1>14, <3>1, <3>2, <3>3, GoneType DEF Anonymize, RowsTypeOK, TypeOK
  <2> QED BY <1>14, <2>1, Ends, TypeParts DEF Anonymize
<1> QED BY <1>1, <1>2, <1>3, <1>4, <1>5, <1>6, <1>7, <1>8, <1>9, <1>10, <1>11, <1>12, <1>13,
           <1>14 DEF Handle

LEMMA InitType == Init => TypeOK
<1> SUFFICES ASSUME Init PROVE TypeOK
  OBVIOUS
<1>1. account \in [Users -> Account]
  BY NoAccountType DEF Init, Account, Statuses
<1>2. sessions \in [Sessions -> Session] /\ codes \in [Codes -> Code]
      /\ privacy \in [Privacy -> PrivacyRequest]
  BY DEF Init, Session, Code, CodeTypes, PrivacyRequest, PrivacyTypes
<1> QED BY <1>1, <1>2, NoAccountType, AccountsAssumption DEF Init, TypeOK, Steps

LEMMA StepType == TypeOK /\ [Next]_vars => TypeOK'
<1> SUFFICES ASSUME TypeOK, [Next]_vars PROVE TypeOK'
  OBVIOUS
<1>1. ASSUME NEW r \in Requests, Fail(r) PROVE TypeOK'
  BY <1>1, Ends, TypeParts DEF Fail, rowVars, RowsTypeOK, TypeOK
<1>2. ASSUME NEW s \in Sessions, Logout(s) PROVE TypeOK'
  BY <1>2, Rest, TypeParts DEF Logout, RowsTypeOK, TypeOK, Session
<1>3. ASSUME NEW u \in Customers, CreatePrivacyRequest(u) PROVE TypeOK'
  BY <1>3, Rest, TypeParts, AccountsAssumption
     DEF CreatePrivacyRequest, First, RowsTypeOK, TypeOK, PrivacyRequest, PrivacyTypes
<1>4. ASSUME NEW a \in Users, NEW u \in Users, AdminCreate(a, u) PROVE TypeOK'
  BY <1>4, Rest, TypeParts DEF AdminCreate, RowsTypeOK, TypeOK, Account, Statuses, NoAccount
<1>5. CASE UNCHANGED vars
  BY <1>5, Rest, TypeParts DEF vars, rowVars, RowsTypeOK, TypeOK
<1> QED BY <1>1, <1>2, <1>3, <1>4, <1>5, ArriveType, HandleType DEF Next

\* Every variable keeps its type in every reachable state.
THEOREM AccountsTypeCorrect == Spec => []TypeOK
<1> QED BY InitType, StepType, PTL DEF Spec

-----------------------------------------------------------------------------
(* The inductive invariant.                                                 *)

\* A session that does not exist has no owner and no predecessor; one that has a
\* successor has ended, belongs to the same user and has one successor only.  One
\* that a deletion ended has ended for good.
SessionsInv ==
  /\ \A s \in Sessions : sessions[s].erased => sessions[s].state \in {"revoked", "deleted"}
  /\ \A s \in Sessions : sessions[s].state = "none" =>
       sessions[s].owner = {} /\ sessions[s].from = {}
  /\ \A s \in Sessions : \A u \in sessions[s].owner : sessions[s].owner = {u}
  /\ \A s, t \in Sessions :
       /\ s \in sessions[t].from => /\ sessions[s].state \in {"revoked", "deleted"}
                                    /\ sessions[s].owner = sessions[t].owner
       /\ sessions[s].from # {} /\ sessions[s].from = sessions[t].from => s = t

\* Requests that hold a token are about its session's owner.
TokenJobs == {"rotate", "save_session"}
TokensInv ==
  \A r \in Requests : step[r] \in TokenJobs =>
    /\ row[r] \in Sessions
    /\ sessions[row[r]].state # "none" /\ sessions[row[r]].owner = about[r]

\* A code that is held is unused and held by one request.
CodesInv ==
  /\ \A c \in Codes : /\ codes[c].uses <= 1
                      /\ codes[c].state \in {"none", "live"} => codes[c].uses = 0
  /\ \A r \in Requests : step[r] = "use_code" =>
       /\ row[r] \in Codes /\ codes[row[r]].state = "live"
       /\ \A q \in Requests : step[q] = "use_code" /\ row[q] = row[r] => q = r

\* The same of a privacy request that is being fulfilled.
PrivacyInv ==
  /\ FulfilledOnce
  /\ \A r \in Requests : step[r] = "fulfill" =>
       /\ row[r] \in Privacy /\ privacy[row[r]].status = "pending"
       /\ \A q \in Requests : step[q] = "fulfill" /\ row[q] = row[r] => q = r

Inv == SessionsInv /\ TokensInv /\ CodesInv /\ PrivacyInv

\* Sessions only end.
Aged ==
  \A s \in Sessions :
    /\ sessions'[s].owner = sessions[s].owner /\ sessions'[s].from = sessions[s].from
    /\ sessions'[s].erased => sessions[s].erased \/ sessions'[s].state = "deleted"
    /\ \/ sessions'[s].state = sessions[s].state
       \/ sessions[s].state # "none" /\ sessions'[s].state \in {"revoked", "deleted"}

LEMMA SessionsKeep ==
  ASSUME TypeOK, SessionsInv, TokensInv, Aged, Stay(TokenJobs)
  PROVE  SessionsInv' /\ TokensInv'
<1>1. SessionsInv'
  BY DEF SessionsInv, Aged
<1>2. TokensInv'
  BY DEF TokensInv, Aged, Stay
<1> QED BY <1>1, <1>2

LEMMA CodesKeep ==
  ASSUME CodesInv, codes' = codes, Stay({"use_code"}) PROVE CodesInv'
BY DEF CodesInv, Stay

LEMMA PrivacyKeep ==
  ASSUME PrivacyInv, privacy' = privacy, Stay({"fulfill"}) PROVE PrivacyInv'
BY DEF PrivacyInv, FulfilledOnce, Stay

\* What a step that changes no row but accounts keeps.
LEMMA RowsKeep ==
  ASSUME TypeOK, Inv, UNCHANGED <<sessions, codes, privacy>>,
         \A S \in {TokenJobs, {"use_code"}, {"fulfill"}} : Stay(S)
  PROVE  Inv'
<1>1. Aged
  BY DEF Aged
<1> QED BY <1>1, SessionsKeep, CodesKeep, PrivacyKeep DEF Inv

LEMMA Same == rowVars' = rowVars => UNCHANGED <<sessions, codes, privacy>>
BY DEF rowVars

LEMMA InitInv == Init => Inv
BY DEF Init, Inv, SessionsInv, TokensInv, TokenJobs, CodesInv, PrivacyInv, FulfilledOnce

-----------------------------------------------------------------------------
(* The steps.                                                               *)

\* Entering a step that is no exchange, code or privacy request.
LEMMA QuietEnter ==
  ASSUME TypeOK, Inv, UNCHANGED <<sessions, codes, privacy>>,
         NEW r \in Requests, NEW s \in Steps \ (TokenJobs \cup {"use_code", "fulfill"}),
         NEW u \in Users, Enter(r, s, u, 0)
  PROVE  Inv'
<1>1. \A S \in {TokenJobs, {"use_code"}, {"fulfill"}} : Stay(S)
  BY Enters DEF TokenJobs
<1> QED BY <1>1, RowsKeep

LEMMA ArriveInv ==
  ASSUME TypeOK, Inv, NEW r \in Requests, Arrive(r) PROVE Inv'
<1>1. ASSUME NEW u \in Customers,
             \/ Register(r, u) \/ RequestVerification(r, u) \/ RequestReset(r, u)
             \/ Login(r, u) \/ SocialLogin(r, u) \/ ReadProfile(r, u)
      PROVE  Inv'
  <2>0. u \in Users BY AccountsAssumption
  <2>1. UNCHANGED <<sessions, codes, privacy>>
    BY <1>1 DEF Register, RequestVerification, RequestReset, Login, SocialLogin, ReadProfile,
                rowVars
  <2>2. \E s \in Steps \ (TokenJobs \cup {"use_code", "fulfill"}) : Enter(r, s, u, 0)
    BY <1>1 DEF Register, RequestVerification, RequestReset, Login, SocialLogin, ReadProfile,
                Steps, Writes, TokenJobs
  <2> QED BY <2>0, <2>1, <2>2, QuietEnter
<1>2. ASSUME NEW c \in Codes, PresentCode(r, c) PROVE Inv'
  <2>1. PICK u \in Users : Enter(r, "use_code", u, c)
    BY <1>2 DEF PresentCode, TypeOK, Code
  <2>2. c \in Nat /\ "use_code" \in Steps
    BY AccountsAssumption DEF Codes, Steps
  <2>3. UNCHANGED rowVars /\ codes[c].state = "live" /\ ~CodeHeld(c)
    BY <1>2 DEF PresentCode
  <2>4. CodesInv'
    <3>1. /\ \A q \in Requests : q # r => step'[q] = step[q] /\ row'[q] = row[q]
          /\ step'[r] = "use_code" /\ row'[r] = c /\ codes' = codes
      BY <2>1, <2>2, <2>3, Enters DEF rowVars
    <3> QED BY <2>3, <3>1 DEF Inv, CodesInv, CodeHeld
  <2>5. PrivacyInv'
    BY <2>1, <2>2, <2>3, Enters, PrivacyKeep DEF Inv, rowVars
  <2>6. Aged
    BY <2>3 DEF Aged, rowVars
  <2>7. Stay(TokenJobs)
    BY <2>1, <2>2, Enters DEF TokenJobs
  <2> QED BY <2>4, <2>5, <2>6, <2>7, SessionsKeep DEF Inv
<1>3. ASSUME NEW s \in Sessions, ReadSession(r, s) \/ ReadOwnSession(r, s) PROVE Inv'
  <2>1. PICK u \in Users, t \in TokenJobs :
          u \in sessions[s].owner /\ Active(u) /\ Enter(r, t, u, s)
    BY <1>3 DEF ReadSession, ReadOwnSession, TypeOK, Session, TokenJobs, Authenticated
  <2>2. s \in Nat /\ t \in Steps
    BY AccountsAssumption DEF Sessions, Steps, Writes, TokenJobs
  <2>3. UNCHANGED rowVars /\ sessions[s].state = "live"
    BY <1>3 DEF ReadSession, ReadOwnSession
  <2>4. SessionsInv' /\ TokensInv'
    <3>1. sessions' = sessions /\ sessions[s].owner = {u}
      BY <2>1, <2>3 DEF Inv, SessionsInv, rowVars
    <3>2. SessionsInv'
      BY <3>1 DEF Inv, SessionsInv
    <3>3. /\ \A q \in Requests : q # r => step'[q] = step[q] /\ row'[q] = row[q]
                                            /\ about'[q] = about[q]
          /\ about'[r] = {u} /\ row'[r] = s
      BY <2>1, <2>2, Enters
    <3>4. TokensInv'
      BY <2>3, <3>1, <3>3 DEF Inv, TokensInv
    <3> QED BY <3>2, <3>4
  <2>5. CodesInv' /\ PrivacyInv'
    BY <2>1, <2>2, <2>3, Enters, CodesKeep, PrivacyKeep DEF Inv, TokenJobs, rowVars
  <2> QED BY <2>4, <2>5 DEF Inv
<1>4. ASSUME NEW a \in Users, NEW u \in Customers, CheckUpdate(r, a, u) \/ CheckRemove(r, a, u)
      PROVE  Inv'
  <2>0. u \in Users BY AccountsAssumption
  <2>1. UNCHANGED <<sessions, codes, privacy>>
    BY <1>4, Same DEF CheckUpdate, CheckRemove
  <2>2. \E s \in {"enable", "unverify", "disable", "strike", "demote", "save_disabled"} :
          Enter(r, s, u, 0)
    BY <1>4 DEF CheckUpdate, CheckRemove
  <2> QED BY <2>0, <2>1, <2>2, QuietEnter DEF Steps, Writes, TokenJobs
<1>5. ASSUME NEW p \in Privacy, LockPrivacy(r, p) PROVE Inv'
  <2>1. PICK u \in Users : Enter(r, "fulfill", u, p)
    BY <1>5 DEF LockPrivacy, TypeOK, PrivacyRequest
  <2>2. p \in Nat /\ "fulfill" \in Steps
    BY AccountsAssumption DEF Privacy, Steps
  <2>3. /\ UNCHANGED rowVars /\ privacy[p].status = "pending"
        /\ ~ \E q \in Requests : step[q] = "fulfill" /\ row[q] = p
    BY <1>5 DEF LockPrivacy
  <2>4. PrivacyInv'
    BY <2>1, <2>2, <2>3, Enters DEF Inv, PrivacyInv, FulfilledOnce, rowVars
  <2>5. CodesInv'
    BY <2>1, <2>2, <2>3, Enters, CodesKeep DEF Inv, rowVars
  <2>6. Aged
    BY <2>3 DEF Aged, rowVars
  <2>7. Stay(TokenJobs)
    BY <2>1, <2>2, Enters DEF TokenJobs
  <2> QED BY <2>4, <2>5, <2>6, <2>7, SessionsKeep DEF Inv
<1> QED BY <1>1, <1>2, <1>3, <1>4, <1>5
     DEF Arrive, AuthRequests, UsersRequests, CustomersRequests, PrivacyRequests

LEMMA GoneAges ==
  ASSUME TypeOK, SessionsInv, NEW u \in Users, sessions' = Gone(sessions, u) PROVE Aged
<1>1. \A s \in Sessions :
        sessions'[s] = IF sessions[s].owner = {u} THEN [sessions[s] EXCEPT !.state = "deleted"]
                       ELSE sessions[s]
  BY DEF Gone, TypeOK
<1>2. \A s \in Sessions : /\ sessions[s] \in Session
                          /\ sessions[s].owner = {u} => sessions[s].state # "none"
  BY DEF TypeOK, SessionsInv
<1> QED BY <1>1, <1>2 DEF Aged, Session

LEMMA ErasedAges ==
  ASSUME TypeOK, SessionsInv, NEW r \in Requests, NEW u \in Users, Anonymize(r, u) PROVE Aged
<1>1. \A s \in Sessions :
        sessions'[s] = IF sessions[s].owner = {u}
                       THEN [[sessions[s] EXCEPT !.state = "deleted"] EXCEPT !.erased = TRUE]
                       ELSE sessions[s]
  BY DEF Anonymize, Gone, TypeOK
<1>2. \A s \in Sessions : /\ sessions[s] \in Session
                          /\ sessions[s].owner = {u} => sessions[s].state # "none"
  BY DEF TypeOK, SessionsInv
<1> QED BY <1>1, <1>2 DEF Aged, Session

LEMMA HandleInv ==
  ASSUME TypeOK, Inv, NEW r \in Requests, Handle(r) PROVE Inv'
<1> USE DEF Inv
<1>1. CASE ConsumeCodes(r)
  <2>1. PICK t \in CodeTypes : Continue(r, InsertStep(t)) /\ UNCHANGED <<account, sessions, privacy>>
    BY <1>1 DEF ConsumeCodes
  <2>2. InsertStep(t) \in {"insert_email_verify", "insert_password_reset"}
        /\ InsertStep(t) \in Steps
    BY DEF InsertStep, Steps, Writes
  <2>3. \A S \in {TokenJobs, {"use_code"}, {"fulfill"}} : Stay(S)
    BY <2>1, <2>2, Continues DEF TokenJobs
  <2>4. \A c \in Codes :
          /\ codes'[c].uses = codes[c].uses
          /\ \/ codes'[c] = codes[c]
             \/ codes'[c].state = "consumed" /\ ~CodeHeld(c)
    BY <1>1 DEF ConsumeCodes, TypeOK, Code
  <2>5. CodesInv'
    BY <2>3, <2>4 DEF CodesInv, CodeHeld, Stay
  <2>6. Aged
    BY <2>1 DEF Aged
  <2> QED BY <2>1, <2>3, <2>5, <2>6, SessionsKeep, PrivacyKeep
<1>2. CASE InsertCode(r)
  <2>1. PICK t \in CodeTypes, c \in First(NewCodes) :
          codes' = [codes EXCEPT ![c] = [owner |-> about[r], type |-> t,
                                         state |-> "live", uses |-> 0]]
    BY <1>2 DEF InsertCode
  <2>2. Over(r) /\ UNCHANGED <<account, sessions, privacy>>
    BY <1>2 DEF InsertCode
  <2>3. \A S \in {TokenJobs, {"use_code"}, {"fulfill"}} : Stay(S)
    BY <2>2, Ends DEF TokenJobs
  <2>4. c \in Codes /\ codes[c].state = "none"
    BY DEF First, NewCodes
  <2>5. CodesInv'
    BY <2>1, <2>3, <2>4 DEF CodesInv, Stay, TypeOK
  <2>6. Aged
    BY <2>2 DEF Aged
  <2> QED BY <2>2, <2>3, <2>5, <2>6, SessionsKeep, PrivacyKeep
<1>3. CASE SaveSession(r)
  <2>1. Over(r) /\ UNCHANGED <<account, codes, privacy>>
    BY <1>3 DEF SaveSession
  <2>2. \A S \in {TokenJobs, {"use_code"}, {"fulfill"}} : Stay(S)
    BY <2>1, Ends DEF TokenJobs
  <2>3. row[r] \in Sessions /\ sessions[row[r]].state # "none"
    BY <1>3 DEF SaveSession, TokensInv, TokenJobs
  <2>4. Aged
    BY <1>3, <2>3 DEF SaveSession, Aged, TypeOK, Session
  <2> QED BY <2>1, <2>2, <2>4, SessionsKeep, CodesKeep, PrivacyKeep
<1>4. CASE Restrict(r)
  <2>1. Over(r) /\ UNCHANGED <<account, sessions, codes>>
    BY <1>4 DEF Restrict
  <2>2. \A S \in {TokenJobs, {"use_code"}} : Stay(S)
    BY <2>1, Ends DEF TokenJobs
  <2>3. step[r] = "fulfill" /\ Completed(row[r])
    BY <1>4 DEF Restrict
  <2>4. PrivacyInv'
    BY <2>1, <2>3, Ends DEF PrivacyInv, FulfilledOnce, Completed, TypeOK, PrivacyRequest
  <2>5. Aged
    BY <2>1 DEF Aged
  <2> QED BY <2>1, <2>2, <2>4, <2>5, SessionsKeep, CodesKeep
<1>5. ASSUME NEW u \in Users, VerifyEmail(r, u) \/ ResetPassword(r, u) PROVE Inv'
  <2>1. Over(r) /\ UNCHANGED privacy /\ step[r] = "use_code" /\ Used(row[r])
    BY <1>5 DEF VerifyEmail, ResetPassword
  <2>2. \A S \in {TokenJobs, {"fulfill"}} : Stay(S)
    BY <2>1, Ends DEF TokenJobs
  <2>3. CodesInv'
    BY <2>1, Ends DEF CodesInv, Used, TypeOK, Code
  <2>4. Aged
    BY <1>5 DEF VerifyEmail, ResetPassword, Aged, TypeOK, Session
  <2> QED BY <2>1, <2>2, <2>3, <2>4, SessionsKeep, PrivacyKeep
<1>6. ASSUME NEW u \in Users, Link(r, u) PROVE Inv'
  <2>1. Continue(r, "open_session") /\ UNCHANGED <<sessions, codes, privacy>>
    BY <1>6 DEF Link
  <2>2. \A S \in {TokenJobs, {"use_code"}, {"fulfill"}} : Stay(S)
    BY <2>1, Continues DEF TokenJobs, Steps, Writes
  <2> QED BY <2>1, <2>2, RowsKeep
<1>7. ASSUME NEW u \in Users, OpenSession(r, u) PROVE Inv'
  <2>1. Over(r) /\ UNCHANGED <<account, codes, privacy>>
    BY <1>7 DEF OpenSession
  <2>2. \A S \in {TokenJobs, {"use_code"}, {"fulfill"}} : Stay(S)
    BY <2>1, Ends DEF TokenJobs
  <2>3. PICK s \in First(NewSessions) :
          sessions' = [sessions EXCEPT ![s] = NewSession(u, {})]
    BY <1>7 DEF OpenSession
  <2>4. s \in Sessions /\ sessions[s].state = "none"
    BY DEF First, NewSessions
  <2>5. SessionsInv' /\ TokensInv'
    BY <2>1, <2>2, <2>3, <2>4
       DEF SessionsInv, TokensInv, TokenJobs, NewSession, Stay, TypeOK, Session
  <2> QED BY <2>1, <2>2, <2>5, CodesKeep, PrivacyKeep
<1>8. ASSUME NEW u \in Users, Rotate(r, u) PROVE Inv'
  <2>1. /\ Over(r) /\ UNCHANGED <<account, codes, privacy>> /\ about[r] = {u}
        /\ step[r] = "rotate" /\ sessions[row[r]].state = "live"
    BY <1>8 DEF Rotate, Subject
  <2>2. \A S \in {TokenJobs, {"use_code"}, {"fulfill"}} : Stay(S)
    BY <2>1, Ends DEF TokenJobs
  <2>3. PICK t \in First(NewSessions) :
          sessions' = [sessions EXCEPT ![row[r]].state = "revoked",
                         ![t] = NewSession(u, {row[r]})]
    BY <1>8 DEF Rotate
  <2>4. t \in Sessions /\ sessions[t].state = "none"
    BY DEF First, NewSessions
  <2>5. row[r] \in Sessions /\ sessions[row[r]].owner = {u}
    BY <2>1 DEF TokensInv, TokenJobs
  <2>6. /\ sessions'[t] = NewSession(u, {row[r]})
        /\ sessions'[row[r]] = [sessions[row[r]] EXCEPT !.state = "revoked"]
        /\ \A s \in Sessions \ {t, row[r]} : sessions'[s] = sessions[s]
    BY <2>1, <2>3, <2>4, <2>5 DEF TypeOK
  <2>7. /\ \A s \in Sessions \ {t} : /\ sessions'[s].owner = sessions[s].owner
                                     /\ sessions'[s].from = sessions[s].from
                                     /\ sessions'[s].erased = sessions[s].erased
        /\ sessions'[row[r]].state = "revoked"
        /\ \A s \in Sessions \ {t, row[r]} : sessions'[s].state = sessions[s].state
    <3>1. sessions[row[r]] \in Session /\ row[r] # t
      BY <2>1, <2>4, <2>5 DEF TypeOK
    <3> QED BY <2>5, <2>6, <3>1 DEF Session
  <2>8. SessionsInv'
    <3>1. \A s \in Sessions \ {t} : row[r] \notin sessions[s].from
      BY <2>1, <2>5 DEF SessionsInv
    <3>2. \A s \in Sessions : t \notin sessions[s].from
      BY <2>4 DEF SessionsInv
    <3>3. /\ sessions'[t].owner = {u} /\ sessions'[t].from = {row[r]}
          /\ sessions'[t].state = "live" /\ ~sessions'[t].erased /\ row[r] # t
      BY <2>1, <2>4, <2>6 DEF NewSession
    <3>4. \A s \in Sessions : /\ sessions'[s].state = "none" => sessions[s].state = "none" /\ s # t
                              /\ s # t => sessions'[s].state = sessions[s].state \/ s = row[r]
      BY <2>7, <3>3
    <3>5. /\ \A s \in Sessions : sessions'[s].state = "none" =>
               sessions'[s].owner = {} /\ sessions'[s].from = {}
          /\ \A s \in Sessions : \A v \in sessions'[s].owner : sessions'[s].owner = {v}
          /\ \A s \in Sessions : sessions'[s].erased =>
               sessions'[s].state \in {"revoked", "deleted"}
      BY <2>7, <3>3, <3>4 DEF SessionsInv
    <3>6. ASSUME NEW s \in Sessions, NEW v \in Sessions
          PROVE  s \in sessions'[v].from => /\ sessions'[s].state \in {"revoked", "deleted"}
                                            /\ sessions'[s].owner = sessions'[v].owner
      <4>1. CASE v = t
        BY <2>5, <2>7, <3>3, <4>1
      <4>2. CASE v # t /\ s = t
        BY <2>7, <3>2, <4>2
      <4>3. CASE v # t /\ s # t
        BY <2>7, <3>1, <4>3 DEF SessionsInv
      <4> QED BY <4>1, <4>2, <4>3
    <3>7. ASSUME NEW s \in Sessions, NEW v \in Sessions,
                 sessions'[s].from # {}, sessions'[s].from = sessions'[v].from
          PROVE  s = v
      BY <2>7, <3>1, <3>3, <3>7 DEF SessionsInv
    <3> QED BY <3>5, <3>6, <3>7 DEF SessionsInv
  <2>9. TokensInv'
    <3>1. \A q \in Requests : step'[q] \in TokenJobs =>
            /\ step[q] = step'[q] /\ row'[q] = row[q] /\ about'[q] = about[q]
            /\ row[q] \in Sessions \ {t}
            /\ sessions[row[q]].state # "none" /\ sessions[row[q]].owner = about[q]
      BY <2>2, <2>4 DEF Stay, TokensInv
    <3>2. \A s \in Sessions \ {t} : /\ sessions'[s].owner = sessions[s].owner
                                    /\ sessions'[s].state \in {sessions[s].state, "revoked"}
      BY <2>7
    <3> QED BY <3>1, <3>2 DEF TokensInv
  <2> QED BY <2>1, <2>2, <2>8, <2>9, CodesKeep, PrivacyKeep
<1>9. ASSUME NEW u \in Users, WriteUpdate(r, u) PROVE Inv'
  <2>1. Over(r) /\ UNCHANGED <<sessions, codes, privacy>>
    BY <1>9 DEF WriteUpdate
  <2>2. \A S \in {TokenJobs, {"use_code"}, {"fulfill"}} : Stay(S)
    BY <2>1, Ends DEF TokenJobs
  <2> QED BY <2>1, <2>2, RowsKeep
<1>10. ASSUME NEW u \in Users, SaveDisabled(r, u) PROVE Inv'
  <2>1. Continue(r, "delete_sessions") /\ UNCHANGED <<sessions, codes, privacy>>
    BY <1>10 DEF SaveDisabled
  <2>2. \A S \in {TokenJobs, {"use_code"}, {"fulfill"}} : Stay(S)
    BY <2>1, Continues DEF TokenJobs, Steps, Writes
  <2> QED BY <2>1, <2>2, RowsKeep
<1>11. ASSUME NEW u \in Users, DeleteSessions(r, u) PROVE Inv'
  <2>1. Over(r) /\ UNCHANGED <<account, codes, privacy>>
    BY <1>11 DEF DeleteSessions
  <2>2. \A S \in {TokenJobs, {"use_code"}, {"fulfill"}} : Stay(S)
    BY <2>1, Ends DEF TokenJobs
  <2>3. Aged
    BY <1>11, GoneAges DEF DeleteSessions
  <2> QED BY <2>1, <2>2, <2>3, SessionsKeep, CodesKeep, PrivacyKeep
<1>12. ASSUME NEW u \in Users, SaveName(r, u) PROVE Inv'
  <2>1. Over(r) /\ UNCHANGED <<sessions, codes, privacy>>
    BY <1>12 DEF SaveName
  <2>2. \A S \in {TokenJobs, {"use_code"}, {"fulfill"}} : Stay(S)
    BY <2>1, Ends DEF TokenJobs
  <2> QED BY <2>1, <2>2, RowsKeep
<1>13. ASSUME NEW u \in Users, Anonymize(r, u) PROVE Inv'
  <2>1. /\ Over(r) /\ step[r] = "fulfill" /\ Completed(row[r]) /\ codes' = Gone(codes, u)
        /\ \A c \in Codes : codes[c].owner = {u} => ~CodeHeld(c)
    BY <1>13 DEF Anonymize
  <2>2. \A S \in {TokenJobs, {"use_code"}} : Stay(S)
    BY <2>1, Ends DEF TokenJobs
  <2>3. PrivacyInv'
    BY <2>1, Ends DEF PrivacyInv, FulfilledOnce, Completed, TypeOK, PrivacyRequest
  <2>4. Aged
    BY <1>13, ErasedAges
  <2>5. \A c \in Codes : /\ codes'[c].uses = codes[c].uses
                         /\ \/ codes'[c] = codes[c]
                            \/ codes'[c].state = "deleted" /\ ~CodeHeld(c)
    BY <2>1 DEF Gone, TypeOK, Code
  <2>6. CodesInv'
    BY <2>2, <2>5 DEF CodesInv, CodeHeld, Stay
  <2> QED BY <2>2, <2>3, <2>4, <2>6, SessionsKeep
<1> QED BY <1>1, <1>2, <1>3, <1>4, <1>5, <1>6, <1>7, <1>8, <1>9, <1>10, <1>11, <1>12, <1>13
        DEF Handle

LEMMA StepInv == TypeOK /\ Inv /\ [Next]_vars => Inv'
<1> SUFFICES ASSUME TypeOK, Inv, [Next]_vars PROVE Inv'
  OBVIOUS
<1>1. ASSUME NEW r \in Requests, Fail(r) PROVE Inv'
  <2>1. \A S \in {TokenJobs, {"use_code"}, {"fulfill"}} : Stay(S)
    BY <1>1, Ends DEF Fail, TokenJobs
  <2> QED BY <1>1, <2>1, Same, RowsKeep DEF Fail, Inv
<1>2. ASSUME NEW s \in Sessions, Logout(s) PROVE Inv'
  <2>1. UNCHANGED jobVars /\ UNCHANGED <<account, codes, privacy>>
    BY <1>2 DEF Logout, jobVars
  <2>2. Aged
    BY <1>2 DEF Logout, Aged, TypeOK, Session
  <2> QED BY <2>1, <2>2, Rest, SessionsKeep, CodesKeep, PrivacyKeep DEF Inv
<1>3. ASSUME NEW u \in Customers, CreatePrivacyRequest(u) PROVE Inv'
  <2>1. UNCHANGED jobVars /\ UNCHANGED <<account, sessions, codes>>
    BY <1>3 DEF CreatePrivacyRequest, jobVars
  <2>2. PICK t \in PrivacyTypes, p \in Privacy :
          /\ privacy[p].status = "none"
          /\ privacy' = [privacy EXCEPT ![p] = [owner |-> {u}, type |-> t,
                                                status |-> "pending", fulfilled |-> 0]]
    BY <1>3 DEF CreatePrivacyRequest, First
  <2>3. PrivacyInv'
    BY <2>1, <2>2 DEF Inv, PrivacyInv, FulfilledOnce, jobVars, TypeOK
  <2>4. Aged
    BY <2>1 DEF Aged
  <2> QED BY <2>1, <2>3, <2>4, Rest, SessionsKeep, CodesKeep DEF Inv
<1>4. ASSUME NEW a \in Users, NEW u \in Users, AdminCreate(a, u) PROVE Inv'
  <2>1. UNCHANGED jobVars /\ UNCHANGED <<sessions, codes, privacy>>
    BY <1>4 DEF AdminCreate, jobVars
  <2> QED BY <2>1, Rest, RowsKeep DEF Inv
<1>5. CASE UNCHANGED vars
  <2>1. UNCHANGED jobVars /\ UNCHANGED rowVars
    BY <1>5 DEF vars
  <2> QED BY <2>1, Same, Rest, RowsKeep DEF Inv
<1> QED BY <1>1, <1>2, <1>3, <1>4, <1>5, ArriveInv, HandleInv DEF Next

-----------------------------------------------------------------------------
(* The theorems.                                                            *)

LEMMA InvCorrect == Spec => [](TypeOK /\ Inv)
<1> QED BY InitType, InitInv, StepType, StepInv, PTL DEF Spec

\* A refresh token is exchanged for one successor, whoever presents it how often,
\* and is of no use afterwards.
THEOREM RotatedOnceCorrect == Spec => []RotatedOnce
<1>1. Inv => RotatedOnce
  BY DEF Inv, SessionsInv, RotatedOnce
<1> QED BY <1>1, InvCorrect, PTL

\* A mailed code changes an account at most once.
THEOREM CodeUsedOnceCorrect == Spec => []CodeUsedOnce
<1>1. Inv => CodeUsedOnce
  BY DEF Inv, CodesInv, CodeUsedOnce
<1> QED BY <1>1, InvCorrect, PTL

\* A privacy request is fulfilled at most once.
THEOREM FulfilledOnceCorrect == Spec => []FulfilledOnce
<1>1. Inv => FulfilledOnce
  BY DEF Inv, PrivacyInv
<1> QED BY <1>1, InvCorrect, PTL

\* No step creates a session from one that a deletion has ended.
LEMMA NotRefreshed ==
  ASSUME TypeOK, Inv, [Next]_vars, NEW s \in Sessions, NEW t \in Sessions,
         sessions[t].state = "none", sessions'[t].from = {s}
  PROVE  ~sessions[s].erased
<1>0. sessions[t].from = {}
  BY DEF Inv, SessionsInv
<1>1. sessions' # sessions /\ ~Aged
  BY <1>0 DEF Aged
<1>2. ASSUME NEW r \in Requests, NEW v \in Users, Rotate(r, v) PROVE ~sessions[s].erased
  <2>1. PICK u \in First(NewSessions) :
          sessions' = [sessions EXCEPT ![row[r]].state = "revoked", ![u] = NewSession(v, {row[r]})]
    BY <1>2 DEF Rotate
  <2>2. t = u
    BY <1>0, <2>1 DEF TypeOK, Session
  <2>3. s = row[r]
    BY <2>1, <2>2 DEF TypeOK, NewSession
  <2> QED BY <1>2, <2>3 DEF Rotate, Inv, SessionsInv
<1>3. ASSUME NEW r \in Requests, NEW v \in Users, OpenSession(r, v) PROVE FALSE
  <2>1. PICK u \in First(NewSessions) :
          sessions' = [sessions EXCEPT ![u] = NewSession(v, {})]
    BY <1>3 DEF OpenSession
  <2> QED BY <1>0, <2>1 DEF TypeOK, NewSession
<1>4. ASSUME NEW r \in Requests, NEW v \in Users,
             ResetPassword(r, v) \/ DeleteSessions(r, v) \/ Anonymize(r, v)
      PROVE  FALSE
  <2>1. CASE ResetPassword(r, v)
    BY <1>0, <2>1 DEF ResetPassword, TypeOK, Session
  <2>2. CASE DeleteSessions(r, v) \/ Anonymize(r, v)
    BY <1>1, <2>2, GoneAges, ErasedAges DEF DeleteSessions, Inv
  <2> QED BY <1>4, <2>1, <2>2
<1>5. ASSUME NEW r \in Requests, SaveSession(r) PROVE FALSE
  BY <1>0, <1>5 DEF SaveSession, TypeOK, Session
<1>6. ASSUME NEW u \in Sessions, Logout(u) PROVE FALSE
  BY <1>0, <1>6 DEF Logout, TypeOK, Session
<1>7. ASSUME NEW r \in Requests, Arrive(r) \/ Fail(r) PROVE FALSE
  BY <1>1, <1>7 DEF Arrive, AuthRequests, UsersRequests, CustomersRequests, PrivacyRequests, Fail,
                    Register, RequestVerification, RequestReset, Login, SocialLogin,
                    ReadProfile, PresentCode, ReadSession, ReadOwnSession, CheckUpdate,
                    CheckRemove, LockPrivacy, rowVars
<1>8. ASSUME NEW r \in Requests, Handle(r) PROVE ~sessions[s].erased
  <2>1. \/ sessions' = sessions \/ SaveSession(r)
        \/ \E v \in Users : \/ Rotate(r, v) \/ OpenSession(r, v) \/ ResetPassword(r, v)
                            \/ DeleteSessions(r, v) \/ Anonymize(r, v)
    BY <1>8 DEF Handle, ConsumeCodes, InsertCode, Restrict, VerifyEmail, Link, WriteUpdate,
                SaveDisabled, SaveName
  <2> QED BY <1>1, <1>2, <1>3, <1>4, <1>5, <2>1
<1> QED BY <1>1, <1>6, <1>7, <1>8 DEF Next, CreatePrivacyRequest, AdminCreate, vars, rowVars

\* A refresh that looked at session and account before a privacy request deleted
\* the account exchanges nothing.
THEOREM DeletedIsNotRefreshedCorrect == Spec => DeletedIsNotRefreshed
<1>1. TypeOK /\ Inv /\ [Next]_vars =>
        [\A s, t \in Sessions :
           sessions[t].state = "none" /\ sessions'[t].from = {s} => ~sessions[s].erased]_vars
  BY NotRefreshed
<1> QED BY <1>1, InvCorrect, PTL DEF Spec, DeletedIsNotRefreshed
=============================================================================
