------------------------------ MODULE Accounts ------------------------------
(***************************************************************************)
(* AuthService, UsersService and CustomersService: accounts, the refresh   *)
(* sessions and mailed codes that belong to them, and privacy requests.    *)
(*                                                                         *)
(* Most handlers read a row without a lock and write later what they read  *)
(* or concluded.  A request is therefore a step that reads and one or more *)
(* steps that write; what it read is kept in "seen".  repository.save of   *)
(* an entity compares it with the row there is now and writes every column *)
(* that differs, so it writes back stale columns.  A deletion runs in a    *)
(* REPEATABLE READ transaction, which fails when a row it touches has      *)
(* changed meanwhile: it is one step.  Codes, tokens and passwords are     *)
(* left out; time shows as codes and sessions that are refused.            *)
(***************************************************************************)
EXTENDS Naturals, FiniteSets

CONSTANTS Requests,   \* requests the API handles at a time
          Users,      \* rows of users that ever exist
          Admins,     \* those there at the start, with the role admin
          Customers,  \* bound: users who send requests and are administered
          MaxSessions, MaxCodes, MaxPrivacy \* bounds: rows that ever exist

ASSUME AccountsAssumption ==
  /\ Admins \subseteq Users /\ Customers \subseteq Users
  /\ MaxSessions \in Nat /\ MaxCodes \in Nat /\ MaxPrivacy \in Nat

Sessions == 1 .. MaxSessions
Codes    == 1 .. MaxCodes
Privacy  == 1 .. MaxPrivacy

VARIABLES
  account,  \* the row of each user
  sessions, \* refresh_tokens
  codes,    \* verification_tokens
  privacy,  \* privacy_requests
  holders,  \* users who were given an access token
  step,     \* what each request does next
  about,    \* the user it is about, {} when it is over
  row,      \* the session, code or privacy request it is about, 0 for none
  seen      \* the user row it has read

rowVars == <<account, sessions, codes, privacy, holders>>
jobVars == <<step, about, row, seen>>
vars == <<rowVars, jobVars>>

\* A "suspended" account is treated as a "disabled" one.
Statuses == {"none", "pending_verification", "active", "disabled", "deleted"}
Account == [status : Statuses, archived : BOOLEAN, named : BOOLEAN,
            verified : BOOLEAN, admin : BOOLEAN]
NoAccount == [status |-> "none", archived |-> FALSE, named |-> FALSE,
              verified |-> FALSE, admin |-> FALSE]
CodeTypes == {"email_verify", "password_reset"}
PrivacyTypes == {"restriction", "deletion"}
\* "erased" is history: the deletion of its owner's account ended the session.
Session == [owner : SUBSET Users, from : SUBSET Nat, erased : BOOLEAN,
            state : {"none", "live", "revoked", "deleted"}]
NewSession(u, from) == [owner |-> {u}, from |-> from, erased |-> FALSE, state |-> "live"]
Code == [owner : SUBSET Users, type : CodeTypes,
         state : {"none", "live", "consumed", "deleted"}, uses : Nat]
PrivacyRequest == [owner : SUBSET Users, type : PrivacyTypes,
                   status : {"none", "pending", "completed"}, fulfilled : Nat]

Writes == {"open_session", "rotate", "save_session", "consume_email_verify",
           "insert_email_verify", "consume_password_reset", "insert_password_reset",
           "link", "enable", "unverify", "disable", "strike", "demote",
           "save_disabled", "delete_sessions", "save_name"}
Steps == {"idle", "use_code", "fulfill"} \cup Writes

TypeOK ==
  /\ account \in [Users -> Account]
  /\ holders \in SUBSET Users
  /\ sessions \in [Sessions -> Session]
  /\ codes \in [Codes -> Code]
  /\ privacy \in [Privacy -> PrivacyRequest]
  /\ step \in [Requests -> Steps]
  /\ about \in [Requests -> SUBSET Users]
  /\ row \in [Requests -> Nat]
  /\ seen \in [Requests -> Account]

Init ==
  /\ account = [u \in Users |-> IF u \in Admins
                                THEN [status |-> "active", archived |-> FALSE, named |-> TRUE,
                                      verified |-> TRUE, admin |-> TRUE]
                                ELSE NoAccount]
  /\ holders = Admins
  /\ sessions = [s \in Sessions |-> [owner |-> {}, from |-> {}, erased |-> FALSE,
                                     state |-> "none"]]
  /\ codes = [c \in Codes |-> [owner |-> {}, type |-> "email_verify",
                               state |-> "none", uses |-> 0]]
  /\ privacy = [p \in Privacy |-> [owner |-> {}, type |-> "restriction",
                                   status |-> "none", fulfilled |-> 0]]
  /\ step = [r \in Requests |-> "idle"]
  /\ about = [r \in Requests |-> {}]
  /\ row = [r \in Requests |-> 0]
  /\ seen = [r \in Requests |-> NoAccount]
-----------------------------------------------------------------------------
First(S) == {x \in S : \A y \in S : x <= y}
NewSessions == {s \in Sessions : sessions[s].state = "none"}
NewCodes    == {c \in Codes : codes[c].state = "none"}

\* A request about user u goes on with step s; it keeps the row of u as it is
\* where a later step writes it back.
Removed(a) == [a EXCEPT !.status = "disabled", !.archived = TRUE]
Enter(r, s, u, n) ==
  /\ step[r] = "idle"
  /\ step' = [step EXCEPT ![r] = s]
  /\ about' = [about EXCEPT ![r] = {u}]
  /\ row' = [row EXCEPT ![r] = n]
  /\ seen' = [seen EXCEPT ![r] = CASE s = "save_name"     -> account[u]
                                  [] s = "save_disabled" -> Removed(account[u])
                                  [] OTHER               -> NoAccount]
Continue(r, s) ==
  /\ step' = [step EXCEPT ![r] = s]
  /\ UNCHANGED <<about, row, seen>>
\* A request that is over; what nothing refers to any more is forgotten.
Over(r) ==
  /\ step' = [step EXCEPT ![r] = "idle"]
  /\ about' = [about EXCEPT ![r] = {}]
  /\ row' = [row EXCEPT ![r] = 0]
  /\ seen' = [seen EXCEPT ![r] = NoAccount]
Subject(r, u) == about[r] = {u}

\* JwtStrategy.validate, and AuthService.assertActive.
Active(u) == account[u].status = "active" /\ ~account[u].archived
Authenticated(u) == u \in holders /\ Active(u)
\* chk_users_login_identifier
Storable(a) == a.status = "deleted" \/ a.named
-----------------------------------------------------------------------------
(* Registration, the first administrator's users, and mailed codes. *)

\* The account and its profile-to-be are there before the code is: the two
\* statements of the code follow.
Register(r, u) ==
  /\ account[u].status = "none"
  /\ account' = [account EXCEPT ![u] = [NoAccount EXCEPT
       !.status = "pending_verification", !.named = TRUE]]
  /\ Enter(r, "consume_email_verify", u, 0)
  /\ UNCHANGED <<sessions, codes, privacy, holders>>

\* resendEmailVerification: also while an earlier one is still sending.
RequestVerification(r, u) ==
  /\ account[u].status \in {"pending_verification", "active"} /\ ~account[u].archived
  /\ ~account[u].verified /\ account[u].named
  /\ Enter(r, "consume_email_verify", u, 0)
  /\ UNCHANGED rowVars

RequestReset(r, u) ==
  /\ account[u].status \notin {"none", "deleted"} /\ ~account[u].archived
  /\ account[u].named
  /\ Enter(r, "consume_password_reset", u, 0)
  /\ UNCHANGED rowVars

ConsumeStep(t) == IF t = "email_verify" THEN "consume_email_verify" ELSE "consume_password_reset"
InsertStep(t) == IF t = "email_verify" THEN "insert_email_verify" ELSE "insert_password_reset"

\* A request holds a code FOR UPDATE.
CodeHeld(c) == \E r \in Requests : step[r] = "use_code" /\ row[r] = c

\* Every code of the user and the type is consumed.
ConsumeCodes(r) ==
  \E t \in CodeTypes, u \in Users :
    LET old == {c \in Codes : codes[c].owner = {u} /\ codes[c].type = t
                              /\ codes[c].state = "live"}
    IN /\ step[r] = ConsumeStep(t) /\ Subject(r, u)
       /\ \A c \in old : ~CodeHeld(c)
       /\ codes' = [c \in Codes |-> IF c \in old THEN [codes[c] EXCEPT !.state = "consumed"]
                                    ELSE codes[c]]
       /\ Continue(r, InsertStep(t))
       /\ UNCHANGED <<account, sessions, privacy, holders>>

InsertCode(r) ==
  \E t \in CodeTypes, c \in First(NewCodes) :
    /\ step[r] = InsertStep(t)
    /\ codes' = [codes EXCEPT ![c] = [owner |-> about[r], type |-> t,
                                      state |-> "live", uses |-> 0]]
    /\ Over(r)
    /\ UNCHANGED <<account, sessions, privacy, holders>>

\* A fault: the code is read without a lock.
PresentCodeUnlocked(r, c) ==
  /\ codes[c].state = "live"
  /\ \E u \in codes[c].owner : Enter(r, "use_code", u, c)
  /\ UNCHANGED rowVars

\* verifyEmail and resetPassword read the code FOR UPDATE, unconsumed.
PresentCode(r, c) ==
  /\ codes[c].state = "live" /\ ~CodeHeld(c)
  /\ \E u \in codes[c].owner : Enter(r, "use_code", u, c)
  /\ UNCHANGED rowVars

Used(c) == codes' = [codes EXCEPT ![c].state = "consumed", ![c].uses = @ + 1]

VerifyEmail(r, u) ==
  LET now == [account[u] EXCEPT !.verified = TRUE, !.status = "active"]
  IN /\ step[r] = "use_code" /\ Subject(r, u) /\ codes[row[r]].type = "email_verify"
     /\ Storable(now)
     /\ account' = [account EXCEPT ![u] = now]
     /\ Used(row[r])
     /\ Over(r)
     /\ UNCHANGED <<sessions, privacy, holders>>

\* Every session that has been committed is revoked.
ResetPassword(r, u) ==
  /\ step[r] = "use_code" /\ Subject(r, u) /\ codes[row[r]].type = "password_reset"
  /\ Used(row[r])
  /\ sessions' = [s \in Sessions |->
       IF sessions[s].owner = {u} /\ sessions[s].state = "live"
       THEN [sessions[s] EXCEPT !.state = "revoked"] ELSE sessions[s]]
  /\ Over(r)
  /\ UNCHANGED <<account, privacy, holders>>
-----------------------------------------------------------------------------
(* Sessions. *)

\* login looks the account up by its address; the session is inserted later.
Login(r, u) ==
  /\ Active(u) /\ account[u].named /\ account[u].verified
  /\ Enter(r, "open_session", u, 0)
  /\ UNCHANGED rowVars

\* socialLogin: by the social account, by the address, or as a new user, whose
\* row the unique address lets only one transaction insert.
SocialLogin(r, u) ==
  /\ \/ /\ Active(u) /\ UNCHANGED account
        /\ Enter(r, "open_session", u, 0) \/ Enter(r, "link", u, 0)
     \/ /\ account[u].status = "none"
        /\ account' = [account EXCEPT ![u] = [NoAccount EXCEPT
             !.status = "active", !.named = TRUE, !.verified = TRUE]]
        /\ Enter(r, "open_session", u, 0)
  /\ UNCHANGED <<sessions, codes, privacy, holders>>

\* The account found by its address.
Link(r, u) ==
  /\ step[r] = "link" /\ Subject(r, u)
  /\ account' = [account EXCEPT ![u].verified = TRUE]
  /\ Continue(r, "open_session")
  /\ UNCHANGED <<sessions, codes, privacy, holders>>

OpenSession(r, u) ==
  /\ step[r] = "open_session" /\ Subject(r, u)
  /\ \E s \in First(NewSessions) :
       sessions' = [sessions EXCEPT ![s] = NewSession(u, {})]
  /\ holders' = holders \cup {u}
  /\ Over(r)
  /\ UNCHANGED <<account, codes, privacy>>

\* refreshToken reads the session and its user; it rotates them later.
ReadSession(r, s) ==
  /\ sessions[s].state = "live"
  /\ \E u \in sessions[s].owner : Active(u) /\ Enter(r, "rotate", u, s)
  /\ UNCHANGED rowVars

\* A fault: the number of rows updated is not looked at.
RotateAnyway(r, u) ==
  /\ step[r] = "rotate" /\ Subject(r, u)
  /\ \E t \in First(NewSessions) :
       sessions' = [s \in Sessions |->
         IF s = t THEN NewSession(u, {row[r]})
         ELSE IF s = row[r] /\ sessions[s].state = "live"
              THEN [sessions[s] EXCEPT !.state = "revoked"] ELSE sessions[s]]
  /\ holders' = holders \cup {u}
  /\ Over(r)
  /\ UNCHANGED <<account, codes, privacy>>

\* UPDATE ... WHERE is_revoked = false must have changed one row.
Rotate(r, u) ==
  /\ step[r] = "rotate" /\ Subject(r, u) /\ sessions[row[r]].state = "live"
  /\ \E t \in First(NewSessions) :
       sessions' = [sessions EXCEPT ![row[r]].state = "revoked",
                                    ![t] = NewSession(u, {row[r]})]
  /\ holders' = holders \cup {u}
  /\ Over(r)
  /\ UNCHANGED <<account, codes, privacy>>

Logout(s) ==
  /\ sessions[s].state = "live" /\ \E u \in sessions[s].owner : Authenticated(u)
  /\ sessions' = [sessions EXCEPT ![s].state = "revoked"]
  /\ UNCHANGED <<account, codes, privacy, holders, jobVars>>

\* revokeSecuritySession reads the row and saves it, also when it is gone.
ReadOwnSession(r, s) ==
  /\ sessions[s].state = "live"
  /\ \E u \in sessions[s].owner : Authenticated(u) /\ Enter(r, "save_session", u, s)
  /\ UNCHANGED rowVars

SaveSession(r) ==
  /\ step[r] = "save_session"
  /\ sessions' = [sessions EXCEPT ![row[r]].state = "revoked"]
  /\ Over(r)
  /\ UNCHANGED <<account, codes, privacy, holders>>
-----------------------------------------------------------------------------
(* UsersService. *)

AdminActs(a, u) == Authenticated(a) /\ account[a].admin /\ account[u].status # "none"
\* assertAnotherActiveAdmin, of an administrator's row, counted without a lock.
AnotherAdmin(u) ==
  account[u].admin =>
    \E b \in Users \ {u} : account[b].admin /\ account[b].status = "active"

AdminCreate(a, u) ==
  /\ Authenticated(a) /\ account[a].admin /\ account[u].status = "none"
  /\ account' = [account EXCEPT ![u] = [NoAccount EXCEPT !.status = "active", !.named = TRUE]]
  /\ UNCHANGED <<sessions, codes, privacy, holders, jobVars>>

\* update, of the status, to any there is, or of the role.  Nobody ends his own
\* access, but everybody may make himself wait for verification.
CheckUpdate(r, a, u) ==
  /\ AdminActs(a, u)
  /\ \/ \E s \in {"enable", "unverify"} : Enter(r, s, u, 0)
     \/ /\ a # u /\ AnotherAdmin(u)
        /\ \E s \in {"disable", "strike", "demote"} : Enter(r, s, u, 0)
  /\ UNCHANGED rowVars

Update == [enable |-> "active", unverify |-> "pending_verification",
           disable |-> "disabled", strike |-> "deleted"]
Updated(u, s) == IF s = "demote" THEN [account[u] EXCEPT !.admin = FALSE]
                                 ELSE [account[u] EXCEPT !.status = Update[s]]
\* The sessions stay, whatever the status is now.
WriteUpdate(r, u) ==
  /\ step[r] \in {"demote"} \cup DOMAIN Update /\ Subject(r, u)
  /\ Storable(Updated(u, step[r]))
  /\ account' = [account EXCEPT ![u] = Updated(u, step[r])]
  /\ Over(r)
  /\ UNCHANGED <<sessions, codes, privacy, holders>>

\* remove reads the whole row and saves it as disabled and archived.
CheckRemove(r, a, u) ==
  /\ AdminActs(a, u) /\ a # u /\ AnotherAdmin(u)
  /\ Enter(r, "save_disabled", u, 0)
  /\ UNCHANGED rowVars

SaveDisabled(r, u) ==
  /\ step[r] = "save_disabled" /\ Subject(r, u) /\ Storable(seen[r])
  /\ account' = [account EXCEPT ![u] = seen[r]]
  /\ Continue(r, "delete_sessions")
  /\ UNCHANGED <<sessions, codes, privacy, holders>>

Gone(rows, u) == [s \in DOMAIN rows |->
  IF rows[s].owner = {u} THEN [rows[s] EXCEPT !.state = "deleted"] ELSE rows[s]]

DeleteSessions(r, u) ==
  /\ step[r] = "delete_sessions" /\ Subject(r, u)
  /\ sessions' = Gone(sessions, u)
  /\ Over(r)
  /\ UNCHANGED <<account, codes, privacy, holders>>
-----------------------------------------------------------------------------
(* CustomersService. *)

\* updateProfile saves the name in the user row it has read.
ReadProfile(r, u) ==
  /\ Authenticated(u)
  /\ Enter(r, "save_name", u, 0)
  /\ UNCHANGED rowVars

SaveName(r, u) ==
  /\ step[r] = "save_name" /\ Subject(r, u) /\ Storable(seen[r])
  /\ account' = [account EXCEPT ![u] = seen[r]]
  /\ Over(r)
  /\ UNCHANGED <<sessions, codes, privacy, holders>>

CreatePrivacyRequest(u) ==
  \E t \in PrivacyTypes, p \in First({q \in Privacy : privacy[q].status = "none"}) :
    /\ Authenticated(u)
    /\ privacy' = [privacy EXCEPT ![p] = [owner |-> {u}, type |-> t,
                                          status |-> "pending", fulfilled |-> 0]]
    /\ UNCHANGED <<account, sessions, codes, holders, jobVars>>

\* A fault: the request is read without a lock.
LockPrivacyNever(r, p) ==
  /\ privacy[p].status = "pending"
  /\ \E u \in privacy[p].owner : Authenticated(u) /\ Enter(r, "fulfill", u, p)
  /\ UNCHANGED rowVars

\* fulfillPrivacyRequest locks the request; one that is completed is refused.
LockPrivacy(r, p) ==
  /\ privacy[p].status = "pending"
  /\ ~ \E q \in Requests : step[q] = "fulfill" /\ row[q] = p
  /\ \E u \in privacy[p].owner : Authenticated(u) /\ Enter(r, "fulfill", u, p)
  /\ UNCHANGED rowVars

Completed(p) == privacy' = [privacy EXCEPT ![p].status = "completed", ![p].fulfilled = @ + 1]
Restrict(r) ==
  /\ step[r] = "fulfill" /\ privacy[row[r]].type = "restriction"
  /\ Completed(row[r])
  /\ Over(r)
  /\ UNCHANGED <<account, sessions, codes, holders>>

\* anonymizeAccount
Anonymous(a) == [a EXCEPT !.status = "deleted", !.archived = TRUE, !.named = FALSE,
                          !.verified = FALSE]
Anonymize(r, u) ==
  /\ step[r] = "fulfill" /\ Subject(r, u) /\ privacy[row[r]].type = "deletion"
  /\ \A c \in Codes : codes[c].owner = {u} => ~CodeHeld(c)
  /\ account' = [account EXCEPT ![u] = Anonymous(@)]
  /\ sessions' = [s \in Sessions |->
       IF sessions[s].owner = {u}
       THEN [Gone(sessions, u)[s] EXCEPT !.erased = TRUE] ELSE sessions[s]]
  /\ codes' = Gone(codes, u)
  /\ Completed(row[r])
  /\ Over(r)
  /\ UNCHANGED holders

\* A request is refused for what is not modelled, or it or the API dies.
Fail(r) == step[r] # "idle" /\ Over(r) /\ UNCHANGED rowVars
-----------------------------------------------------------------------------
\* The routes of the four controllers, behind their guards.
AuthRequests(r) ==
  \/ \E u \in Customers : \/ Register(r, u) \/ RequestVerification(r, u) \/ RequestReset(r, u)
                          \/ Login(r, u) \/ SocialLogin(r, u)
  \/ \E c \in Codes : PresentCode(r, c)
  \/ \E s \in Sessions : ReadSession(r, s)
UsersRequests(r) ==
  \E a \in Users, u \in Customers : CheckUpdate(r, a, u) \/ CheckRemove(r, a, u)
CustomersRequests(r) ==
  \/ \E u \in Customers : ReadProfile(r, u)
  \/ \E s \in Sessions : ReadOwnSession(r, s)
PrivacyRequests(r) == \E p \in Privacy : LockPrivacy(r, p)
Arrive(r) ==
  AuthRequests(r) \/ UsersRequests(r) \/ CustomersRequests(r) \/ PrivacyRequests(r)

Handle(r) ==
  \/ ConsumeCodes(r) \/ InsertCode(r) \/ SaveSession(r) \/ Restrict(r)
  \/ \E u \in Users : \/ VerifyEmail(r, u) \/ ResetPassword(r, u) \/ Link(r, u)
                      \/ OpenSession(r, u) \/ Rotate(r, u) \/ WriteUpdate(r, u)
                      \/ SaveDisabled(r, u) \/ DeleteSessions(r, u) \/ SaveName(r, u)
                      \/ Anonymize(r, u)

Next ==
  \/ \E r \in Requests : Arrive(r) \/ Handle(r) \/ Fail(r)
  \/ \E s \in Sessions : Logout(s)
  \/ \E u \in Customers : CreatePrivacyRequest(u)
  \/ \E a, u \in Users : AdminCreate(a, u)

Spec == Init /\ [][Next]_vars
-----------------------------------------------------------------------------
\* A refresh token is exchanged for one successor, however many requests
\* present it, and is of no use afterwards.
RotatedOnce ==
  \A s, t \in Sessions :
    /\ sessions[s].from # {} /\ sessions[s].from = sessions[t].from => s = t
    /\ s \in sessions[t].from => /\ sessions[s].state # "live"
                                 /\ sessions[s].owner = sessions[t].owner

\* A mailed code changes an account once, and not any more when a newer code,
\* another request or the deletion of the account has ended it.
CodeUsedOnce ==
  \A c \in Codes : codes[c].uses <= 1 /\ (codes[c].state = "live" => codes[c].uses = 0)

\* A privacy request is fulfilled once, also when its button is pressed twice or
\* the answer of the first attempt was lost (fulfillPrivacyRequest).
FulfilledOnce ==
  \A p \in Privacy : privacy[p].fulfilled = IF privacy[p].status = "completed" THEN 1 ELSE 0

\* The sessions of an account end with the privacy request that deletes it: none
\* is exchanged for another afterwards, although refreshToken looked at session
\* and account before the deletion, revokeSecuritySession inserts a row again
\* that is gone, and a stale save may have revived the account.
DeletedIsNotRefreshed ==
  [][\A s, t \in Sessions :
       sessions[t].state = "none" /\ sessions'[t].from = {s} => ~sessions[s].erased]_vars
=============================================================================
