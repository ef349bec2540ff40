------------------------------- MODULE Accounts -------------------------------
(***************************************************************************)
(* Accounts, sessions and expert applications (user service, Postgres).    *)
(*                                                                         *)
(* Every use case reads the account first and writes, or signs tokens,     *)
(* later; only the write and its outbox rows are one transaction.  Most    *)
(* writes touch single columns; verifying an email writes the whole row    *)
(* back from the copy it read.  What overlapping calls can do to an        *)
(* account is tracked in mixed, so that each property says what holds in   *)
(* any case and what holds for accounts whose calls did not overlap.       *)
(* Tokens are kept for good: one that has expired is one nobody uses.      *)
(***************************************************************************)
EXTENDS Gateway

CONSTANTS
  Emails,     \* the key of an account
  Staff,      \* the emails administrators are created for
  Names,      \* usernames
  Calls,      \* use cases under way at once
  MaxBlocks   \* bound on changes of an account's block status

ASSUME AccountsAssumption ==
  /\ Staff \subseteq Emails
  /\ MaxBlocks \in Nat

VARIABLES
  users,        \* the users table, by email
  profiles,     \* profile rows of each account, by kind
  application,  \* status of each account's expert application
  outbox,       \* how often each event was committed for each account
  call,         \* what each call works with
  sessions,     \* roles each account was given tokens for
  bloom,        \* usernames in the Bloom filter of the process
  mixed,        \* history: accounts written while a call held a copy
  blockedBy     \* history: the block status an admin last set, and how often

data == <<users, profiles, application, outbox>>
past == <<mixed, blockedBy>>
vars == <<data, call, sessions, bloom, past>>

NoUser == [role |-> "none"]
NoName == "none"
Idle == [op |-> "none"]
Statuses == {"none", "pending", "approved", "rejected"}
ProfileKinds == {"user", "expert"}
(* The events that are counted; no property is about user.profileUpdated,  *)
(* auth.providerLinked, expert.application.submitted and the request for   *)
(* another verification link.                                              *)
EventNames == {"registered", "verified", "onboarded", "approved", "rejected"}

Account == [role : Roles, verified : BOOLEAN, blocked : BOOLEAN,
            google : BOOLEAN, password : BOOLEAN, name : Names \cup {NoName}]

NewAccount(role, verified, google, password) ==
  [role |-> role, verified |-> verified, blocked |-> FALSE, google |-> google,
   password |-> password, name |-> NoName]

Exists(e) == users[e] # NoUser

Init ==
  /\ users = [e \in Emails |-> NoUser]
  /\ profiles = [e \in Emails |-> [k \in ProfileKinds |-> 0]]
  /\ application = [e \in Emails |-> "none"]
  /\ outbox = [e \in Emails |-> [n \in EventNames |-> 0]]
  /\ call = [c \in Calls |-> Idle]
  /\ sessions = [e \in Emails |-> {}]
  /\ bloom = {} /\ mixed = {}
  /\ blockedBy = [e \in Emails |-> [status |-> FALSE, times |-> 0]]

-----------------------------------------------------------------------------
(* Steps of every use case.  A call keeps what it will use of what it was  *)
(* asked for and of what it read: a role, a username, the whole row.       *)

Step(op, stage, e, keeps) ==
  [op |-> op, stage |-> stage, email |-> e, keeps |-> keeps]

Start(c, r) == call' = [call EXCEPT ![c] = r]
At(c, op, stage) == call[c] # Idle /\ call[c].op = op /\ call[c].stage = stage
Goto(c, stage, keeps) ==
  call' = [call EXCEPT ![c].stage = stage, ![c].keeps = keeps]
Finish(c) == call' = [call EXCEPT ![c] = Idle]

Publish(e, names) ==
  outbox' = [outbox EXCEPT ![e] = [n \in EventNames |->
                                     @[n] + IF n \in names THEN 1 ELSE 0]]

(* GenerateAccessToken looks at the account only when the refresh token is *)
(* an applicant's, whose role may have changed, and never at the block     *)
(* status.                                                                 *)
ReadsAccount(role) == role = "EXPERT_APPLICANT"

(* A row of the account is written: other calls that go by what they read  *)
(* of it are stale from here on.                                           *)
GoesByRow(r) ==
  /\ r # Idle /\ r.stage # "create" /\ r.op # "rename"
  /\ r.op = "refresh" => ReadsAccount(r.keeps)

Touch(e, others) ==
  mixed' = IF \E d \in others : GoesByRow(call[d]) /\ call[d].email = e
           THEN mixed \cup {e} ELSE mixed

(* A session is a refresh token and an access token of the role the call   *)
(* holds; a refresh token is good for access tokens of its role.           *)
Sign(e, role) == sessions' = [sessions EXCEPT ![e] = @ \cup {role}]

May(e, route) == \E role \in sessions[e] : Admits(route, Token(role))

(* Mutant: the email column is not unique.                                 *)
FreeAlways(e) == TRUE
(* The unique constraint on the email refuses a second account.            *)
Free(e) == ~Exists(e)

Insert(e, account, kinds, names) ==
  /\ users' = [users EXCEPT ![e] = account]
  /\ profiles' = [profiles EXCEPT ![e] = [k \in ProfileKinds |->
                    IF k \in kinds THEN 1 ELSE 0]]
  /\ Publish(e, names)

(* A transaction that fails ends its call.                                 *)
Fail(c) ==
  /\ Finish(c)
  /\ UNCHANGED <<data, sessions, bloom, past>>

-----------------------------------------------------------------------------
(* RegisterUser: looks for the email, inserts account, profile and event,  *)
(* and opens a session before the email is verified.                       *)

RegisterCheck(c, e) ==
  /\ e \notin Staff /\ ~Exists(e)
  /\ Start(c, Step("register", "create", e, "USER"))
  /\ UNCHANGED <<data, sessions, bloom, past>>

RegisterCreate(c) ==
  LET e == call[c].email IN
  /\ At(c, "register", "create")
  /\ Free(e)
  /\ Insert(e, NewAccount("USER", FALSE, FALSE, TRUE), {"user"}, {"registered"})
  /\ Goto(c, "sign", "USER")
  /\ UNCHANGED <<application, sessions, bloom, past>>

(* RegisterExpert relies on the unique email alone, and opens no session.  *)
RegisterExpert(e) ==
  /\ e \notin Staff /\ Free(e)
  /\ Insert(e, NewAccount("EXPERT_APPLICANT", FALSE, FALSE, TRUE), {}, {"registered"})
  /\ UNCHANGED <<application, call, sessions, bloom, past>>

(* CreateAdmin writes no event; the profile it adds in a second write, in  *)
(* no transaction, is read by no use case of this module and left out.     *)
CreateAdmin(e) ==
  /\ e \in Staff /\ Free(e)
  /\ Insert(e, NewAccount("ADMIN", TRUE, FALSE, TRUE), {}, {})
  /\ UNCHANGED <<application, call, sessions, bloom, past>>

-----------------------------------------------------------------------------
(* GoogleAuth: finds the account, or creates one that is verified; links   *)
(* an account that has only a password; and opens a session.               *)

GoogleFind(c, e, role) ==
  /\ e \in Staff => Exists(e)
  /\ IF Exists(e)
     THEN /\ ~users[e].blocked
          /\ Start(c, Step("google", IF users[e].google THEN "sign" ELSE "link",
                           e, users[e].role))
     ELSE Start(c, Step("google", "create", e, role))
  /\ UNCHANGED <<data, sessions, bloom, past>>

GoogleCreate(c) ==
  LET e == call[c].email
      role == call[c].keeps
      account == NewAccount(role, TRUE, TRUE, FALSE) IN
  /\ At(c, "google", "create")
  /\ Free(e)
  /\ IF role = "USER"
     THEN Insert(e, account, {"user"}, {"registered", "verified"})
     ELSE Insert(e, account, {}, {"registered", "verified"})
  /\ Goto(c, "sign", role)
  /\ UNCHANGED <<application, sessions, bloom, past>>

(* The row that comes back from the update is fresh, its block status is   *)
(* not looked at.                                                          *)
GoogleLink(c) ==
  LET e == call[c].email IN
  /\ At(c, "google", "link")
  /\ users' = [users EXCEPT ![e].google = TRUE]
  /\ Touch(e, Calls \ {c})
  /\ Goto(c, "sign", users[e].role)
  /\ UNCHANGED <<profiles, application, outbox, sessions, bloom, blockedBy>>

(* The insert hits the unique email.                                       *)
CreateRefused(c) ==
  /\ call[c].op \in {"register", "google"} /\ call[c].stage = "create"
  /\ ~Free(call[c].email)
  /\ Fail(c)

-----------------------------------------------------------------------------
(* LoginUser: an applicant has to verify the email first.                  *)

(* Mutant: nobody has to.                                                  *)
MayLogInUnverified(account) == account.password /\ ~account.blocked
MayLogIn(account) ==
  /\ account.password /\ ~account.blocked
  /\ account.role = "EXPERT_APPLICANT" => account.verified

Login(c, e) ==
  /\ Exists(e) /\ MayLogIn(users[e])
  /\ Start(c, Step("login", "sign", e, users[e].role))
  /\ UNCHANGED <<data, sessions, bloom, past>>

OpenSession(c) ==
  /\ call[c].op \in {"register", "google", "login"} /\ call[c].stage = "sign"
  /\ Sign(call[c].email, call[c].keeps)
  /\ Finish(c)
  /\ UNCHANGED <<data, bloom, past>>

(* GenerateAccessToken.                                                    *)

(* Mutant: a refresh token is good for its role whatever has become of it. *)
StillHeldAlways(e, role) == TRUE
StillHeld(e, role) == ReadsAccount(role) => users[e].role = role

Refresh(c, e, role) ==
  /\ role \in sessions[e] /\ StillHeld(e, role)
  /\ Start(c, Step("refresh", "sign", e, role))
  /\ UNCHANGED <<data, sessions, bloom, past>>

RefreshSign(c) ==
  /\ At(c, "refresh", "sign")
  /\ Sign(call[c].email, call[c].keeps)
  /\ Finish(c)
  /\ UNCHANGED <<data, bloom, past>>
-----------------------------------------------------------------------------
(* VerifyUser: the copy that was read, with the email verified, replaces   *)
(* the row; only a username the copy does not have is left alone.          *)

VerifyRead(c, e) ==
  /\ Exists(e) /\ ~users[e].verified
  /\ Start(c, Step("verify", "write", e, users[e]))
  /\ UNCHANGED <<data, sessions, bloom, past>>

Restored(now, copy) ==
  [copy EXCEPT !.verified = TRUE, !.name = IF @ = NoName THEN now.name ELSE @]

(* Mutant: the username column is not unique.                              *)
TakenNever(e, name) == FALSE
Taken(e, name) == name # NoName /\ \E d \in Emails \ {e} : Exists(d) /\ users[d].name = name

VerifyWrite(c) ==
  LET e == call[c].email
      row == Restored(users[e], call[c].keeps) IN
  /\ At(c, "verify", "write")
  /\ ~Taken(e, row.name)
  /\ users' = [users EXCEPT ![e] = row]
  /\ Publish(e, {"verified"})
  /\ Touch(e, Calls \ {c}) /\ Finish(c)
  /\ UNCHANGED <<profiles, application, sessions, bloom, blockedBy>>

-----------------------------------------------------------------------------
(* SubmitExpertApplication: one transaction; an applicant has one          *)
(* application (expert_id is unique).                                      *)

Submit(e) ==
  /\ May(e, "apply") /\ application[e] = "none"
  /\ application' = [application EXCEPT ![e] = "pending"]
  /\ UNCHANGED <<users, profiles, outbox, call, sessions, bloom, past>>

(* Mutant: only one that was rejected cannot be reviewed again.            *)
ReviewableUnlessRejected(e) == application[e] \in {"pending", "approved"}
(* An administrator reviews an application that is pending when it is read.*)
Reviewable(e) == application[e] = "pending"

ReviewOpen(c, e, op) ==
  /\ \E a \in Emails : May(a, "applications")
  /\ Reviewable(e)
  /\ Start(c, Step(op, IF op = "approve" THEN "applicant" ELSE "write", e, "none"))
  /\ UNCHANGED <<data, sessions, bloom, past>>

(* ApproveExpertApplication goes on to read the applicant, who must not be *)
(* an expert yet,                                                          *)
ApproveCheck(c) ==
  /\ At(c, "approve", "applicant")
  /\ IF users[call[c].email].role = "EXPERT_APPLICANT"
     THEN Goto(c, "write", "none") ELSE Finish(c)
  /\ UNCHANGED <<data, sessions, bloom, past>>

(* and commits status, role, profile and two events.                       *)
ApproveWrite(c) ==
  LET e == call[c].email IN
  /\ At(c, "approve", "write")
  /\ application' = [application EXCEPT ![e] = "approved"]
  /\ users' = [users EXCEPT ![e].role = "EXPERT"]
  /\ profiles' = [profiles EXCEPT ![e].expert = @ + 1]
  /\ Publish(e, {"onboarded", "approved"})
  /\ Touch(e, Calls \ {c}) /\ Finish(c)
  /\ UNCHANGED <<sessions, bloom, blockedBy>>

RejectWrite(c) ==
  LET e == call[c].email IN
  /\ At(c, "reject", "write")
  /\ application' = [application EXCEPT ![e] = "rejected"]
  /\ Publish(e, {"rejected"})
  /\ Touch(e, Calls \ {c}) /\ Finish(c)
  /\ UNCHANGED <<users, profiles, sessions, bloom, blockedBy>>

(* UpdateUserBlockStatus writes one column, and no event.                  *)
Block(e, status) ==
  /\ \E a \in Emails : May(a, "blockStatus")
  /\ Exists(e) /\ blockedBy[e].times < MaxBlocks
  /\ users' = [users EXCEPT ![e].blocked = status]
  /\ blockedBy' = [blockedBy EXCEPT ![e] = [status |-> status, times |-> @.times + 1]]
  /\ Touch(e, Calls)
  /\ UNCHANGED <<profiles, application, outbox, call, sessions, bloom>>

-----------------------------------------------------------------------------
(* UpdateUsername.  CheckUsernameAvailability asks the database only about *)
(* names the Bloom filter may hold.  A name it holds by mistake is one the *)
(* database answers for, which starts no call that this guard would not.   *)
(* The name joins the filter after the transaction.                        *)

Available(n) == n \in bloom => \A d \in Emails : Exists(d) => users[d].name # n

NameCheck(c, e, n) ==
  /\ May(e, "me")
  /\ Available(n)
  /\ Start(c, Step("rename", "write", e, n))
  /\ UNCHANGED <<data, sessions, bloom, past>>

NameWrite(c) ==
  LET e == call[c].email IN
  /\ At(c, "rename", "write")
  /\ ~Taken(e, call[c].keeps)
  /\ users' = [users EXCEPT ![e].name = call[c].keeps]
  /\ Touch(e, Calls \ {c}) /\ Goto(c, "add", call[c].keeps)
  /\ UNCHANGED <<profiles, application, outbox, sessions, bloom, blockedBy>>

NameAdd(c) ==
  /\ At(c, "rename", "add")
  /\ bloom' = bloom \cup {call[c].keeps}
  /\ Finish(c)
  /\ UNCHANGED <<data, sessions, past>>

(* The write hits the unique username: of a rename, or of a verification   *)
(* that would give back the name its copy had.                             *)
NameRefused(c) ==
  /\ \/ At(c, "rename", "write") /\ Taken(call[c].email, call[c].keeps)
     \/ /\ At(c, "verify", "write")
        /\ Taken(call[c].email, Restored(users[call[c].email], call[c].keeps).name)
  /\ Fail(c)

(* Mutant: the process starts to serve before the filter is filled.        *)
StartFilterEmpty(table) == {}
(* start: the filter holds every username before the process serves.       *)
StartFilter(table) == {table[e].name : e \in {d \in Emails : table[d] # NoUser}} \ {NoName}

Crash ==
  /\ \E c \in Calls : call[c] # Idle
  /\ call' = [c \in Calls |-> Idle]
  /\ bloom' = StartFilter(users)
  /\ UNCHANGED <<data, sessions, past>>

-----------------------------------------------------------------------------
AuthStep(c) ==
  \/ RegisterCreate(c) \/ GoogleCreate(c) \/ GoogleLink(c) \/ CreateRefused(c)
  \/ OpenSession(c) \/ RefreshSign(c) \/ VerifyWrite(c)

ReviewStep(c) == ApproveCheck(c) \/ ApproveWrite(c) \/ RejectWrite(c)

NameStep(c) == NameWrite(c) \/ NameAdd(c) \/ NameRefused(c)

StartCall(c, e) ==
  \/ RegisterCheck(c, e)
  \/ \E role \in {"USER", "EXPERT_APPLICANT"} : GoogleFind(c, e, role)
  \/ Login(c, e) \/ VerifyRead(c, e)
  \/ \E role \in Roles : Refresh(c, e, role)
  \/ \E op \in {"approve", "reject"} : ReviewOpen(c, e, op)
  \/ \E n \in Names : NameCheck(c, e, n)

Next ==
  \/ \E c \in Calls : call[c] = Idle /\ \E e \in Emails : StartCall(c, e)
  \/ \E c \in Calls : /\ call[c] # Idle
                       /\ (AuthStep(c) \/ ReviewStep(c) \/ NameStep(c))
  \/ \E e \in Emails : \/ RegisterExpert(e) \/ CreateAdmin(e) \/ Submit(e)
                        \/ \E status \in BOOLEAN : Block(e, status)
  \/ Crash

Spec == Init /\ [][Next]_vars
-----------------------------------------------------------------------------
(* Properties.                                                             *)

(* Every variable has its type; accounts have distinct usernames and calls *)
(* work with rows as they are in the table.                                *)
Ops == {"register", "google", "login", "refresh", "verify", "approve",
        "reject", "rename"}
TypeOK ==
  /\ users \in [Emails -> Account \cup {NoUser}]
  /\ profiles \in [Emails -> [ProfileKinds -> Nat]]
  /\ application \in [Emails -> Statuses]
  /\ outbox \in [Emails -> [EventNames -> Nat]]
  /\ \A c \in Calls : call[c] # Idle =>
       /\ call[c].op \in Ops /\ call[c].email \in Emails
       /\ call[c].stage \in {"create", "link", "sign", "applicant", "write", "add"}
       /\ CASE call[c].op = "verify" -> call[c].keeps \in Account
            [] call[c].op = "rename" -> call[c].keeps \in Names
            [] OTHER -> call[c].keeps \in Roles \cup {"none"}
  /\ sessions \in [Emails -> SUBSET Roles]
  /\ bloom \subseteq Names /\ mixed \subseteq Emails
  /\ blockedBy \in [Emails -> [status : BOOLEAN, times : 0..MaxBlocks]]
  /\ \A e, d \in Emails : e # d /\ Exists(e) /\ Exists(d) /\ users[e].name # NoName
                           => users[e].name # users[d].name

(* The review of an application comes out one way.  Unless an account was  *)
(* written under a call that held a copy of it, an expert is an account    *)
(* with an approved application and one expert profile, nobody hears both  *)
(* of an approval and of a rejection, and the account is blocked exactly   *)
(* when an administrator last said so (ApproveExpertApplication,           *)
(* RejectExpertApplication, VerifyUser, UpdateUserBlockStatus).            *)
AccountSettled ==
  \A e \in Emails \ mixed : Exists(e) =>
    /\ users[e].role = "EXPERT" <=> application[e] = "approved"
    /\ profiles[e].expert = IF application[e] = "approved" THEN 1 ELSE 0
    /\ outbox[e].approved = 0 \/ outbox[e].rejected = 0
    /\ users[e].blocked = blockedBy[e].status

(* In every interleaving the outbox tells what became of the account: who  *)
(* has an account that is not an administrator's was announced once;       *)
(* verified rows, expert profiles and reviewed applications have their     *)
(* events, and no event is for something that was not committed            *)
(* (UnitOfWork.transact of each use case).                                 *)
EventsTellAccount ==
  \A e \in Emails :
    LET has(n) == outbox[e][n] > 0
        account == Exists(e) /\ users[e].role # "ADMIN" IN
    /\ outbox[e].registered = IF account THEN 1 ELSE 0
    /\ has("verified") <=> account /\ users[e].verified
    /\ outbox[e].onboarded = profiles[e].expert
    /\ outbox[e].approved = outbox[e].onboarded
    /\ application[e] = "approved" => has("approved")
    /\ application[e] = "rejected" => has("rejected")
    /\ has("approved") \/ has("rejected") => application[e] \in {"approved", "rejected"}

(* A token opens the routes of experts only to accounts an administrator   *)
(* approved, those of administrators only to accounts made for the staff,  *)
(* and those of applicants to no account that has the profile of a user    *)
(* or an email nobody vouched for (routeManifest, JwtService, the use      *)
(* cases that sign).                                                       *)
RoutesAreEarned ==
  \A e \in Emails :
    /\ May(e, "workshops") => outbox[e].approved > 0
    /\ May(e, "applications") \/ May(e, "blockStatus") => e \in Staff
    /\ May(e, "apply") => /\ profiles[e].user = 0
                          /\ users[e].verified \/ users[e].google

(* A token is signed for the role the account has at that moment, and a    *)
(* session opened for no account that is blocked, unless the account was   *)
(* written while the call held a copy (GenerateAccessToken, LoginUser,     *)
(* GoogleAuth).                                                            *)
SignedIsCurrent ==
  [][\A c \in Calls : LET e == call[c].email IN
       /\ OpenSession(c) /\ e \notin mixed =>
            call[c].keeps = users[e].role /\ ~users[e].blocked
       /\ RefreshSign(c) /\ e \notin mixed => call[c].keeps = users[e].role]_vars

(* The Bloom filter holds every username in the table, but for one that a  *)
(* call has committed and is about to add, so that a name it does not hold *)
(* is free (CheckUsernameAvailability, start).                             *)
BloomCoversNames ==
  \A e \in Emails : Exists(e) /\ users[e].name \notin bloom \cup {NoName} =>
    \E c \in Calls : At(c, "rename", "add") /\ call[c].keeps = users[e].name
=============================================================================
