---------------------------- MODULE AccountsProofs ----------------------------
(***************************************************************************)
(* Proofs about Accounts, for any emails, staff, usernames and number of   *)
(* calls at once: the types, that sessions open only the routes their      *)
(* account has earned, that the events tell what became of an account, and *)
(* what holds of accounts whose calls did not overlap.                     *)
(***************************************************************************)
EXTENDS Accounts, TLAPS

-----------------------------------------------------------------------------
(* The inductive invariant.                                                *)

Stages == {"create", "link", "sign", "applicant", "write", "add"}
Keepsakes == Account \cup Names \cup Roles \cup {"none"}
CallRecord == [op : Ops, stage : Stages, email : Emails, keeps : Keepsakes]
CallsTyped == call \in [Calls -> CallRecord \cup {Idle}]

(* TypeOK without the calls and without the usernames being distinct.      *)
DataTyped ==
  /\ users \in [Emails -> Account \cup {NoUser}]
  /\ profiles \in [Emails -> [ProfileKinds -> Nat]]
  /\ application \in [Emails -> Statuses]
  /\ outbox \in [Emails -> [EventNames -> Nat]]
  /\ sessions \in [Emails -> SUBSET Roles]
  /\ bloom \subseteq Names /\ mixed \subseteq Emails
  /\ blockedBy \in [Emails -> [status : BOOLEAN, times : 0..MaxBlocks]]

(* What has to be so of an account for a role to be among its sessions.    *)
Earned(e, role) ==
  /\ role \in Roles
  /\ role = "USER" => profiles[e].user = 1
  /\ role = "ADMIN" => e \in Staff
  /\ role = "EXPERT" => /\ outbox[e].approved > 0
                        /\ e \notin mixed => users[e].role = "EXPERT"
  /\ role = "EXPERT_APPLICANT" =>
       /\ profiles[e].user = 0 /\ e \notin Staff
       /\ users[e].verified \/ users[e].google

(* Nothing is kept for an email without an account.                        *)
Fresh(e) ==
  /\ \A n \in EventNames : outbox[e][n] = 0
  /\ \A k \in ProfileKinds : profiles[e][k] = 0
  /\ application[e] = "none" /\ sessions[e] = {} /\ ~blockedBy[e].status

(* Administrators are staff, users have the profile of one, and only who   *)
(* has neither applies.                                                    *)
RowHolds(e) ==
  /\ users[e].role = "ADMIN" <=> e \in Staff
  /\ users[e].role = "ADMIN" => users[e].verified
  /\ users[e].role = "USER" <=> profiles[e].user = 1
  /\ profiles[e].user \in {0, 1}
  /\ users[e].role = "EXPERT" => outbox[e].approved > 0
  /\ application[e] # "none" => profiles[e].user = 0 /\ e \notin Staff

(* EventsTellAccount and AccountSettled, for one account.                  *)
Told(e) ==
  /\ outbox[e].registered = IF users[e].role # "ADMIN" THEN 1 ELSE 0
  /\ outbox[e].verified > 0 <=> users[e].role # "ADMIN" /\ users[e].verified
  /\ outbox[e].onboarded = profiles[e].expert
  /\ outbox[e].approved = outbox[e].onboarded
  /\ application[e] = "approved" => outbox[e].approved > 0
  /\ application[e] = "rejected" => outbox[e].rejected > 0
  /\ outbox[e].approved > 0 \/ outbox[e].rejected > 0
       => application[e] \in {"approved", "rejected"}

Settled(e) ==
  /\ users[e].role = "EXPERT" <=> application[e] = "approved"
  /\ profiles[e].expert = IF application[e] = "approved" THEN 1 ELSE 0
  /\ outbox[e].approved = 0 \/ outbox[e].rejected = 0
  /\ users[e].blocked = blockedBy[e].status

EmailHolds(e) ==
  /\ ~Exists(e) => Fresh(e)
  /\ Exists(e) => RowHolds(e) /\ Told(e) /\ (e \notin mixed => Settled(e))
  /\ \A role \in sessions[e] : Earned(e, role)

(* A username in the table or in a copy is in the filter or about to be.   *)
Adding(c, n) == At(c, "rename", "add") /\ call[c].keeps = n
Covered(n) == n \in bloom \cup {NoName} \/ \E c \in Calls : Adding(c, n)

NamesHold ==
  /\ \A e \in Emails : Exists(e) => Covered(users[e].name)
  /\ \A e, d \in Emails : e # d /\ Exists(e) /\ Exists(d) /\ users[e].name # NoName
                            => users[e].name # users[d].name

(* What a call under way relies on: what it read is true as long as the    *)
(* account is not mixed, and part of it is true in any case.               *)
CreateHolds(c) ==
  /\ call[c].email \notin Staff
  /\ call[c].keeps \in {"USER", "EXPERT_APPLICANT"}
  /\ call[c].op \in {"register", "google"}
  /\ call[c].op = "register" => call[c].keeps = "USER"

SignHolds(c) ==
  LET e == call[c].email IN
  /\ Earned(e, call[c].keeps)
  /\ e \notin mixed => call[c].keeps = users[e].role /\ ~users[e].blocked

RefreshHolds(c) ==
  LET e == call[c].email IN
  /\ call[c].stage = "sign" /\ call[c].keeps \in sessions[e]
  /\ ReadsAccount(call[c].keeps) /\ e \notin mixed => users[e].role = call[c].keeps

VerifyHolds(c) ==
  LET e == call[c].email  copy == call[c].keeps IN
  /\ call[c].stage = "write" /\ copy \in Account /\ Covered(copy.name)
  /\ copy.role # "ADMIN" /\ e \notin Staff
  /\ copy.role = "USER" <=> profiles[e].user = 1
  /\ copy.role = "EXPERT" => outbox[e].approved > 0
  /\ e \notin mixed => copy = users[e]

ReviewHolds(c) ==
  LET e == call[c].email IN
  /\ call[c].keeps = "none" /\ call[c].stage \in {"applicant", "write"}
  /\ application[e] # "none"
  /\ e \notin mixed => /\ application[e] = "pending"
                       /\ (call[c].op = "approve" /\ call[c].stage = "write")
                            => users[e].role = "EXPERT_APPLICANT"

CallHolds(c) ==
  LET e == call[c].email  op == call[c].op  stage == call[c].stage IN
  /\ stage = "create" => CreateHolds(c)
  /\ stage # "create" => Exists(e)
  /\ op \in {"register", "google", "login"} => call[c].keeps \in Roles
  /\ stage = "link" => op = "google" /\ (e \notin mixed => ~users[e].blocked)
  /\ op \in {"register", "google", "login"} /\ stage = "sign" => SignHolds(c)
  /\ op = "refresh" => RefreshHolds(c)
  /\ op = "verify" => VerifyHolds(c)
  /\ op \in {"approve", "reject"} => ReviewHolds(c)
  /\ op = "rename" => call[c].keeps \in Names /\ stage \in {"write", "add"}

IInv ==
  /\ DataTyped /\ CallsTyped
  /\ \A e \in Emails : EmailHolds(e)
  /\ \A c \in Calls : call[c] # Idle => CallHolds(c)
  /\ NamesHold

-----------------------------------------------------------------------------
(* Routes and roles.                                                       *)

LEMMA RoleAdmits ==
  ASSUME NEW role \in Roles
  PROVE  /\ Admits("workshops", Token(role)) <=> role = "EXPERT"
         /\ Admits("applications", Token(role)) <=> role = "ADMIN"
         /\ Admits("blockStatus", Token(role)) <=> role = "ADMIN"
         /\ Admits("apply", Token(role)) <=> role = "EXPERT_APPLICANT"
<1>1. Verified(Token(role)) /\ Token(role) # NoToken /\ Token(role).role = role
  BY DEF Verified, Token, NoToken, Roles
<1>2. /\ {"workshops", "applications", "blockStatus", "apply"} \subseteq DOMAIN Protected
      /\ Protected["workshops"] = {"EXPERT"} /\ Protected["applications"] = {"ADMIN"}
      /\ Protected["blockStatus"] = {"ADMIN"} /\ Protected["apply"] = {"EXPERT_APPLICANT"}
  BY DEF Protected
<1>. QED BY <1>1, <1>2 DEF Admits

(* An account of a type, and none.                                         *)
LEMMA RowTypes ==
  ASSUME DataTyped, NEW e \in Emails
  PROVE  /\ users[e] \in Account \cup {NoUser}
         /\ Exists(e) <=> users[e] \in Account
         /\ profiles[e] \in [ProfileKinds -> Nat]
         /\ outbox[e] \in [EventNames -> Nat]
         /\ outbox[e].approved \in Nat /\ profiles[e].expert \in Nat
BY DEF DataTyped, Exists, Account, NoUser, Roles, EventNames, ProfileKinds

(* Publish adds one to the events it names.                                *)
LEMMA PublishAdds ==
  ASSUME DataTyped, NEW e \in Emails, NEW names \in SUBSET EventNames, Publish(e, names)
  PROVE  /\ outbox' \in [Emails -> [EventNames -> Nat]]
         /\ \A d \in Emails \ {e} : outbox'[d] = outbox[d]
         /\ \A n \in names : outbox'[e][n] = outbox[e][n] + 1
         /\ \A n \in EventNames \ names : outbox'[e][n] = outbox[e][n]
<1>1. outbox \in [Emails -> [EventNames -> Nat]]
  BY DEF DataTyped
<1>2. outbox'[e] = [n \in EventNames |-> outbox[e][n] + IF n \in names THEN 1 ELSE 0]
  BY <1>1 DEF Publish
<1>3. outbox'[e] \in [EventNames -> Nat]
  BY <1>1, <1>2
<1>. QED BY <1>1, <1>2, <1>3 DEF Publish

-----------------------------------------------------------------------------
(* What a step leaves alone still holds.                                   *)

SameRows(e) ==
  /\ users'[e] = users[e] /\ profiles'[e] = profiles[e]
  /\ outbox'[e] = outbox[e] /\ blockedBy'[e] = blockedBy[e]

SameAccount(e) == SameRows(e) /\ application'[e] = application[e]

LEMMA EarnedKept ==
  ASSUME NEW e, NEW role, Earned(e, role), SameRows(e), mixed \subseteq mixed'
  PROVE  Earned(e, role)'
BY DEF Earned, SameRows

LEMMA EmailKept ==
  ASSUME NEW e \in Emails, EmailHolds(e), SameAccount(e), mixed \subseteq mixed',
         sessions'[e] = sessions[e]
  PROVE  EmailHolds(e)'
<1>1. \A role \in sessions'[e] : Earned(e, role)'
  BY EarnedKept DEF EmailHolds, SameAccount
<1>. QED BY <1>1
     DEF EmailHolds, SameAccount, SameRows, Exists, Fresh, RowHolds, Told, Settled

(* So does what a call relies on, if what was covered still is; nobody     *)
(* relies on there being no application.                                   *)
LEMMA CallKept ==
  ASSUME NEW c \in Calls, call[c] # Idle, CallHolds(c), call'[c] = call[c],
         SameRows(call[c].email), mixed \subseteq mixed',
         \/ application[call[c].email] = "none"
         \/ application'[call[c].email] = application[call[c].email],
         sessions[call[c].email] \subseteq sessions'[call[c].email],
         \A n : Covered(n) => Covered(n)'
  PROVE  CallHolds(c)'
<1>. DEFINE e == call[c].email
<1>1. SignHolds(c) => SignHolds(c)'
  BY EarnedKept DEF SignHolds, SameRows
<1>2. VerifyHolds(c) => VerifyHolds(c)'
  BY DEF VerifyHolds, SameRows
<1>3. RefreshHolds(c) => RefreshHolds(c)'
  BY DEF RefreshHolds, SameRows
<1>4. ReviewHolds(c) => ReviewHolds(c)'
  BY DEF ReviewHolds, SameRows
<1>5. CreateHolds(c) => CreateHolds(c)'
  BY DEF CreateHolds
<1>6. Exists(e) => Exists(e)'
  BY DEF Exists, SameRows
<1>. QED BY <1>1, <1>2, <1>3, <1>4, <1>5, <1>6 DEF CallHolds, SameRows

LEMMA InvTypes == IInv => TypeOK
<1>. SUFFICES ASSUME IInv PROVE TypeOK
  OBVIOUS
<1>1. ASSUME NEW c \in Calls, call[c] # Idle
      PROVE  /\ call[c].op \in Ops /\ call[c].email \in Emails /\ call[c].stage \in Stages
             /\ CASE call[c].op = "verify" -> call[c].keeps \in Account
                  [] call[c].op = "rename" -> call[c].keeps \in Names
                  [] OTHER -> call[c].keeps \in Roles \cup {"none"}
  <2>1. call[c] \in CallRecord /\ CallHolds(c)
    BY <1>1 DEF IInv, CallsTyped
  <2>2. call[c].op \in Ops /\ call[c].email \in Emails /\ call[c].stage \in Stages
    BY <2>1 DEF CallRecord
  <2>3. sessions[call[c].email] \subseteq Roles
    BY <2>2 DEF IInv, DataTyped
  <2>. QED BY <2>1, <2>2, <2>3
           DEF CallHolds, VerifyHolds, RefreshHolds, ReviewHolds, Ops
<1>. QED BY <1>1 DEF IInv, DataTyped, NamesHold, TypeOK, Stages

LEMMA CoverageKept ==
  ASSUME bloom \subseteq bloom',
         \A c \in Calls : At(c, "rename", "add") =>
           call'[c] = call[c] \/ call[c].keeps \in bloom'
  PROVE  \A n : Covered(n) => Covered(n)'
<1>. SUFFICES ASSUME NEW n, Covered(n) PROVE Covered(n)'
  OBVIOUS
<1>1. CASE n \in bloom \cup {NoName}
  BY <1>1 DEF Covered
<1>2. ASSUME NEW c \in Calls, Adding(c, n) PROVE Covered(n)'
  <2>1. At(c, "rename", "add") /\ call[c].keeps = n
    BY <1>2 DEF Adding
  <2>2. CASE call'[c] = call[c]
    <3>1. Adding(c, n)'
      BY <2>1, <2>2 DEF Adding, At
    <3>. QED BY <3>1 DEF Covered
  <2>3. CASE call[c].keeps \in bloom'
    BY <2>1, <2>3 DEF Covered
  <2>. QED BY <2>1, <2>2, <2>3
<1>. QED BY <1>1, <1>2 DEF Covered

-----------------------------------------------------------------------------
(* Steps that change nothing but the call they belong to.                  *)

OnlyCall(c, r) ==
  /\ call' = [call EXCEPT ![c] = r]
  /\ UNCHANGED <<data, sessions, bloom, past>>

LEMMA OnlyCallHolds ==
  ASSUME IInv, NEW c \in Calls, NEW r \in CallRecord \cup {Idle}, OnlyCall(c, r),
         ~At(c, "rename", "add"), r # Idle => CallHolds(c)'
  PROVE  IInv'
<1>1. /\ UNCHANGED <<users, profiles, application, outbox, sessions, bloom, mixed, blockedBy>>
      /\ CallsTyped /\ CallsTyped' /\ call'[c] = r
      /\ \A d \in Calls \ {c} : call'[d] = call[d]
  BY DEF OnlyCall, IInv, CallsTyped, data, past
<1>2. \A n : Covered(n) => Covered(n)'
  BY <1>1, CoverageKept
<1>3. \A e \in Emails : SameAccount(e) /\ EmailHolds(e)'
  BY <1>1, EmailKept DEF IInv, SameAccount, SameRows
<1>4. ASSUME NEW d \in Calls, call'[d] # Idle PROVE CallHolds(d)'
  <2>1. CASE d = c
    BY <1>1, <2>1, <1>4
  <2>2. CASE d # c
    <3>1. call[d] # Idle /\ CallHolds(d) /\ call'[d] = call[d] /\ call[d].email \in Emails
      BY <1>1, <1>4, <2>2 DEF IInv, CallsTyped, CallRecord
    <3>. QED BY <1>1, <1>2, <1>3, <3>1, CallKept DEF SameAccount
  <2>. QED BY <2>1, <2>2
<1>5. NamesHold'
  BY <1>1, <1>2 DEF IInv, NamesHold, Exists
<1>6. DataTyped'
  BY <1>1 DEF IInv, DataTyped
<1>. QED BY <1>1, <1>3, <1>4, <1>5, <1>6 DEF IInv

LEMMA FailHolds ==
  ASSUME IInv, NEW c \in Calls, ~At(c, "rename", "add"), Fail(c)
  PROVE  IInv'
BY OnlyCallHolds DEF Fail, Finish, OnlyCall

(* What a call that is started works with.                                 *)
LEMMA StartFacts ==
  ASSUME IInv, NEW c \in Calls, NEW e \in Emails, NEW op \in Ops, NEW stage \in Stages,
         NEW keeps \in Keepsakes, OnlyCall(c, Step(op, stage, e, keeps))
  PROVE  /\ Step(op, stage, e, keeps) \in CallRecord
         /\ call'[c].op = op /\ call'[c].stage = stage
         /\ call'[c].email = e /\ call'[c].keeps = keeps
         /\ UNCHANGED <<users, profiles, application, outbox, sessions, bloom, mixed, blockedBy>>
         /\ EmailHolds(e) /\ Exists(e)' = Exists(e)
         /\ \A role \in Roles : Earned(e, role)' = Earned(e, role)
         /\ \A n : Covered(n) /\ ~At(c, "rename", "add") => Covered(n)'
<1>1. /\ Step(op, stage, e, keeps) \in CallRecord
      /\ call'[c] = Step(op, stage, e, keeps)
      /\ \A d \in Calls \ {c} : call'[d] = call[d]
  BY DEF Step, CallRecord, OnlyCall, IInv, CallsTyped
<1>2. UNCHANGED <<users, profiles, application, outbox, sessions, bloom, mixed, blockedBy>>
  BY DEF OnlyCall, data, past
<1>3. \A n : Covered(n) /\ ~At(c, "rename", "add") => Covered(n)'
  BY <1>1, <1>2, CoverageKept
<1>. QED BY <1>1, <1>2, <1>3 DEF Step, Exists, Earned, IInv

(* The role of an account is earned, and an email somebody has tokens or   *)
(* an application for has an account.                                      *)
LEMMA RoleEarned ==
  ASSUME NEW e \in Emails, users[e] \in Account, RowHolds(e),
         users[e].role = "EXPERT_APPLICANT" => users[e].verified \/ users[e].google
  PROVE  Earned(e, users[e].role)
BY DEF RowHolds, Earned, Account

LEMMA KnownExists ==
  ASSUME IInv, NEW e \in Emails, sessions[e] # {} \/ application[e] # "none"
  PROVE  Exists(e)
BY DEF IInv, EmailHolds, Fresh

LEMMA GotoIs ==
  ASSUME IInv, NEW c \in Calls, call[c] # Idle, NEW stage \in Stages,
         NEW keeps \in Keepsakes, Goto(c, stage, keeps)
  PROVE  /\ call' = [call EXCEPT ![c] = Step(call[c].op, stage, call[c].email, keeps)]
         /\ call'[c] = Step(call[c].op, stage, call[c].email, keeps)
         /\ call'[c].op = call[c].op /\ call'[c].stage = stage
         /\ call'[c].email = call[c].email /\ call'[c].keeps = keeps
         /\ call'[c] \in CallRecord /\ CallsTyped'
         /\ call[c].op \in Ops /\ call[c].email \in Emails
<1>1. call[c] \in CallRecord /\ CallsTyped
  BY DEF IInv, CallsTyped
<1>2. [call[c] EXCEPT !.stage = stage, !.keeps = keeps]
        = Step(call[c].op, stage, call[c].email, keeps)
  <2>1. PICK r \in CallRecord : call[c] = r
    BY <1>1
  <2>2. PICK q : q = [r EXCEPT !.stage = stage, !.keeps = keeps]
    OBVIOUS
  <2>3. /\ q \in CallRecord
        /\ q.op = r.op /\ q.stage = stage /\ q.email = r.email /\ q.keeps = keeps
    BY <2>1, <2>2 DEF CallRecord
  <2>4. Step(q.op, q.stage, q.email, q.keeps) = q
    BY <2>3 DEF CallRecord, Step
  <2>. QED BY <2>1, <2>2, <2>3, <2>4
<1>3. call' = [call EXCEPT ![c] = Step(call[c].op, stage, call[c].email, keeps)]
  BY <1>1, <1>2 DEF Goto, CallsTyped
<1>4. Step(call[c].op, stage, call[c].email, keeps) \in CallRecord
  BY <1>1 DEF CallRecord, Step
<1>. QED BY <1>1, <1>3, <1>4 DEF CallsTyped, Step, CallRecord

(* The steps that start a call.                                            *)
LEMMA StartsHold ==
  ASSUME IInv, NEW c \in Calls, call[c] = Idle, NEW e \in Emails, StartCall(c, e)
  PROVE  IInv'
<1>. DEFINE S(op, stage, keeps) == Step(op, stage, e, keeps)
<1>0. ~At(c, "rename", "add") /\ EmailHolds(e) /\ DataTyped
  BY DEF At, IInv
<1>1. ASSUME RegisterCheck(c, e) PROVE IInv'
  <2>1. OnlyCall(c, S("register", "create", "USER")) /\ e \notin Staff
    BY <1>1 DEF RegisterCheck, Start, OnlyCall
  <2>2. S("register", "create", "USER") \in CallRecord /\ CallHolds(c)'
    BY <2>1, StartFacts DEF CallHolds, CreateHolds, Ops, Stages, Keepsakes, Roles
  <2>. QED BY <1>0, <2>1, <2>2, OnlyCallHolds
<1>2. ASSUME NEW role \in {"USER", "EXPERT_APPLICANT"}, GoogleFind(c, e, role) PROVE IInv'
  <2>1. CASE ~Exists(e)
    <3>1. OnlyCall(c, S("google", "create", role)) /\ e \notin Staff
      BY <1>2, <2>1 DEF GoogleFind, Start, OnlyCall
    <3>2. S("google", "create", role) \in CallRecord /\ CallHolds(c)'
      BY <3>1, StartFacts DEF CallHolds, CreateHolds, Ops, Stages, Keepsakes, Roles
    <3>. QED BY <1>0, <3>1, <3>2, OnlyCallHolds
  <2>2. CASE Exists(e) /\ ~users[e].google
    <3>1. OnlyCall(c, S("google", "link", users[e].role)) /\ ~users[e].blocked
      BY <1>2, <2>2 DEF GoogleFind, Start, OnlyCall
    <3>2. users[e] \in Account /\ users[e].role \in Roles
      BY <1>0, <2>2, RowTypes DEF Account
    <3>3. S("google", "link", users[e].role) \in CallRecord /\ CallHolds(c)'
      BY <2>2, <3>1, <3>2, StartFacts DEF CallHolds, Ops, Stages, Keepsakes
    <3>. QED BY <1>0, <3>1, <3>3, OnlyCallHolds
  <2>3. CASE Exists(e) /\ users[e].google
    <3>1. OnlyCall(c, S("google", "sign", users[e].role)) /\ ~users[e].blocked
      BY <1>2, <2>3 DEF GoogleFind, Start, OnlyCall
    <3>2. users[e] \in Account /\ users[e].role \in Roles /\ Earned(e, users[e].role)
      BY <1>0, <2>3, RowTypes, RoleEarned DEF Account, EmailHolds
    <3>3. S("google", "sign", users[e].role) \in CallRecord /\ CallHolds(c)'
      BY <2>3, <3>1, <3>2, StartFacts DEF CallHolds, SignHolds, Ops, Stages, Keepsakes
    <3>. QED BY <1>0, <3>1, <3>3, OnlyCallHolds
  <2>. QED BY <2>1, <2>2, <2>3
<1>3. ASSUME Login(c, e) PROVE IInv'
  <2>1. /\ OnlyCall(c, S("login", "sign", users[e].role)) /\ ~users[e].blocked /\ Exists(e)
        /\ users[e].role = "EXPERT_APPLICANT" => users[e].verified
    BY <1>3 DEF Login, MayLogIn, Start, OnlyCall
  <2>2. users[e] \in Account /\ users[e].role \in Roles /\ Earned(e, users[e].role)
    BY <1>0, <2>1, RowTypes, RoleEarned DEF Account, EmailHolds
  <2>3. S("login", "sign", users[e].role) \in CallRecord /\ CallHolds(c)'
    BY <2>1, <2>2, StartFacts DEF CallHolds, SignHolds, Ops, Stages, Keepsakes
  <2>. QED BY <1>0, <2>1, <2>3, OnlyCallHolds
<1>4. ASSUME NEW role \in Roles, Refresh(c, e, role) PROVE IInv'
  <2>1. /\ OnlyCall(c, S("refresh", "sign", role)) /\ role \in sessions[e]
        /\ ReadsAccount(role) => users[e].role = role
    BY <1>4 DEF Refresh, StillHeld, Start, OnlyCall
  <2>2. Exists(e)
    BY <2>1, KnownExists
  <2>3. S("refresh", "sign", role) \in CallRecord /\ CallHolds(c)'
    BY <2>1, <2>2, StartFacts DEF CallHolds, RefreshHolds, Ops, Stages, Keepsakes
  <2>. QED BY <1>0, <2>1, <2>3, OnlyCallHolds
<1>5. ASSUME VerifyRead(c, e) PROVE IInv'
  <2>1. OnlyCall(c, S("verify", "write", users[e])) /\ Exists(e) /\ ~users[e].verified
    BY <1>5 DEF VerifyRead, Start, OnlyCall
  <2>2. users[e] \in Account /\ RowHolds(e) /\ Covered(users[e].name)
    BY <1>0, <2>1, RowTypes DEF EmailHolds, IInv, NamesHold
  <2>3. S("verify", "write", users[e]) \in CallRecord /\ CallHolds(c)'
    BY <1>0, <2>1, <2>2, StartFacts
       DEF CallHolds, VerifyHolds, RowHolds, Ops, Stages, Keepsakes
  <2>. QED BY <1>0, <2>1, <2>3, OnlyCallHolds
<1>6. ASSUME NEW op \in {"approve", "reject"}, ReviewOpen(c, e, op) PROVE IInv'
  <2>. DEFINE stage == IF op = "approve" THEN "applicant" ELSE "write"
  <2>1. OnlyCall(c, S(op, stage, "none")) /\ application[e] = "pending"
    BY <1>6 DEF ReviewOpen, Reviewable, Start, OnlyCall
  <2>2. Exists(e) /\ stage \in Stages
    BY <2>1, KnownExists DEF Stages
  <2>3. S(op, stage, "none") \in CallRecord /\ CallHolds(c)'
    BY <2>1, <2>2, StartFacts DEF CallHolds, ReviewHolds, Ops, Stages, Keepsakes
  <2>. QED BY <1>0, <2>1, <2>3, OnlyCallHolds
<1>7. ASSUME NEW n \in Names, NameCheck(c, e, n) PROVE IInv'
  <2>1. OnlyCall(c, S("rename", "write", n)) /\ sessions[e] # {}
    BY <1>7 DEF NameCheck, May, Start, OnlyCall
  <2>2. Exists(e)
    BY <2>1, KnownExists
  <2>3. S("rename", "write", n) \in CallRecord /\ CallHolds(c)'
    BY <2>1, <2>2, StartFacts DEF CallHolds, Ops, Stages, Keepsakes
  <2>. QED BY <1>0, <2>1, <2>3, OnlyCallHolds
<1>. QED BY <1>1, <1>2, <1>3, <1>4, <1>5, <1>6, <1>7 DEF StartCall

(* The other steps that change their call alone.                           *)
LEMMA RefusalsHold ==
  ASSUME IInv, NEW c \in Calls, call[c] # Idle, CreateRefused(c) \/ NameRefused(c)
  PROVE  IInv'
BY FailHolds DEF CreateRefused, NameRefused, At

LEMMA ApproveCheckHolds ==
  ASSUME IInv, NEW c \in Calls, call[c] # Idle, ApproveCheck(c)
  PROVE  IInv'
<1>. DEFINE e == call[c].email
<1>1. At(c, "approve", "applicant") /\ CallHolds(c) /\ ~At(c, "rename", "add")
  BY DEF ApproveCheck, At, IInv
<1>2. CASE users[e].role = "EXPERT_APPLICANT"
  <2>1. Goto(c, "write", "none") /\ UNCHANGED <<data, sessions, bloom, past>>
    BY <1>2 DEF ApproveCheck
  <2>2. /\ OnlyCall(c, Step(call[c].op, "write", e, "none"))
        /\ Step(call[c].op, "write", e, "none") \in CallRecord
        /\ call'[c].op = "approve" /\ call'[c].stage = "write"
        /\ call'[c].email = e /\ call'[c].keeps = "none"
    BY <1>1, <2>1, GotoIs DEF OnlyCall, Stages, Keepsakes, At
  <2>3. ReviewHolds(c) /\ Exists(e)
    BY <1>1 DEF CallHolds, At
  <2>4. CallHolds(c)'
    BY <1>2, <2>1, <2>2, <2>3 DEF CallHolds, ReviewHolds, data, past, Exists
  <2>. QED BY <1>1, <2>2, <2>4, OnlyCallHolds
<1>3. CASE users[e].role # "EXPERT_APPLICANT"
  BY <1>1, <1>3, OnlyCallHolds DEF ApproveCheck, Finish, OnlyCall
<1>. QED BY <1>2, <1>3

-----------------------------------------------------------------------------
(* Sessions: a session is opened for a role that is earned, or one that is *)
(* among the sessions already.                                             *)

LEMMA SignsHold ==
  ASSUME IInv, NEW c \in Calls, call[c] # Idle, OpenSession(c) \/ RefreshSign(c)
  PROVE  IInv'
<1>. DEFINE e == call[c].email  role == call[c].keeps
<1>1. /\ CallHolds(c) /\ e \in Emails /\ CallsTyped /\ DataTyped
      /\ ~At(c, "rename", "add")
  BY DEF IInv, CallsTyped, CallRecord, At, OpenSession, RefreshSign
<1>2. Exists(e) /\ Earned(e, role)
  BY <1>1 DEF OpenSession, RefreshSign, CallHolds, SignHolds, RefreshHolds, At, IInv, EmailHolds
<1>3. /\ sessions' = [sessions EXCEPT ![e] = @ \cup {role}]
      /\ call' = [call EXCEPT ![c] = Idle]
      /\ UNCHANGED <<users, profiles, application, outbox, bloom, mixed, blockedBy>>
  BY DEF OpenSession, RefreshSign, Sign, Finish, data, past
<1>4. /\ DataTyped' /\ CallsTyped'
      /\ call'[c] = Idle /\ \A d \in Calls \ {c} : call'[d] = call[d]
      /\ sessions'[e] = sessions[e] \cup {role}
      /\ \A d \in Emails \ {e} : sessions'[d] = sessions[d]
  BY <1>1, <1>2, <1>3 DEF DataTyped, CallsTyped, Earned
<1>5. \A n : Covered(n) => Covered(n)'
  BY <1>1, <1>3, <1>4, CoverageKept
<1>6. \A d \in Emails : SameAccount(d)
  BY <1>3 DEF SameAccount, SameRows
<1>7. ASSUME NEW d \in Emails PROVE EmailHolds(d)'
  <2>1. CASE d # e
    BY <1>3, <1>4, <1>6, <2>1, EmailKept DEF IInv
  <2>2. CASE d = e
    <3>1. \A r \in sessions'[d] : Earned(d, r)'
      BY <1>2, <1>3, <1>4, <1>6, <2>2, EarnedKept DEF IInv, EmailHolds, SameAccount
    <3>. QED BY <1>2, <1>3, <2>2, <3>1
             DEF IInv, EmailHolds, Exists, RowHolds, Told, Settled
  <2>. QED BY <2>1, <2>2
<1>8. ASSUME NEW d \in Calls, call'[d] # Idle PROVE CallHolds(d)'
  <2>1. /\ call[d] # Idle /\ CallHolds(d) /\ call'[d] = call[d] /\ call[d].email \in Emails
        /\ sessions[call[d].email] \subseteq sessions'[call[d].email]
    BY <1>4, <1>8 DEF IInv, CallsTyped, CallRecord
  <2>. QED BY <1>3, <1>5, <1>6, <2>1, CallKept DEF SameAccount
<1>9. NamesHold'
  BY <1>3, <1>5 DEF IInv, NamesHold, Exists
<1>. QED BY <1>4, <1>7, <1>8, <1>9 DEF IInv

-----------------------------------------------------------------------------
(* Writes of one account.  What is so in any case, mixed or not, survives  *)
(* every write; the rest is lost only for accounts that become mixed.      *)

Grows(e) ==
  /\ Exists(e) /\ Exists(e)'
  /\ profiles'[e].user = profiles[e].user
  /\ outbox[e].approved > 0 => outbox'[e].approved > 0
  /\ users[e].verified \/ users[e].google => users'[e].verified \/ users'[e].google
  /\ e \notin mixed => users'[e].role \in {users[e].role, "EXPERT"}
  /\ application[e] # "none" => application'[e] # "none"
  /\ sessions[e] \subseteq sessions'[e]
  /\ mixed \subseteq mixed'

LEMMA EarnedGrows ==
  ASSUME NEW e, NEW role, Earned(e, role), Grows(e)
  PROVE  Earned(e, role)'
BY DEF Earned, Grows

LEMMA CallGrows ==
  ASSUME NEW d \in Calls, call[d] # Idle, CallHolds(d), call'[d] = call[d],
         Grows(call[d].email), GoesByRow(call[d]) => call[d].email \in mixed',
         \A n : Covered(n) => Covered(n)'
  PROVE  CallHolds(d)'
<1>. DEFINE e == call[d].email
<1>1. CASE call[d].stage = "create"
  BY <1>1 DEF CallHolds, CreateHolds, SignHolds, RefreshHolds, VerifyHolds, ReviewHolds
<1>2. CASE call[d].stage # "create" /\ GoesByRow(call[d])
  <2>1. SignHolds(d) => SignHolds(d)'
    BY <1>2, EarnedGrows DEF SignHolds
  <2>2. VerifyHolds(d) => VerifyHolds(d)'
    BY <1>2 DEF VerifyHolds, Grows
  <2>3. RefreshHolds(d) => RefreshHolds(d)'
    BY <1>2 DEF RefreshHolds, Grows
  <2>4. ReviewHolds(d) => ReviewHolds(d)'
    BY <1>2 DEF ReviewHolds, Grows
  <2>. QED BY <1>2, <2>1, <2>2, <2>3, <2>4 DEF CallHolds, Grows
<1>3. CASE call[d].stage # "create" /\ ~GoesByRow(call[d])
  <2>1. \/ call[d].op = "rename"
        \/ call[d].op = "refresh" /\ ~ReadsAccount(call[d].keeps)
    BY <1>3 DEF GoesByRow
  <2>2. RefreshHolds(d) /\ ~ReadsAccount(call[d].keeps) => RefreshHolds(d)'
    BY DEF RefreshHolds, Grows
  <2>. QED BY <1>3, <2>1, <2>2 DEF CallHolds, Grows
<1>. QED BY <1>1, <1>2, <1>3

(* Whose call it is that writes, and what the others may count on.         *)
LEMMA WriteHolds ==
  ASSUME IInv, NEW e \in Emails, NEW own \in SUBSET Calls, DataTyped', CallsTyped',
         \A d \in Emails \ {e} : SameAccount(d) /\ sessions'[d] = sessions[d],
         mixed \subseteq mixed', EmailHolds(e)', NamesHold',
         \A n : Covered(n) => Covered(n)',
         \A d \in Calls \ own : call'[d] = call[d],
         \A d \in Calls \ own :
           call[d] # Idle /\ call[d].email = e /\ call[d].stage # "create"
             => Grows(e) /\ (GoesByRow(call[d]) => e \in mixed'),
         \A d \in own : call'[d] # Idle => CallHolds(d)'
  PROVE  IInv'
<1>1. \A d \in Emails : EmailHolds(d)'
  BY EmailKept DEF IInv
<1>2. ASSUME NEW d \in Calls \ own, call'[d] # Idle PROVE CallHolds(d)'
  <2>1. call[d] # Idle /\ CallHolds(d) /\ call'[d] = call[d] /\ call[d].email \in Emails
    BY <1>2 DEF IInv, CallsTyped, CallRecord
  <2>2. CASE call[d].email # e
    BY <2>1, <2>2, CallKept DEF SameAccount
  <2>3. CASE call[d].email = e /\ call[d].stage # "create"
    BY <1>2, <2>1, <2>3, CallGrows
  <2>4. CASE call[d].stage = "create"
    BY <2>1, <2>4
       DEF CallHolds, CreateHolds, SignHolds, RefreshHolds, VerifyHolds, ReviewHolds
  <2>. QED BY <2>2, <2>3, <2>4
<1>. QED BY <1>1, <1>2 DEF IInv

(* An account is inserted for an email that has none, with what its role   *)
(* calls for.                                                              *)
LEMMA InsertFacts ==
  ASSUME IInv, NEW e \in Emails, ~Exists(e), NEW row \in Account,
         NEW kinds \in SUBSET ProfileKinds, NEW names \in SUBSET EventNames,
         Insert(e, row, kinds, names), ~row.blocked, row.name = NoName,
         "user" \in kinds <=> row.role = "USER", "expert" \notin kinds,
         "registered" \in names <=> row.role # "ADMIN",
         "verified" \in names <=> row.role # "ADMIN" /\ row.verified,
         "onboarded" \notin names, "approved" \notin names, "rejected" \notin names,
         row.role # "EXPERT", row.role = "ADMIN" <=> e \in Staff,
         row.role = "ADMIN" => row.verified,
         UNCHANGED <<application, sessions, bloom, past>>,
         \A n : Covered(n) => Covered(n)'
  PROVE  /\ DataTyped' /\ EmailHolds(e)' /\ NamesHold'
         /\ users'[e] = row /\ Exists(e)'
         /\ profiles'[e].user = IF row.role = "USER" THEN 1 ELSE 0
         /\ \A d \in Emails \ {e} : SameAccount(d) /\ sessions'[d] = sessions[d]
         /\ \A d \in Calls : call[d] # Idle /\ call[d].email = e => call[d].stage = "create"
<1>1. DataTyped /\ EmailHolds(e) /\ Fresh(e)
  BY DEF IInv, EmailHolds
<1>2. /\ users' = [users EXCEPT ![e] = row]
      /\ profiles' = [profiles EXCEPT ![e] = [k \in ProfileKinds |-> IF k \in kinds THEN 1 ELSE 0]]
      /\ Publish(e, names)
      /\ UNCHANGED <<application, sessions, bloom, mixed, blockedBy>>
  BY DEF Insert, past
<1>3. /\ row.verified \in BOOLEAN /\ row.blocked \in BOOLEAN
      /\ row # NoUser
  BY DEF Account, NoUser, Roles
<1>4. users'[e] = row /\ Exists(e)'
  BY <1>1, <1>2, <1>3 DEF DataTyped, Exists
<1>5. /\ profiles'[e] = [k \in ProfileKinds |-> IF k \in kinds THEN 1 ELSE 0]
      /\ profiles'[e].user = (IF row.role = "USER" THEN 1 ELSE 0) /\ profiles'[e].expert = 0
  BY <1>1, <1>2 DEF DataTyped, ProfileKinds
<1>6. /\ outbox' \in [Emails -> [EventNames -> Nat]]
      /\ outbox'[e].registered = IF row.role # "ADMIN" THEN 1 ELSE 0
      /\ outbox'[e].verified = IF row.role # "ADMIN" /\ row.verified THEN 1 ELSE 0
      /\ outbox'[e].onboarded = 0 /\ outbox'[e].approved = 0 /\ outbox'[e].rejected = 0
      /\ \A d \in Emails \ {e} : outbox'[d] = outbox[d]
  <2>1. \A n \in EventNames : outbox[e][n] = 0
    BY <1>1 DEF Fresh
  <2>. QED BY <1>1, <1>2, <2>1, PublishAdds DEF EventNames
<1>7. DataTyped'
  BY <1>1, <1>2, <1>3, <1>6 DEF DataTyped
<1>8. \A d \in Emails \ {e} : SameAccount(d) /\ sessions'[d] = sessions[d]
  BY <1>1, <1>2, <1>6 DEF SameAccount, SameRows, DataTyped
<1>9. application'[e] = "none" /\ sessions'[e] = {} /\ blockedBy'[e].status = FALSE
  <2>1. blockedBy[e].status \in BOOLEAN
    BY <1>1 DEF DataTyped
  <2>. QED BY <1>1, <1>2, <2>1 DEF Fresh
<1>10. EmailHolds(e)'
  <2>1. RowHolds(e)'
    BY <1>3, <1>4, <1>5, <1>9 DEF RowHolds
  <2>2. Told(e)'
    BY <1>3, <1>4, <1>5, <1>6, <1>9 DEF Told
  <2>3. Settled(e)'
    BY <1>3, <1>4, <1>5, <1>6, <1>9 DEF Settled
  <2>. QED BY <1>4, <1>9, <2>1, <2>2, <2>3 DEF EmailHolds
<1>11. NamesHold'
  <2>1. \A d \in Emails \ {e} : users'[d] = users[d] /\ Exists(d)' = Exists(d)
    BY <1>8 DEF SameAccount, SameRows, Exists
  <2>2. Covered(NoName)'
    BY DEF Covered
  <2>. QED BY <1>3, <1>4, <2>1, <2>2 DEF IInv, NamesHold
<1>12. \A d \in Calls : call[d] # Idle /\ call[d].email = e => call[d].stage = "create"
  BY DEF IInv, CallHolds
<1>. QED BY <1>3, <1>4, <1>5, <1>7, <1>8, <1>10, <1>11, <1>12

LEMMA RegistersHold ==
  ASSUME IInv, NEW e \in Emails, RegisterExpert(e) \/ CreateAdmin(e)
  PROVE  IInv'
<1>1. ~Exists(e) /\ UNCHANGED <<application, call, sessions, bloom, past>>
  BY DEF RegisterExpert, CreateAdmin, Free
<1>2. /\ mixed' = mixed /\ CallsTyped' /\ \A d \in Calls : call'[d] = call[d]
      /\ \A n : Covered(n) => Covered(n)'
  BY <1>1, CoverageKept DEF past, IInv, CallsTyped
<1>3. /\ DataTyped' /\ EmailHolds(e)' /\ NamesHold'
      /\ \A d \in Emails \ {e} : SameAccount(d) /\ sessions'[d] = sessions[d]
      /\ \A d \in Calls : call[d] # Idle /\ call[d].email = e => call[d].stage = "create"
  <2>1. CASE RegisterExpert(e)
    <3>. PICK row : row = NewAccount("EXPERT_APPLICANT", FALSE, FALSE, TRUE)
      OBVIOUS
    <3>1. /\ row \in Account /\ row.role = "EXPERT_APPLICANT"
          /\ ~row.blocked /\ ~row.verified /\ row.name = NoName
      BY DEF NewAccount, Account, Roles
    <3>2. e \notin Staff /\ Insert(e, row, {}, {"registered"})
      BY <2>1 DEF RegisterExpert
    <3>3. {} \in SUBSET ProfileKinds /\ {"registered"} \in SUBSET EventNames
      BY DEF EventNames
    <3>. QED BY <1>1, <1>2, <3>1, <3>2, <3>3, InsertFacts
  <2>2. CASE CreateAdmin(e)
    <3>. PICK row : row = NewAccount("ADMIN", TRUE, FALSE, TRUE)
      OBVIOUS
    <3>1. /\ row \in Account /\ row.role = "ADMIN"
          /\ ~row.blocked /\ row.verified /\ row.name = NoName
      BY DEF NewAccount, Account, Roles
    <3>2. e \in Staff /\ Insert(e, row, {}, {})
      BY <2>2 DEF CreateAdmin
    <3>3. {} \in SUBSET ProfileKinds /\ {} \in SUBSET EventNames
      OBVIOUS
    <3>. QED BY <1>1, <1>2, <3>1, <3>2, <3>3, InsertFacts
  <2>. QED BY <2>1, <2>2
<1>4. {} \in SUBSET Calls
  OBVIOUS
<1>. QED BY <1>2, <1>3, <1>4, WriteHolds

LEMMA CreatesHold ==
  ASSUME IInv, NEW c \in Calls, call[c] # Idle, RegisterCreate(c) \/ GoogleCreate(c)
  PROVE  IInv'
<1>. PICK e, role : e = call[c].email /\ role = call[c].keeps
  OBVIOUS
<1>. PICK google \in BOOLEAN : google <=> call[c].op = "google"
  OBVIOUS
<1>. DEFINE names == IF google THEN {"registered", "verified"} ELSE {"registered"}
            kinds == IF role = "USER" THEN {"user"} ELSE {}
<1>. PICK row : row = NewAccount(role, google, google, ~google)
  OBVIOUS
<1>1. /\ call[c].stage = "create" /\ call[c].op \in {"register", "google"}
      /\ ~At(c, "rename", "add") /\ ~Exists(e)
      /\ UNCHANGED <<application, sessions, bloom, past>>
  BY DEF RegisterCreate, GoogleCreate, At, Free
<1>2. /\ role \in {"USER", "EXPERT_APPLICANT"} /\ e \in Emails \ Staff
      /\ call[c].op = "register" => role = "USER"
  BY <1>1 DEF IInv, CallsTyped, CallRecord, CallHolds, CreateHolds
<1>3. /\ Goto(c, "sign", role)
      /\ Insert(e, row, kinds, names)
  BY <1>1, <1>2 DEF RegisterCreate, GoogleCreate, At
<1>4. /\ CallsTyped' /\ mixed' = mixed
      /\ call'[c].op = call[c].op /\ call'[c].stage = "sign"
      /\ call'[c].email = e /\ call'[c].keeps = role
      /\ \A d \in Calls \ {c} : call'[d] = call[d]
  BY <1>1, <1>2, <1>3, GotoIs DEF Stages, Keepsakes, Roles, past, IInv, CallsTyped
<1>5. \A n : Covered(n) => Covered(n)'
  BY <1>1, <1>4, CoverageKept
<1>6. /\ DataTyped' /\ EmailHolds(e)' /\ NamesHold'
      /\ users'[e] = row /\ Exists(e)' /\ profiles'[e].user = IF role = "USER" THEN 1 ELSE 0
      /\ \A d \in Emails \ {e} : SameAccount(d) /\ sessions'[d] = sessions[d]
      /\ \A d \in Calls : call[d] # Idle /\ call[d].email = e => call[d].stage = "create"
  <2>1. role \in Roles /\ role # "EXPERT" /\ role # "ADMIN" /\ e \notin Staff
    BY <1>2 DEF Roles
  <2>2. /\ kinds \in SUBSET ProfileKinds
        /\ "user" \in kinds <=> role = "USER"
        /\ "expert" \notin kinds
    BY DEF ProfileKinds
  <2>3. /\ names \in SUBSET EventNames
        /\ "registered" \in names
        /\ "verified" \in names <=> google
        /\ "onboarded" \notin names /\ "approved" \notin names /\ "rejected" \notin names
    BY DEF EventNames
  <2>4. /\ row \in Account /\ row.role = role
        /\ ~row.blocked /\ row.verified = google /\ row.name = NoName
    BY <2>1 DEF NewAccount, Account
  <2>. HIDE DEF names, kinds
  <2>. QED BY <1>1, <1>2, <1>3, <1>5, <2>1, <2>2, <2>3, <2>4, InsertFacts
<1>7. CallHolds(c)'
  <2>1. /\ users'[e].role = role /\ users'[e].google = google /\ ~users'[e].blocked
    BY <1>6 DEF NewAccount
  <2>2. role = "EXPERT_APPLICANT" => google
    BY <1>1, <1>2
  <2>3. Earned(e, role)'
    BY <1>2, <1>6, <2>1, <2>2 DEF Earned, Roles
  <2>4. SignHolds(c)'
    BY <1>4, <2>1, <2>3 DEF SignHolds, Earned
  <2>. QED BY <1>1, <1>2, <1>4, <1>6, <2>4 DEF CallHolds, Roles
<1>8. {c} \in SUBSET Calls
  OBVIOUS
<1>9. \A d \in Calls \ {c} :
        call[d] # Idle /\ call[d].email = e /\ call[d].stage # "create"
          => Grows(e) /\ (GoesByRow(call[d]) => e \in mixed')
  BY <1>6
<1>10. \A d \in {c} : call'[d] # Idle => CallHolds(d)'
  BY <1>7
<1>. QED BY <1>2, <1>4, <1>5, <1>6, <1>8, <1>9, <1>10, WriteHolds

-----------------------------------------------------------------------------
(* Writes of an account that exists.                                       *)

LEMMA TouchFacts ==
  ASSUME IInv, NEW e \in Emails, NEW others \in SUBSET Calls, Touch(e, others)
  PROVE  /\ mixed \subseteq mixed' /\ mixed' \subseteq Emails
         /\ \A d \in Emails \ {e} : d \in mixed' <=> d \in mixed
         /\ \A d \in others : GoesByRow(call[d]) /\ call[d].email = e => e \in mixed'
BY DEF Touch, IInv, DataTyped

(* The other accounts keep their names, and nothing else of this one's     *)
(* account is about names.                                                 *)
LEMMA NamesKept ==
  ASSUME IInv, NEW e \in Emails, \A d \in Emails \ {e} : users'[d] = users[d],
         Exists(e), Exists(e)', users'[e].name = users[e].name,
         \A n : Covered(n) => Covered(n)'
  PROVE  NamesHold'
<1>1. \A d \in Emails : Exists(d)' => Exists(d) /\ users'[d].name = users[d].name
  BY DEF Exists
<1>. QED BY <1>1 DEF IInv, NamesHold

LEMMA GoogleLinkHolds ==
  ASSUME IInv, NEW c \in Calls, call[c] # Idle, GoogleLink(c)
  PROVE  IInv'
<1>. PICK e, role : e = call[c].email /\ role = users[e].role
  OBVIOUS
<1>1. /\ At(c, "google", "link") /\ ~At(c, "rename", "add")
      /\ users' = [users EXCEPT ![e].google = TRUE]
      /\ Touch(e, Calls \ {c}) /\ Goto(c, "sign", role)
      /\ UNCHANGED <<profiles, application, outbox, sessions, bloom, blockedBy>>
  BY DEF GoogleLink, At
<1>2. /\ CallHolds(c) /\ e \in Emails /\ DataTyped /\ CallsTyped /\ Exists(e)
      /\ e \notin mixed => ~users[e].blocked
  BY <1>1 DEF IInv, CallsTyped, CallRecord, CallHolds, At
<1>3. users[e] \in Account /\ EmailHolds(e) /\ RowHolds(e) /\ role \in Roles
  BY <1>2, RowTypes DEF IInv, EmailHolds, Account
<1>4. /\ users'[e] \in Account /\ Exists(e)'
      /\ users'[e].role = role /\ users'[e].google = TRUE
      /\ users'[e].verified = users[e].verified /\ users'[e].blocked = users[e].blocked
      /\ users'[e].name = users[e].name
      /\ \A d \in Emails \ {e} : users'[d] = users[d]
  BY <1>1, <1>2, <1>3 DEF DataTyped, Account, Exists, NoUser, Roles
<1>5. /\ CallsTyped'
      /\ call'[c].op = "google" /\ call'[c].stage = "sign"
      /\ call'[c].email = e /\ call'[c].keeps = role
      /\ \A d \in Calls \ {c} : call'[d] = call[d]
  BY <1>1, <1>2, <1>3, GotoIs DEF Stages, Keepsakes, CallsTyped, At
<1>6. /\ mixed \subseteq mixed' /\ mixed' \subseteq Emails
      /\ \A d \in Emails \ {e} : d \in mixed' <=> d \in mixed
      /\ \A d \in Calls \ {c} : GoesByRow(call[d]) /\ call[d].email = e => e \in mixed'
  BY <1>1, <1>2, TouchFacts
<1>7. \A n : Covered(n) => Covered(n)'
  BY <1>1, <1>5, CoverageKept
<1>8. DataTyped'
  BY <1>1, <1>2, <1>4, <1>6 DEF DataTyped
<1>9. Grows(e)
  BY <1>1, <1>2, <1>4, <1>6 DEF Grows
<1>10. EmailHolds(e)'
  <2>1. RowHolds(e)' /\ Told(e)' /\ (e \notin mixed' => Settled(e)')
    BY <1>1, <1>2, <1>3, <1>4, <1>6 DEF EmailHolds, RowHolds, Told, Settled
  <2>2. \A r \in sessions'[e] : Earned(e, r)'
    BY <1>1, <1>3, <1>9, EarnedGrows DEF EmailHolds
  <2>. QED BY <1>4, <2>1, <2>2 DEF EmailHolds
<1>11. CallHolds(c)'
  <2>1. Earned(e, role)'
    BY <1>1, <1>3, <1>4 DEF RowHolds, Earned
  <2>2. SignHolds(c)'
    BY <1>2, <1>4, <1>5, <1>6, <2>1 DEF SignHolds
  <2>. QED BY <1>3, <1>4, <1>5, <2>2 DEF CallHolds
<1>12. NamesHold'
  BY <1>2, <1>4, <1>7, NamesKept
<1>13. /\ \A d \in Emails \ {e} : SameAccount(d) /\ sessions'[d] = sessions[d]
       /\ {c} \in SUBSET Calls /\ \A d \in {c} : call'[d] # Idle => CallHolds(d)'
  BY <1>1, <1>4, <1>11 DEF SameAccount, SameRows
<1>. QED BY <1>2, <1>5, <1>6, <1>7, <1>8, <1>9, <1>10, <1>12, <1>13, WriteHolds

LEMMA VerifyWriteHolds ==
  ASSUME IInv, NEW c \in Calls, call[c] # Idle, VerifyWrite(c)
  PROVE  IInv'
<1>. PICK e, copy, row :
       e = call[c].email /\ copy = call[c].keeps /\ row = Restored(users[e], copy)
  OBVIOUS
<1>1. /\ At(c, "verify", "write") /\ ~At(c, "rename", "add") /\ ~Taken(e, row.name)
      /\ users' = [users EXCEPT ![e] = row]
      /\ Publish(e, {"verified"})
      /\ Touch(e, Calls \ {c}) /\ call' = [call EXCEPT ![c] = Idle]
      /\ UNCHANGED <<profiles, application, sessions, bloom, blockedBy>>
  BY DEF VerifyWrite, At, Finish
<1>2. CallHolds(c) /\ e \in Emails /\ DataTyped /\ CallsTyped /\ Exists(e)
  BY <1>1 DEF IInv, CallsTyped, CallRecord, CallHolds, At
<1>3. /\ users[e] \in Account /\ EmailHolds(e) /\ RowHolds(e) /\ VerifyHolds(c)
      /\ Told(e) /\ Covered(users[e].name) /\ outbox[e].approved \in Nat
  BY <1>1, <1>2, RowTypes DEF IInv, EmailHolds, CallHolds, At, NamesHold
<1>4. /\ copy \in Account /\ Covered(copy.name)
      /\ copy.role # "ADMIN" /\ e \notin Staff
      /\ copy.role = "USER" <=> profiles[e].user = 1
      /\ copy.role = "EXPERT" => outbox[e].approved > 0
      /\ e \notin mixed => copy = users[e]
  BY <1>3 DEF VerifyHolds
<1>5. /\ row \in Account /\ row.role = copy.role /\ row.verified = TRUE
      /\ row.blocked = copy.blocked /\ row.google = copy.google
      /\ row.name \in {copy.name, users[e].name}
  BY <1>3, <1>4 DEF Restored, Account
<1>6. /\ users'[e] = row /\ Exists(e)'
      /\ \A d \in Emails \ {e} : users'[d] = users[d]
  BY <1>1, <1>2, <1>5 DEF DataTyped, Account, Exists, NoUser, Roles
<1>7. /\ CallsTyped' /\ call'[c] = Idle
      /\ \A d \in Calls \ {c} : call'[d] = call[d]
  BY <1>1, <1>2 DEF CallsTyped
<1>8. /\ mixed \subseteq mixed' /\ mixed' \subseteq Emails
      /\ \A d \in Emails \ {e} : d \in mixed' <=> d \in mixed
      /\ \A d \in Calls \ {c} : GoesByRow(call[d]) /\ call[d].email = e => e \in mixed'
  BY <1>1, <1>2, TouchFacts
<1>9. /\ outbox' \in [Emails -> [EventNames -> Nat]]
      /\ \A d \in Emails \ {e} : outbox'[d] = outbox[d]
      /\ outbox'[e].verified > 0 /\ outbox'[e].registered = outbox[e].registered
      /\ outbox'[e].onboarded = outbox[e].onboarded
      /\ outbox'[e].approved = outbox[e].approved
      /\ outbox'[e].rejected = outbox[e].rejected
  <2>1. {"verified"} \in SUBSET EventNames /\ outbox[e].verified \in Nat
    BY <1>2 DEF EventNames, DataTyped
  <2>. QED BY <1>1, <1>2, <2>1, PublishAdds DEF EventNames
<1>10. \A n : Covered(n) => Covered(n)'
  BY <1>1, <1>7, CoverageKept
<1>11. DataTyped'
  BY <1>1, <1>2, <1>5, <1>8, <1>9 DEF DataTyped
<1>12. Grows(e)
  BY <1>1, <1>2, <1>4, <1>5, <1>6, <1>8, <1>9 DEF Grows
<1>13. EmailHolds(e)'
  <2>1. RowHolds(e)'
    BY <1>1, <1>3, <1>4, <1>5, <1>6, <1>9 DEF RowHolds
  <2>2. Told(e)'
    BY <1>1, <1>3, <1>4, <1>5, <1>6, <1>9 DEF Told, RowHolds
  <2>3. e \notin mixed' => Settled(e)'
    BY <1>1, <1>2, <1>3, <1>4, <1>5, <1>6, <1>8, <1>9 DEF Settled, EmailHolds
  <2>4. \A r \in sessions'[e] : Earned(e, r)'
    BY <1>1, <1>3, <1>12, EarnedGrows DEF EmailHolds
  <2>. QED BY <1>6, <2>1, <2>2, <2>3, <2>4 DEF EmailHolds
<1>14. NamesHold'
  <2>1. Covered(row.name)' /\ \A d \in Emails \ {e} : Exists(d) => row.name = NoName \/ users[d].name # row.name
    BY <1>1, <1>3, <1>4, <1>5, <1>10 DEF Taken
  <2>2. \A d \in Emails \ {e} : Exists(d)' = Exists(d)
    BY <1>6 DEF Exists
  <2>. QED BY <1>6, <1>10, <2>1, <2>2 DEF IInv, NamesHold
<1>15. /\ \A d \in Emails \ {e} : SameAccount(d) /\ sessions'[d] = sessions[d]
       /\ {c} \in SUBSET Calls /\ \A d \in {c} : call'[d] # Idle => CallHolds(d)'
  BY <1>1, <1>6, <1>7, <1>9 DEF SameAccount, SameRows
<1>. QED BY <1>2, <1>7, <1>8, <1>10, <1>11, <1>12, <1>13, <1>14, <1>15, WriteHolds

LEMMA ApproveWriteHolds ==
  ASSUME IInv, NEW c \in Calls, call[c] # Idle, ApproveWrite(c)
  PROVE  IInv'
<1>. PICK e : e = call[c].email
  OBVIOUS
<1>1. /\ At(c, "approve", "write") /\ ~At(c, "rename", "add")
      /\ application' = [application EXCEPT ![e] = "approved"]
      /\ users' = [users EXCEPT ![e].role = "EXPERT"]
      /\ profiles' = [profiles EXCEPT ![e].expert = @ + 1]
      /\ Publish(e, {"onboarded", "approved"})
      /\ Touch(e, Calls \ {c}) /\ call' = [call EXCEPT ![c] = Idle]
      /\ UNCHANGED <<sessions, bloom, blockedBy>>
  BY DEF ApproveWrite, At, Finish
<1>2. CallHolds(c) /\ e \in Emails /\ DataTyped /\ CallsTyped /\ Exists(e)
  BY <1>1 DEF IInv, CallsTyped, CallRecord, CallHolds, At
<1>3. /\ users[e] \in Account /\ EmailHolds(e) /\ RowHolds(e) /\ Told(e)
      /\ profiles[e] \in [ProfileKinds -> Nat] /\ outbox[e] \in [EventNames -> Nat]
      /\ application[e] # "none" /\ users[e].role # "ADMIN" /\ profiles[e].user = 0
      /\ e \notin Staff
      /\ e \notin mixed => application[e] = "pending"
  BY <1>1, <1>2, RowTypes DEF IInv, EmailHolds, RowHolds, CallHolds, ReviewHolds, At
<1>4. /\ users'[e] \in Account /\ Exists(e)' /\ users'[e].role = "EXPERT"
      /\ users'[e].google = users[e].google /\ users'[e].verified = users[e].verified
      /\ users'[e].blocked = users[e].blocked /\ users'[e].name = users[e].name
      /\ \A d \in Emails \ {e} : users'[d] = users[d]
  BY <1>1, <1>2, <1>3 DEF DataTyped, Account, Exists, NoUser, Roles
<1>5. /\ profiles' \in [Emails -> [ProfileKinds -> Nat]]
      /\ profiles'[e].user = profiles[e].user
      /\ profiles'[e].expert = profiles[e].expert + 1 /\ profiles[e].expert \in Nat
      /\ application' \in [Emails -> Statuses] /\ application'[e] = "approved"
      /\ \A d \in Emails \ {e} : profiles'[d] = profiles[d] /\ application'[d] = application[d]
  <2>1. profiles[e].expert \in Nat /\ profiles[e].expert + 1 \in Nat
    BY <1>3 DEF ProfileKinds
  <2>2. /\ profiles' = [profiles EXCEPT ![e] = [profiles[e] EXCEPT !.expert = @ + 1]]
        /\ profiles \in [Emails -> [ProfileKinds -> Nat]]
    BY <1>1, <1>2 DEF DataTyped
  <2>3. /\ [profiles[e] EXCEPT !.expert = @ + 1] \in [ProfileKinds -> Nat]
        /\ [profiles[e] EXCEPT !.expert = @ + 1].expert = profiles[e].expert + 1
        /\ [profiles[e] EXCEPT !.expert = @ + 1].user = profiles[e].user
    BY <1>3, <2>1 DEF ProfileKinds
  <2>4. /\ application' \in [Emails -> Statuses] /\ application'[e] = "approved"
        /\ \A d \in Emails \ {e} : application'[d] = application[d]
    BY <1>1, <1>2 DEF DataTyped, Statuses
  <2>. QED BY <1>2, <2>1, <2>2, <2>3, <2>4
<1>6. /\ CallsTyped' /\ call'[c] = Idle
      /\ \A d \in Calls \ {c} : call'[d] = call[d]
  BY <1>1, <1>2 DEF CallsTyped
<1>7. /\ mixed \subseteq mixed' /\ mixed' \subseteq Emails
      /\ \A d \in Emails \ {e} : d \in mixed' <=> d \in mixed
      /\ \A d \in Calls \ {c} : GoesByRow(call[d]) /\ call[d].email = e => e \in mixed'
  BY <1>1, <1>2, TouchFacts
<1>8. /\ outbox' \in [Emails -> [EventNames -> Nat]]
      /\ \A d \in Emails \ {e} : outbox'[d] = outbox[d]
      /\ outbox'[e].verified = outbox[e].verified
      /\ outbox'[e].registered = outbox[e].registered
      /\ outbox'[e].onboarded = outbox[e].onboarded + 1
      /\ outbox'[e].approved = outbox[e].approved + 1
      /\ outbox'[e].rejected = outbox[e].rejected
      /\ outbox[e].approved \in Nat /\ outbox[e].rejected \in Nat
  <2>1. {"onboarded", "approved"} \in SUBSET EventNames
    BY DEF EventNames
  <2>. QED BY <1>1, <1>2, <1>3, <2>1, PublishAdds DEF EventNames
<1>9. \A n : Covered(n) => Covered(n)'
  BY <1>1, <1>6, CoverageKept
<1>10. DataTyped'
  BY <1>1, <1>2, <1>4, <1>5, <1>7, <1>8 DEF DataTyped
<1>11. Grows(e)
  BY <1>1, <1>2, <1>4, <1>5, <1>7, <1>8 DEF Grows
<1>12. EmailHolds(e)'
  <2>1. RowHolds(e)'
    BY <1>3, <1>4, <1>5, <1>8 DEF RowHolds
  <2>2. Told(e)'
    BY <1>3, <1>4, <1>5, <1>8 DEF Told
  <2>3. e \notin mixed' => Settled(e)'
    <3>. SUFFICES ASSUME e \notin mixed' PROVE Settled(e)'
      OBVIOUS
    <3>1. application[e] = "pending" /\ Settled(e)
      BY <1>2, <1>3, <1>7 DEF EmailHolds
    <3>2. profiles[e].expert = 0 /\ outbox[e].rejected = 0
      BY <1>3, <1>8, <3>1 DEF Settled, Told
    <3>3. profiles'[e].expert = 1 /\ outbox'[e].rejected = 0
      BY <1>5, <1>8, <3>2
    <3>. QED BY <1>1, <1>4, <1>5, <3>1, <3>3 DEF Settled
  <2>4. \A r \in sessions'[e] : Earned(e, r)'
    BY <1>1, <1>3, <1>11, EarnedGrows DEF EmailHolds
  <2>. QED BY <1>4, <2>1, <2>2, <2>3, <2>4 DEF EmailHolds
<1>13. NamesHold'
  BY <1>2, <1>4, <1>9, NamesKept
<1>14. /\ \A d \in Emails \ {e} : SameAccount(d) /\ sessions'[d] = sessions[d]
       /\ {c} \in SUBSET Calls /\ \A d \in {c} : call'[d] # Idle => CallHolds(d)'
  BY <1>1, <1>4, <1>5, <1>6, <1>8 DEF SameAccount, SameRows
<1>. QED BY <1>2, <1>6, <1>7, <1>9, <1>10, <1>11, <1>12, <1>13, <1>14, WriteHolds

LEMMA RejectWriteHolds ==
  ASSUME IInv, NEW c \in Calls, call[c] # Idle, RejectWrite(c)
  PROVE  IInv'
<1>. PICK e : e = call[c].email
  OBVIOUS
<1>1. /\ At(c, "reject", "write") /\ ~At(c, "rename", "add")
      /\ application' = [application EXCEPT ![e] = "rejected"]
      /\ Publish(e, {"rejected"})
      /\ Touch(e, Calls \ {c}) /\ call' = [call EXCEPT ![c] = Idle]
      /\ UNCHANGED <<users, profiles, sessions, bloom, blockedBy>>
  BY DEF RejectWrite, At, Finish
<1>2. CallHolds(c) /\ e \in Emails /\ DataTyped /\ CallsTyped /\ Exists(e)
  BY <1>1 DEF IInv, CallsTyped, CallRecord, CallHolds, At
<1>3. /\ EmailHolds(e) /\ RowHolds(e) /\ Told(e) /\ application[e] # "none" /\ Exists(e)'
      /\ outbox[e] \in [EventNames -> Nat]
      /\ e \notin mixed => application[e] = "pending"
  BY <1>1, <1>2, RowTypes DEF IInv, EmailHolds, CallHolds, ReviewHolds, At, Exists
<1>4. /\ application' \in [Emails -> Statuses] /\ application'[e] = "rejected"
      /\ \A d \in Emails \ {e} : application'[d] = application[d]
  BY <1>1, <1>2 DEF DataTyped, Statuses
<1>5. /\ CallsTyped' /\ call'[c] = Idle
      /\ \A d \in Calls \ {c} : call'[d] = call[d]
  BY <1>1, <1>2 DEF CallsTyped
<1>6. /\ mixed \subseteq mixed' /\ mixed' \subseteq Emails
      /\ \A d \in Emails \ {e} : d \in mixed' <=> d \in mixed
      /\ \A d \in Calls \ {c} : GoesByRow(call[d]) /\ call[d].email = e => e \in mixed'
  BY <1>1, <1>2, TouchFacts
<1>7. /\ outbox' \in [Emails -> [EventNames -> Nat]]
      /\ \A d \in Emails \ {e} : outbox'[d] = outbox[d]
      /\ outbox'[e].verified = outbox[e].verified
      /\ outbox'[e].registered = outbox[e].registered
      /\ outbox'[e].onboarded = outbox[e].onboarded
      /\ outbox'[e].approved = outbox[e].approved
      /\ outbox'[e].rejected > 0
      /\ outbox[e].approved \in Nat
  <2>1. {"rejected"} \in SUBSET EventNames
    BY DEF EventNames
  <2>. QED BY <1>1, <1>2, <1>3, <2>1, PublishAdds DEF EventNames
<1>8. \A n : Covered(n) => Covered(n)'
  BY <1>1, <1>5, CoverageKept
<1>9. DataTyped'
  BY <1>1, <1>2, <1>4, <1>6, <1>7 DEF DataTyped
<1>10. Grows(e)
  BY <1>1, <1>2, <1>3, <1>4, <1>6, <1>7 DEF Grows
<1>11. EmailHolds(e)'
  <2>1. RowHolds(e)'
    BY <1>1, <1>3, <1>4, <1>7 DEF RowHolds
  <2>2. Told(e)'
    BY <1>1, <1>3, <1>4, <1>7 DEF Told
  <2>3. e \notin mixed' => Settled(e)'
    BY <1>1, <1>2, <1>3, <1>4, <1>6, <1>7 DEF Settled, Told, EmailHolds
  <2>4. \A r \in sessions'[e] : Earned(e, r)'
    BY <1>1, <1>3, <1>10, EarnedGrows DEF EmailHolds
  <2>. QED BY <1>3, <2>1, <2>2, <2>3, <2>4 DEF EmailHolds
<1>12. NamesHold'
  BY <1>1, <1>2, <1>3, <1>8, NamesKept
<1>13. /\ \A d \in Emails \ {e} : SameAccount(d) /\ sessions'[d] = sessions[d]
       /\ {c} \in SUBSET Calls /\ \A d \in {c} : call'[d] # Idle => CallHolds(d)'
  BY <1>1, <1>4, <1>5, <1>7 DEF SameAccount, SameRows
<1>. QED BY <1>2, <1>5, <1>6, <1>8, <1>9, <1>10, <1>11, <1>12, <1>13, WriteHolds

LEMMA BlockHolds ==
  ASSUME IInv, NEW e \in Emails, NEW status \in BOOLEAN, Block(e, status)
  PROVE  IInv'
<1>1. /\ Exists(e) /\ blockedBy[e].times < MaxBlocks
      /\ users' = [users EXCEPT ![e].blocked = status]
      /\ blockedBy' = [blockedBy EXCEPT ![e] = [status |-> status, times |-> @.times + 1]]
      /\ Touch(e, Calls)
      /\ UNCHANGED <<profiles, application, outbox, call, sessions, bloom>>
  BY DEF Block
<1>2. DataTyped /\ CallsTyped
  BY DEF IInv
<1>3. users[e] \in Account /\ EmailHolds(e) /\ RowHolds(e) /\ Told(e)
  BY <1>1, <1>2, RowTypes DEF IInv, EmailHolds
<1>4. /\ users'[e] \in Account /\ Exists(e)' /\ users'[e].blocked = status
      /\ users'[e].role = users[e].role /\ users'[e].google = users[e].google
      /\ users'[e].verified = users[e].verified /\ users'[e].name = users[e].name
      /\ \A d \in Emails \ {e} : users'[d] = users[d]
  BY <1>1, <1>2, <1>3 DEF DataTyped, Account, Exists, NoUser, Roles
<1>5. /\ blockedBy' \in [Emails -> [status : BOOLEAN, times : 0..MaxBlocks]]
      /\ blockedBy'[e].status = status
      /\ \A d \in Emails \ {e} : blockedBy'[d] = blockedBy[d]
  <2>1. blockedBy \in [Emails -> [status : BOOLEAN, times : 0..MaxBlocks]] /\ MaxBlocks \in Nat
    BY <1>2, AccountsAssumption DEF DataTyped
  <2>2. [status |-> status, times |-> blockedBy[e].times + 1]
          \in [status : BOOLEAN, times : 0..MaxBlocks]
    BY <1>1, <2>1
  <2>. QED BY <1>1, <2>1, <2>2
<1>6. CallsTyped' /\ \A d \in Calls : call'[d] = call[d]
  BY <1>1, <1>2 DEF CallsTyped
<1>7. /\ mixed \subseteq mixed' /\ mixed' \subseteq Emails
      /\ \A d \in Emails \ {e} : d \in mixed' <=> d \in mixed
      /\ \A d \in Calls : GoesByRow(call[d]) /\ call[d].email = e => e \in mixed'
  BY <1>1, TouchFacts
<1>8. \A n : Covered(n) => Covered(n)'
  BY <1>1, <1>6, CoverageKept
<1>9. DataTyped'
  BY <1>1, <1>2, <1>4, <1>5, <1>7 DEF DataTyped
<1>10. Grows(e)
  BY <1>1, <1>4, <1>7 DEF Grows
<1>11. EmailHolds(e)'
  <2>1. RowHolds(e)' /\ Told(e)' /\ (e \notin mixed' => Settled(e)')
    BY <1>1, <1>3, <1>4, <1>5, <1>7 DEF EmailHolds, RowHolds, Told, Settled
  <2>2. \A r \in sessions'[e] : Earned(e, r)'
    BY <1>1, <1>3, <1>10, EarnedGrows DEF EmailHolds
  <2>. QED BY <1>4, <2>1, <2>2 DEF EmailHolds
<1>12. NamesHold'
  BY <1>1, <1>4, <1>8, NamesKept
<1>13. /\ \A d \in Emails \ {e} : SameAccount(d) /\ sessions'[d] = sessions[d]
       /\ {} \in SUBSET Calls
  BY <1>1, <1>4, <1>5 DEF SameAccount, SameRows
<1>. QED BY <1>6, <1>7, <1>8, <1>9, <1>10, <1>11, <1>12, <1>13, WriteHolds

LEMMA NameWriteHolds ==
  ASSUME IInv, NEW c \in Calls, call[c] # Idle, NameWrite(c)
  PROVE  IInv'
<1>. PICK e, name : e = call[c].email /\ name = call[c].keeps
  OBVIOUS
<1>1. /\ At(c, "rename", "write") /\ ~At(c, "rename", "add") /\ ~Taken(e, name)
      /\ users' = [users EXCEPT ![e].name = name]
      /\ Touch(e, Calls \ {c}) /\ Goto(c, "add", name)
      /\ UNCHANGED <<profiles, application, outbox, sessions, bloom, blockedBy>>
  BY DEF NameWrite, At
<1>2. /\ CallHolds(c) /\ e \in Emails /\ DataTyped /\ CallsTyped /\ Exists(e)
      /\ name \in Names
  BY <1>1 DEF IInv, CallsTyped, CallRecord, CallHolds, At
<1>3. users[e] \in Account /\ EmailHolds(e) /\ RowHolds(e) /\ Told(e)
  BY <1>2, RowTypes DEF IInv, EmailHolds
<1>4. /\ users'[e] \in Account /\ Exists(e)' /\ users'[e].name = name
      /\ users'[e].role = users[e].role /\ users'[e].google = users[e].google
      /\ users'[e].verified = users[e].verified /\ users'[e].blocked = users[e].blocked
      /\ \A d \in Emails \ {e} : users'[d] = users[d]
  BY <1>1, <1>2, <1>3 DEF DataTyped, Account, Exists, NoUser, Roles
<1>5. /\ CallsTyped'
      /\ call'[c].op = "rename" /\ call'[c].stage = "add" /\ call'[c] # Idle
      /\ call'[c].email = e /\ call'[c].keeps = name
      /\ \A d \in Calls \ {c} : call'[d] = call[d]
  <2>1. name \in Keepsakes /\ "add" \in Stages
    BY <1>2 DEF Keepsakes, Stages
  <2>2. CallsTyped' /\ call'[c].op = "rename" /\ call'[c].stage = "add"
        /\ call'[c].email = e /\ call'[c].keeps = name
        /\ \A d \in Calls \ {c} : call'[d] = call[d]
    BY <1>1, <1>2, <2>1, GotoIs DEF CallsTyped, At
  <2>. QED BY <2>2 DEF Idle
<1>6. /\ mixed \subseteq mixed' /\ mixed' \subseteq Emails
      /\ \A d \in Emails \ {e} : d \in mixed' <=> d \in mixed
      /\ \A d \in Calls \ {c} : GoesByRow(call[d]) /\ call[d].email = e => e \in mixed'
  BY <1>1, <1>2, TouchFacts
<1>7. \A n : Covered(n) => Covered(n)'
  BY <1>1, <1>5, CoverageKept
<1>8. DataTyped'
  BY <1>1, <1>2, <1>4, <1>6 DEF DataTyped
<1>9. Grows(e)
  BY <1>1, <1>2, <1>4, <1>6 DEF Grows
<1>10. EmailHolds(e)'
  <2>1. RowHolds(e)' /\ Told(e)' /\ (e \notin mixed' => Settled(e)')
    BY <1>1, <1>2, <1>3, <1>4, <1>6 DEF EmailHolds, RowHolds, Told, Settled
  <2>2. \A r \in sessions'[e] : Earned(e, r)'
    BY <1>1, <1>3, <1>9, EarnedGrows DEF EmailHolds
  <2>. QED BY <1>4, <2>1, <2>2 DEF EmailHolds
<1>11. CallHolds(c)'
  BY <1>2, <1>4, <1>5 DEF CallHolds
<1>12. NamesHold'
  <2>1. Covered(name)'
    BY <1>5 DEF Covered, Adding, At
  <2>2. \A d \in Emails \ {e} : Exists(d)' = Exists(d)
    BY <1>4 DEF Exists
  <2>3. \A d \in Emails \ {e} : Exists(d) => name = NoName \/ users[d].name # name
    BY <1>1 DEF Taken
  <2>. QED BY <1>4, <1>7, <2>1, <2>2, <2>3 DEF IInv, NamesHold
<1>13. /\ \A d \in Emails \ {e} : SameAccount(d) /\ sessions'[d] = sessions[d]
       /\ {c} \in SUBSET Calls /\ \A d \in {c} : call'[d] # Idle => CallHolds(d)'
  BY <1>1, <1>4, <1>11 DEF SameAccount, SameRows
<1>. QED BY <1>2, <1>5, <1>6, <1>7, <1>8, <1>9, <1>10, <1>12, <1>13, WriteHolds

-----------------------------------------------------------------------------
(* The steps that are left: the filter, an application, a restart.         *)

LEMMA NameAddHolds ==
  ASSUME IInv, NEW c \in Calls, call[c] # Idle, NameAdd(c)
  PROVE  IInv'
<1>1. /\ At(c, "rename", "add") /\ bloom' = bloom \cup {call[c].keeps}
      /\ call' = [call EXCEPT ![c] = Idle]
      /\ UNCHANGED <<users, profiles, application, outbox, sessions, mixed, blockedBy>>
  BY DEF NameAdd, Finish, data, past
<1>2. /\ CallsTyped' /\ call'[c] = Idle /\ \A d \in Calls \ {c} : call'[d] = call[d]
      /\ DataTyped /\ CallHolds(c)
  BY <1>1 DEF IInv, CallsTyped
<1>3. \A n : Covered(n) => Covered(n)'
  BY <1>1, <1>2, CoverageKept
<1>4. DataTyped'
  BY <1>1, <1>2 DEF DataTyped, CallHolds, At
<1>5. \A e \in Emails : SameAccount(e) /\ EmailHolds(e)'
  BY <1>1, EmailKept DEF IInv, SameAccount, SameRows
<1>6. ASSUME NEW d \in Calls, call'[d] # Idle PROVE CallHolds(d)'
  <2>1. call[d] # Idle /\ CallHolds(d) /\ call'[d] = call[d] /\ call[d].email \in Emails
    BY <1>2, <1>6 DEF IInv, CallsTyped, CallRecord
  <2>. QED BY <1>1, <1>3, <1>5, <2>1, CallKept DEF SameAccount
<1>7. NamesHold'
  BY <1>1, <1>3 DEF IInv, NamesHold, Exists
<1>. QED BY <1>2, <1>4, <1>5, <1>6, <1>7 DEF IInv

(* Only who has a token of an applicant applies.                           *)
LEMMA SubmitHolds ==
  ASSUME IInv, NEW e \in Emails, Submit(e)
  PROVE  IInv'
<1>1. /\ May(e, "apply") /\ application[e] = "none"
      /\ application' = [application EXCEPT ![e] = "pending"]
      /\ UNCHANGED <<users, profiles, outbox, call, sessions, bloom, mixed, blockedBy>>
  BY DEF Submit, past
<1>2. DataTyped /\ CallsTyped' /\ \A d \in Calls : call'[d] = call[d]
  BY <1>1 DEF IInv, CallsTyped
<1>3. "EXPERT_APPLICANT" \in sessions[e]
  <2>1. PICK role \in sessions[e] : Admits("apply", Token(role))
    BY <1>1 DEF May
  <2>2. role \in Roles
    BY <1>2, <2>1 DEF DataTyped
  <2>. QED BY <2>1, <2>2, RoleAdmits
<1>4. Exists(e) /\ profiles[e].user = 0 /\ e \notin Staff /\ EmailHolds(e)
  BY <1>3, KnownExists DEF IInv, EmailHolds, Earned
<1>5. /\ application' \in [Emails -> Statuses] /\ application'[e] = "pending"
      /\ \A d \in Emails \ {e} : application'[d] = application[d]
  BY <1>1, <1>2 DEF DataTyped, Statuses
<1>6. DataTyped'
  BY <1>1, <1>2, <1>5 DEF DataTyped
<1>7. \A n : Covered(n) => Covered(n)'
  BY <1>1, <1>2, CoverageKept
<1>8. ASSUME NEW d \in Emails PROVE SameRows(d) /\ EmailHolds(d)'
  <2>1. SameRows(d)
    BY <1>1 DEF SameRows
  <2>2. CASE d # e
    BY <1>1, <1>5, <2>1, <2>2, EmailKept DEF IInv, SameAccount
  <2>3. CASE d = e
    <3>1. RowHolds(e)' /\ Told(e)' /\ (e \notin mixed' => Settled(e)') /\ Exists(e)'
      BY <1>1, <1>4, <1>5 DEF EmailHolds, RowHolds, Told, Settled, Exists
    <3>2. \A r \in sessions'[e] : Earned(e, r)'
      BY <1>1, <1>4, <2>1, <2>3, EarnedKept DEF EmailHolds
    <3>. QED BY <2>1, <2>3, <3>1, <3>2 DEF EmailHolds
  <2>. QED BY <2>1, <2>2, <2>3
<1>9. ASSUME NEW d \in Calls, call'[d] # Idle PROVE CallHolds(d)'
  <2>1. call[d] # Idle /\ CallHolds(d) /\ call'[d] = call[d] /\ call[d].email \in Emails
    BY <1>2, <1>9 DEF IInv, CallsTyped, CallRecord
  <2>2. \/ application[call[d].email] = "none"
        \/ application'[call[d].email] = application[call[d].email]
    BY <1>1, <1>5, <2>1
  <2>. QED BY <1>1, <1>7, <1>8, <2>1, <2>2, CallKept
<1>10. NamesHold'
  BY <1>1, <1>7 DEF IInv, NamesHold, Exists
<1>. QED BY <1>2, <1>6, <1>8, <1>9, <1>10 DEF IInv

(* A restart ends every call and fills the filter anew.                    *)
LEMMA CrashHolds ==
  ASSUME IInv, Crash
  PROVE  IInv'
<1>1. /\ call' = [c \in Calls |-> Idle] /\ bloom' = StartFilter(users)
      /\ UNCHANGED <<users, profiles, application, outbox, sessions, mixed, blockedBy>>
  BY DEF Crash, data, past
<1>2. DataTyped /\ CallsTyped' /\ \A c \in Calls : call'[c] = Idle
  BY <1>1 DEF IInv, CallsTyped
<1>3. \A e \in Emails : Exists(e) => users[e].name \in bloom' \cup {NoName}
  BY <1>1 DEF StartFilter, Exists
<1>4. bloom' \subseteq Names
  <2>1. \A e \in Emails : Exists(e) => users[e].name \in Names \cup {NoName}
    BY <1>2, RowTypes DEF Account
  <2>. QED BY <1>1, <2>1 DEF StartFilter, Exists
<1>5. DataTyped'
  BY <1>1, <1>2, <1>4 DEF DataTyped
<1>6. \A e \in Emails : EmailHolds(e)'
  BY <1>1, EmailKept DEF IInv, SameAccount, SameRows
<1>7. NamesHold'
  <2>1. \A e \in Emails : Exists(e)' => Covered(users[e].name)'
    BY <1>1, <1>3 DEF Covered, Exists
  <2>. QED BY <1>1, <2>1 DEF IInv, NamesHold, Exists
<1>. QED BY <1>2, <1>5, <1>6, <1>7 DEF IInv

-----------------------------------------------------------------------------
(* The invariant is inductive,                                             *)

LEMMA InitHolds == Init => IInv
<1>. SUFFICES ASSUME Init PROVE IInv
  OBVIOUS
<1>1. DataTyped
  BY AccountsAssumption DEF Init, DataTyped, Statuses
<1>2. \A e \in Emails : EmailHolds(e)
  BY DEF Init, EmailHolds, Exists, Fresh
<1>3. CallsTyped /\ \A c \in Calls : call[c] = Idle
  BY DEF Init, CallsTyped
<1>4. NamesHold
  BY DEF Init, NamesHold, Exists
<1>. QED BY <1>1, <1>2, <1>3, <1>4 DEF IInv

LEMMA NextHolds == IInv /\ [Next]_vars => IInv'
<1>. SUFFICES ASSUME IInv, [Next]_vars PROVE IInv'
  OBVIOUS
<1>1. CASE UNCHANGED vars
  BY <1>1 DEF vars, data, past, IInv, DataTyped, CallsTyped, EmailHolds, Fresh, RowHolds,
              Told, Settled, Earned, Exists, NamesHold, Covered, Adding, At, CallHolds,
              CreateHolds, SignHolds, RefreshHolds, VerifyHolds, ReviewHolds
<1>2. ASSUME NEW c \in Calls, call[c] = Idle, NEW e \in Emails, StartCall(c, e) PROVE IInv'
  BY <1>2, StartsHold
<1>3. ASSUME NEW c \in Calls, call[c] # Idle, AuthStep(c) PROVE IInv'
  BY <1>3, CreatesHold, GoogleLinkHolds, RefusalsHold, SignsHold, VerifyWriteHolds DEF AuthStep
<1>4. ASSUME NEW c \in Calls, call[c] # Idle, ReviewStep(c) PROVE IInv'
  BY <1>4, ApproveCheckHolds, ApproveWriteHolds, RejectWriteHolds DEF ReviewStep
<1>5. ASSUME NEW c \in Calls, call[c] # Idle, NameStep(c) PROVE IInv'
  BY <1>5, NameWriteHolds, NameAddHolds, RefusalsHold DEF NameStep
<1>6. ASSUME NEW e \in Emails,
             \/ RegisterExpert(e) \/ CreateAdmin(e) \/ Submit(e)
             \/ \E status \in BOOLEAN : Block(e, status)
      PROVE  IInv'
  BY <1>6, RegistersHold, SubmitHolds, BlockHolds
<1>7. CASE Crash
  BY <1>7, CrashHolds
<1>. QED BY <1>1, <1>2, <1>3, <1>4, <1>5, <1>6, <1>7 DEF Next

(* and holds in every behaviour.                                           *)
LEMMA InvHolds == Spec => []IInv
BY InitHolds, NextHolds, PTL DEF Spec

LEMMA InvSettles == IInv => AccountSettled
BY DEF IInv, EmailHolds, Settled, AccountSettled

LEMMA InvTells == IInv => EventsTellAccount
<1>. SUFFICES ASSUME IInv, NEW e \in Emails
              PROVE LET has(n) == outbox[e][n] > 0
                        account == Exists(e) /\ users[e].role # "ADMIN" IN
                    /\ outbox[e].registered = IF account THEN 1 ELSE 0
                    /\ has("verified") <=> account /\ users[e].verified
                    /\ outbox[e].onboarded = profiles[e].expert
                    /\ outbox[e].approved = outbox[e].onboarded
                    /\ application[e] = "approved" => has("approved")
                    /\ application[e] = "rejected" => has("rejected")
                    /\ has("approved") \/ has("rejected")
                         => application[e] \in {"approved", "rejected"}
  BY DEF EventsTellAccount
<1>1. EmailHolds(e)
  BY DEF IInv
<1>2. CASE Exists(e)
  BY <1>1, <1>2 DEF EmailHolds, Told
<1>3. CASE ~Exists(e)
  BY <1>1, <1>3 DEF EmailHolds, Fresh, EventNames, ProfileKinds
<1>. QED BY <1>2, <1>3

LEMMA InvEarns == IInv => RoutesAreEarned
<1>. SUFFICES ASSUME IInv, NEW e \in Emails
              PROVE /\ May(e, "workshops") => outbox[e].approved > 0
                    /\ May(e, "applications") \/ May(e, "blockStatus") => e \in Staff
                    /\ May(e, "apply") => /\ profiles[e].user = 0
                                          /\ users[e].verified \/ users[e].google
  BY DEF RoutesAreEarned
<1>1. \A role \in sessions[e] : role \in Roles /\ Earned(e, role)
  BY DEF IInv, EmailHolds, DataTyped
<1>2. /\ May(e, "workshops") => "EXPERT" \in sessions[e]
      /\ May(e, "applications") \/ May(e, "blockStatus") => "ADMIN" \in sessions[e]
      /\ May(e, "apply") => "EXPERT_APPLICANT" \in sessions[e]
  BY <1>1, RoleAdmits DEF May
<1>. QED BY <1>1, <1>2 DEF Earned

(* Every variable keeps its type, calls work with rows as they are in the  *)
(* table, and no two accounts have one username.                           *)
THEOREM AccountsTyped == Spec => []TypeOK
BY InvHolds, InvTypes, PTL

(* For any staff and any overlap of calls, tokens open the routes of       *)
(* experts only to the approved, those of administrators only to staff,    *)
(* those of applicants only to who is not a user and was vouched for.      *)
THEOREM RoutesEarned == Spec => []RoutesAreEarned
BY InvHolds, InvEarns, PTL

(* The outbox tells what became of every account, whatever overlaps.       *)
THEOREM EventsTell == Spec => []EventsTellAccount
BY InvHolds, InvTells, PTL

(* An account no write overlapped has one review, one expert profile and   *)
(* the block status an administrator last set.                             *)
THEOREM UnmixedSettled == Spec => []AccountSettled
BY InvHolds, InvSettles, PTL

(* The Bloom filter misses no username in the table, but for one that its  *)
(* call has still to add.                                                  *)
THEOREM BloomCovers == Spec => []BloomCoversNames
<1>1. IInv => BloomCoversNames
  BY DEF IInv, NamesHold, Covered, Adding, BloomCoversNames
<1>. QED BY <1>1, InvHolds, PTL

(* Tokens are signed for the role the account has then, and sessions       *)
(* opened for no account that is blocked, unless it is mixed.              *)
THEOREM SignedCurrent == Spec => SignedIsCurrent
<1>. DEFINE Current(c) == LET e == call[c].email IN
              /\ OpenSession(c) /\ e \notin mixed =>
                   call[c].keeps = users[e].role /\ ~users[e].blocked
              /\ RefreshSign(c) /\ e \notin mixed => call[c].keeps = users[e].role
            Signs == \A c \in Calls : Current(c)
<1>1. IInv /\ [Next]_vars => [Signs]_vars
  <2>. SUFFICES ASSUME IInv, NEW c \in Calls PROVE Current(c)
    OBVIOUS
  <2>1. ASSUME OpenSession(c) PROVE Current(c)
    <3>1. call[c] # Idle /\ ~RefreshSign(c)
      BY <2>1 DEF OpenSession, RefreshSign, Idle, At
    <3>2. SignHolds(c)
      BY <2>1, <3>1 DEF OpenSession, IInv, CallHolds
    <3>. QED BY <3>1, <3>2 DEF SignHolds
  <2>2. ASSUME RefreshSign(c) PROVE Current(c)
    <3>1. call[c] # Idle /\ ~OpenSession(c) /\ call[c].op = "refresh" /\ call[c].stage = "sign"
      BY <2>2 DEF OpenSession, RefreshSign, At
    <3>2. call[c].email \in Emails /\ CallHolds(c)
      BY <3>1 DEF IInv, CallsTyped, CallRecord
    <3>3. RefreshHolds(c) /\ Exists(call[c].email) /\ EmailHolds(call[c].email)
      BY <3>1, <3>2 DEF IInv, CallHolds
    <3>4. Earned(call[c].email, call[c].keeps) /\ RowHolds(call[c].email)
      BY <3>3 DEF RefreshHolds, EmailHolds
    <3>5. call[c].email \notin mixed => call[c].keeps = users[call[c].email].role
      BY <3>3, <3>4 DEF RefreshHolds, ReadsAccount, Earned, RowHolds, Roles
    <3>. QED BY <3>1, <3>5
  <2>. QED BY <2>1, <2>2
<1>2. []IInv /\ [][Next]_vars => [][Signs]_vars
  BY <1>1, PTL
<1>3. [][Signs]_vars => SignedIsCurrent
  BY PTL DEF SignedIsCurrent
<1>. QED BY <1>2, <1>3, InvHolds, PTL DEF Spec
=============================================================================
