------------------------------- MODULE Gateway -------------------------------
(***************************************************************************)
(* Who may pass the API gateway: the route table, a policy for each group  *)
(* of paths with overrides for single methods and paths, and the check of  *)
(* the access token.  A token is the role it was signed for: the key id    *)
(* names the role, the role chooses the secret, and the role in the signed *)
(* payload has to be the same.                                             *)
(***************************************************************************)
EXTENDS Naturals

Roles == {"USER", "EXPERT", "ADMIN", "EXPERT_APPLICANT"}
NoToken == [kid |-> "none"]

(* The services the gateway proxies to hold applicants and experts apart   *)
(* by role only: both roles share one secret.                              *)
Secret(role) == CASE role = "USER" -> "user"
                  [] role = "ADMIN" -> "admin"
                  [] OTHER -> "expert"

Token(role) == [kid |-> role, role |-> role, signedWith |-> Secret(role)]

Verified(token) ==
  /\ token.kid \in Roles
  /\ token.signedWith = Secret(token.kid)
  /\ token.kid = token.role

(* The policies, by what a request is for: the group of its path, or an    *)
(* override.  A public route asks for no role.                             *)
Protected ==
  [me              |-> Roles,
   updateProfile   |-> {"USER"},
   connections     |-> {"USER", "EXPERT", "ADMIN"},
   users           |-> {"ADMIN"},
   blockStatus     |-> {"ADMIN"},
   onboarding      |-> {"USER"},
   skillProfile    |-> {"USER"},
   workshops       |-> {"EXPERT"},
   cohorts         |-> {"EXPERT"},
   enrollments     |-> {"USER"},
   recommended     |-> {"USER"},
   notifications   |-> Roles,
   experts         |-> {"EXPERT", "ADMIN"},
   applications    |-> {"ADMIN"},
   apply           |-> {"EXPERT_APPLICANT"}]

Public == {"auth", "payments", "skills", "publicWorkshops", "publicCohorts",
           "search"}

(* Without a token only public routes are open; a token has to be good     *)
(* even there.                                                             *)
Admits(route, token) ==
  IF token = NoToken THEN route \in Public
  ELSE /\ Verified(token)
       /\ route \in DOMAIN Protected => token.role \in Protected[route]
=============================================================================
