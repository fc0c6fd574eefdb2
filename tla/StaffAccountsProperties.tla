---------------------- MODULE StaffAccountsProperties ----------------------
(***************************************************************************)
(* What must hold of accounts and tokens.                                  *)
(***************************************************************************)
EXTENDS StaffAccounts

\* Rows, tokens and requests keep their types, and a request that is about an
\* account finds one.
TypeOK ==
  /\ user \in [Account -> User \cup {NoUser}]
  /\ tokens \subseteq Token
  /\ req \in [Session -> Request \cup {Idle}]
  /\ \A s \in Session :
       req[s] # Idle /\ req[s].op # "create" =>
         req[s].row # NoUser /\ user[req[s].target] # NoUser

\* Somebody can always administer the system: no combination of demotions and
\* deactivations, made by several administrators at once, of each other
\* included, leaves no active administrator (_assert_not_last_admin).
AnAdminRemains == ActiveAdmins # {}

\* A sign-out or a new password ends every session opened before it, and for
\* good: no token issued until then matches its account afterwards, and one
\* that does not match never matches again, whatever logins were in flight
\* (revoke_sessions, change_password, get_current_user).
Rekeyed(a) ==
  /\ user[a] # NoUser
  /\ user[a].version # user'[a].version \/ user[a].key # user'[a].key

RevokedStaysRevoked ==
  [][\A t \in tokens : Rekeyed(t.user) \/ ~Matches(t) => ~Matches(t)']_vars

\* An address signs in to one account, in whatever case it was typed
\* (email_taken and the unique index on users.email).
EmailsUnique ==
  \A a, b \in Account :
    (a # b /\ user[a] # NoUser /\ user[b] # NoUser) =>
      Lower[user[a].email] # Lower[user[b].email]

=============================================================================
