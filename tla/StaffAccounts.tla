--------------------------- MODULE StaffAccounts ---------------------------
(***************************************************************************)
(* Staff accounts and the tokens issued for them, on PostgreSQL.  A token  *)
(* carries the account, a fingerprint of its password hash and its token   *)
(* version; it is good while all of them match a row that is active.       *)
(*                                                                         *)
(* A request loads rows, asks further questions and commits, and others    *)
(* may commit at each await.  Counting the administrators that would be    *)
(* left locks their rows until the request ends.                           *)
(***************************************************************************)
EXTENDS Naturals, FiniteSets

CONSTANTS
  Account,     \* rows the users table may come to hold
  Session,     \* requests that may be in flight at once
  Offered,     \* roles an administrator assigns in this model
  TypedEmail,  \* addresses as staff type them
  SentEmail,   \* the ones requests send in this model
  Lower,       \* strip().lower() of each
  MaxVersion, MaxKey, MaxTokens  \* bounds on sign-outs, password changes, tokens

Role == {"admin", "manager", "receptionist"}
Flag == {"yes", "no"}  \* is_active
Version == 0 .. MaxVersion
Key == 0 .. MaxKey
Email == {Lower[e] : e \in TypedEmail}

ASSUME AccountsAssumption ==
  /\ Offered \subseteq Role /\ SentEmail \subseteq TypedEmail
  /\ \A e \in TypedEmail : Lower[e] \in TypedEmail /\ Lower[Lower[e]] = Lower[e]
  /\ MaxVersion \in Nat /\ MaxKey \in Nat /\ MaxTokens \in Nat

VARIABLES
  user,    \* the users table
  tokens,  \* every token that was ever issued
  req      \* what each session is in the middle of

vars == <<user, tokens, req>>

NoUser == [role |-> "none"]
User == [role : Role, active : Flag, email : Email, key : Key, version : Version]
Token == [user : Account, key : Key, version : Version]

Idle == [op |-> "idle"]
Keep == "keep"  \* a field the request does not send
NoChange == [to |-> "nothing"]

-----------------------------------------------------------------------------
TokenFor(a, row) == [user |-> a, key |-> row.key, version |-> row.version]

Matches(t) == user[t.user] # NoUser /\ t = TokenFor(t.user, user[t.user])

\* get_current_user
Accepted(t) == Matches(t) /\ user[t.user].active = "yes"

ActiveAdmins == {a \in Account : user[a].role = "admin" /\ user[a].active = "yes"}

\* email_taken, and the unique index behind it.
EmailFree_Unchecked(a, email) == TRUE
EmailFree(a, email) ==
  \A other \in Account \ {a} : user[other] # NoUser => user[other].email # email

\* Rows a session has counted stay locked until it commits or rolls back.
RowsFree(s, rows) == \A t \in Session \ {s} : req[t] # Idle => req[t].locks \cap rows = {}

-----------------------------------------------------------------------------
Continue(s, q) ==
  /\ req' = [req EXCEPT ![s] = q]
  /\ UNCHANGED <<user, tokens>>

Begin(s, op, pc, a, change) ==
  /\ req[s] = Idle
  /\ Continue(s, [op |-> op, pc |-> pc, target |-> a, row |-> user[a],
                 change |-> change, locks |-> {}])

At(s, op, pc) == req[s] # Idle /\ req[s].op = op /\ req[s].pc = pc

GoTo(s, pc) == Continue(s, [req[s] EXCEPT !.pc = pc])

\* An AppError, an untranslated error, or the victim of a deadlock.
Refuse(s) == Continue(s, Idle)

\* An UPDATE or INSERT of one row and the commit after it.
Write(s, a, row) ==
  /\ RowsFree(s, {a})
  /\ user' = [user EXCEPT ![a] = row]
  /\ req' = [req EXCEPT ![s] = Idle]

-----------------------------------------------------------------------------
(***************************************************************************)
(* Signing in and out, and changing one's password.                        *)
(***************************************************************************)

\* The account is loaded, then the password is verified in a thread.
Login(s) ==
  \E a \in Account : user[a] # NoUser /\ Begin(s, "login", "verify", a, NoChange)

\* The token is made from the row as loaded, if that was active.
LoginIssue(s) ==
  LET q == req[s]
  IN  /\ At(s, "login", "verify")
      /\ Cardinality(tokens) < MaxTokens
      /\ q.row.active = "yes"
      /\ tokens' = tokens \cup {TokenFor(q.target, q.row)}
      /\ req' = [req EXCEPT ![s] = Idle]
      /\ UNCHANGED user

Logout(s) ==
  \E t \in tokens : Accepted(t) /\ Begin(s, "logout", "commit", t.user, NoChange)

SignedOut_Toggle(q) == IF q.row.version = 0 THEN 1 ELSE 0
SignedOut(q) == q.row.version + 1

\* revoke_sessions adds one to the version it loaded.
LogoutCommit(s) ==
  LET q == req[s]
  IN  /\ At(s, "logout", "commit")
      /\ SignedOut(q) <= MaxVersion
      /\ Write(s, q.target, [user[q.target] EXCEPT !.version = SignedOut(q)])
      /\ UNCHANGED tokens

ChangePassword(s) ==
  \E t \in tokens : Accepted(t) /\ Begin(s, "password", "commit", t.user, NoChange)

\* A new hash, never seen before, and a token for it with the version loaded.
PasswordCommit(s) ==
  LET q   == req[s]
      key == user[q.target].key + 1
  IN  /\ At(s, "password", "commit")
      /\ key <= MaxKey /\ Cardinality(tokens) < MaxTokens
      /\ Write(s, q.target, [user[q.target] EXCEPT !.key = key])
      /\ tokens' = tokens \cup {TokenFor(q.target, [q.row EXCEPT !.key = key])}

-----------------------------------------------------------------------------
(***************************************************************************)
(* What administrators do to accounts.  The role of the one who asks is    *)
(* read once, when the request is authorised.                              *)
(***************************************************************************)

Admins(t) == Accepted(t) /\ user[t.user].role = "admin"

\* POST /staff: the address is looked up, the password hashed, the row
\* inserted; an address taken by then is an error nobody translates.
Create(s) ==
  \E t \in tokens, a \in Account, email \in SentEmail, role \in Offered :
    /\ Admins(t)
    /\ user[a] = NoUser
    /\ EmailFree(a, Lower[email])
    /\ Begin(s, "create", "commit", a, [email |-> email, role |-> role])

\* create_user and update_user keep the address normalised.
Stored_AsTyped(email) == email
Stored(email) == Lower[email]

CreateCommit(s) ==
  LET q == req[s]
  IN  /\ At(s, "create", "commit")
      /\ user[q.target] = NoUser
      /\ IF EmailFree(q.target, Stored(q.change.email))
         THEN /\ Write(s, q.target,
                       [role |-> q.change.role, active |-> "yes", key |-> 0, version |-> 0,
                        email |-> Stored(q.change.email)])
              /\ UNCHANGED tokens
         ELSE Refuse(s)

\* What PATCH /staff/{id} sends, and what DELETE amounts to.
Change ==
  [role : Offered \cup {Keep}, active : Flag \cup {Keep}, email : SentEmail \cup {Keep}]
Removal == [role |-> Keep, active |-> "no", email |-> Keep]

\* What a session may be in the middle of.
Request ==
  [op : {"login", "logout", "password", "create", "update"},
   pc : {"verify", "commit", "count", "email"},
   target : Account, row : User \cup {NoUser},
   change : {NoChange} \cup [email : SentEmail, role : Offered] \cup Change,
   locks : SUBSET Account]

Changes(row, change, field) == change[field] \notin {Keep, row[field]}

\* Nobody changes their own role or deactivates themselves.
MayChange(actor, a, change) ==
  actor = a => /\ ~Changes(user[a], change, "role")
               /\ ~(change.active = "no" /\ user[a].active = "yes")

\* _assert_not_last_admin is asked about an active administrator only.
LosesAdmin_Role(row, change) ==
  row.role = "admin" /\ row.active = "yes" /\ Changes(row, change, "role")
LosesAdmin(row, change) ==
  /\ row.role = "admin" /\ row.active = "yes"
  /\ Changes(row, change, "role") \/ change.active = "no"

NewEmail(row, change) == change.email # Keep /\ Lower[change.email] # row.email

\* The account is loaded, and the questions its change calls for come next.
BeginChange(s, a, change) ==
  /\ user[a] # NoUser
  /\ Begin(s, "update", IF LosesAdmin(user[a], change) THEN "count"
                        ELSE IF NewEmail(user[a], change) THEN "email" ELSE "commit",
           a, change)

\* PATCH /staff/{id}.
Authorised(s) ==
  \E t \in tokens, a \in Account, change \in Change :
    Admins(t) /\ MayChange(t.user, a, change) /\ BeginChange(s, a, change)

\* DELETE /staff/{id}: nobody deactivates themselves, active or not.
Deactivate(s) ==
  \E t \in tokens, a \in Account :
    Admins(t) /\ a # t.user /\ BeginChange(s, a, Removal)

\* count_active_admins waits for the rows it locks and sees what they are then.
Count(s) ==
  LET q    == req[s]
      left == ActiveAdmins \ {q.target}
  IN  /\ At(s, "update", "count")
      /\ RowsFree(s, left)
      /\ IF left = {} THEN Refuse(s)
         ELSE Continue(s, [q EXCEPT !.locks = left,
                                    !.pc = IF NewEmail(q.row, q.change) THEN "email"
                                           ELSE "commit"])

UpdateEmail(s) ==
  LET q == req[s]
  IN  /\ At(s, "update", "email")
      /\ IF EmailFree(q.target, Lower[q.change.email]) THEN GoTo(s, "commit") ELSE Refuse(s)

\* The UPDATE writes the columns that differ from the row as loaded.
Updated(q) ==
  LET now == user[q.target]
  IN  [now EXCEPT
         !.role   = IF Changes(q.row, q.change, "role") THEN q.change.role ELSE @,
         !.active = IF Changes(q.row, q.change, "active") THEN q.change.active ELSE @,
         !.email  = IF NewEmail(q.row, q.change) THEN Stored(q.change.email) ELSE @]

UpdateCommit(s) ==
  LET q == req[s]
  IN  /\ At(s, "update", "commit")
      /\ IF NewEmail(q.row, q.change) => EmailFree(q.target, Stored(q.change.email))
         THEN Write(s, q.target, Updated(q)) /\ UNCHANGED tokens
         ELSE Refuse(s)

Rollback(s) == req[s] # Idle /\ Refuse(s)

-----------------------------------------------------------------------------
\* The accounts the installation starts with: one administrator at least.
Init ==
  /\ user \in [Account -> {NoUser} \cup
                 [role : Offered, active : {"yes"}, email : Email, key : {0}, version : {0}]]
  /\ \E a \in Account : user[a].role = "admin"
  /\ \A a, b \in Account :
       a # b /\ user[a] # NoUser /\ user[b] # NoUser => user[a].email # user[b].email
  /\ tokens = {}
  /\ req = [s \in Session |-> Idle]

Step(s) ==
  \/ Login(s) \/ LoginIssue(s) \/ Logout(s) \/ LogoutCommit(s)
  \/ ChangePassword(s) \/ PasswordCommit(s)
  \/ Create(s) \/ CreateCommit(s)
  \/ Authorised(s) \/ Deactivate(s) \/ Count(s) \/ UpdateEmail(s) \/ UpdateCommit(s)
  \/ Rollback(s)

Next == \E s \in Session : Step(s)

Spec == Init /\ [][Next]_vars

\* No two requests in flight are to change one account; logins only read.
Writing(s) == req[s] # Idle /\ req[s].op # "login"

TargetsApart ==
  \A s, t \in Session :
    (s # t /\ Writing(s) /\ Writing(t)) => req[s].target # req[t].target

ApartSpec == Init /\ [][Next /\ TargetsApart']_vars

=============================================================================
