------------------------ MODULE StaffAccountsProofs ------------------------
(***************************************************************************)
(* Proofs that accounts are typed, that an administrator remains, that a   *)
(* sign-out is final and that no two accounts share an address, for any    *)
(* number of accounts and of requests at once, as long as no two of them   *)
(* are to change one account.                                              *)
(***************************************************************************)
EXTENDS StaffAccountsProperties, TLAPS

USE AccountsAssumption

\* Of an account about to be changed, what makes it an administrator is as
\* it was loaded.
RowsFresh ==
  \A s \in Session :
    req[s] # Idle /\ req[s].op = "update" =>
      /\ user[req[s].target].role = req[s].row.role
      /\ user[req[s].target].active = req[s].row.active
      /\ req[s].change \in Change

\* The rows a request has locked are administrators other than its target,
\* and there is one if it is about to take an administrator away.
LocksHeld ==
  \A s \in Session :
    req[s] # Idle =>
      /\ req[s].locks \subseteq ActiveAdmins \ {req[s].target}
      /\ (/\ req[s].op = "update" /\ req[s].pc \in {"email", "commit"}
          /\ LosesAdmin(req[s].row, req[s].change)) => req[s].locks # {}

Creating ==
  \A s \in Session :
    req[s] # Idle /\ req[s].op = "create" => req[s].change \in [email : SentEmail, role : Offered]

AdminInv ==
  TypeOK /\ RowsFresh /\ LocksHeld /\ Creating /\ TargetsApart /\ AnAdminRemains

IsAdmin(row) == row.role = "admin" /\ row.active = "yes"

-----------------------------------------------------------------------------
\* A step that only moves a request along.
LEMMA MovesKeep ==
  ASSUME AdminInv, TargetsApart', NEW s \in Session, NEW q \in Request \cup {Idle},
         Continue(s, q),
         q # Idle =>
           /\ q.locks \subseteq ActiveAdmins \ {q.target}
           /\ q.op = "create" => q.change \in [email : SentEmail, role : Offered]
           /\ q.op # "create" => q.row # NoUser /\ user[q.target] # NoUser
           /\ q.op = "update" =>
                /\ q.change \in Change
                /\ user[q.target].role = q.row.role /\ user[q.target].active = q.row.active
                /\ q.pc \in {"email", "commit"} /\ LosesAdmin(q.row, q.change) => q.locks # {}
  PROVE  AdminInv'
<1>1. /\ req' = [req EXCEPT ![s] = q] /\ req \in [Session -> Request \cup {Idle}]
      /\ user' = user /\ tokens' = tokens
  BY DEF Continue, AdminInv, TypeOK
<1>2. TypeOK'
  BY <1>1 DEF AdminInv, TypeOK
<1>3. RowsFresh' /\ Creating'
  BY <1>1 DEF AdminInv, RowsFresh, Creating
<1>4. LocksHeld'
  BY <1>1 DEF AdminInv, LocksHeld, ActiveAdmins
<1>5. AnAdminRemains'
  BY <1>1 DEF AdminInv, AnAdminRemains, ActiveAdmins
<1> QED
  BY <1>2, <1>3, <1>4, <1>5 DEF AdminInv

\* A step that writes the row its request is about.
LEMMA WritesKeep ==
  ASSUME AdminInv, TargetsApart', NEW s \in Session, NEW row \in User,
         Writing(s), Write(s, req[s].target, row), tokens' \subseteq Token,
         user[req[s].target] # NoUser /\ IsAdmin(user[req[s].target]) =>
           IsAdmin(row) \/ req[s].locks # {}
  PROVE  AdminInv'
<1> DEFINE a == req[s].target
<1>1. /\ req \in [Session -> Request \cup {Idle}] /\ user \in [Account -> User \cup {NoUser}]
      /\ user' = [user EXCEPT ![a] = row] /\ req' = [req EXCEPT ![s] = Idle]
      /\ a \in Account
  BY DEF Write, Writing, AdminInv, TypeOK, Request
<1>2. \A t \in Session \ {s} :
        /\ Writing(t) => req[t].target # a
        /\ req[t] # Idle => a \notin req[t].locks
  BY DEF AdminInv, TargetsApart, Write, RowsFree
<1>3. row # NoUser
  BY DEF User, NoUser, Role
<1>4. TypeOK'
  BY <1>1, <1>2, <1>3 DEF AdminInv, TypeOK
<1>5. RowsFresh' /\ Creating'
  BY <1>1, <1>2 DEF AdminInv, RowsFresh, Creating, TypeOK, Request, Writing
<1>6. \A b \in ActiveAdmins \ {a} : b \in ActiveAdmins'
  BY <1>1 DEF ActiveAdmins
<1>7. LocksHeld'
  BY <1>1, <1>2, <1>6 DEF AdminInv, LocksHeld
<1>8. AnAdminRemains'
  <2>1. CASE ActiveAdmins \ {a} # {}
    BY <2>1, <1>6 DEF AnAdminRemains
  <2>2. CASE ActiveAdmins \ {a} = {}
    <3>1. a \in ActiveAdmins
      BY <2>2 DEF AdminInv, AnAdminRemains
    <3>2. req[s].locks = {}
      BY <2>2 DEF AdminInv, LocksHeld, Writing
    <3>3. user[a] # NoUser /\ IsAdmin(user[a])
      BY <3>1 DEF ActiveAdmins, IsAdmin, NoUser
    <3>4. IsAdmin(row)
      BY <3>2, <3>3
    <3> QED
      BY <1>1, <3>4 DEF AnAdminRemains, ActiveAdmins, IsAdmin
  <2> QED
    BY <2>1, <2>2
<1> QED
  BY <1>4, <1>5, <1>7, <1>8 DEF AdminInv

-----------------------------------------------------------------------------
\* Nothing an update commits takes an administrator away unless the rows of
\* the others were counted.
LEMMA UpdateCounted ==
  ASSUME AdminInv, NEW s \in Session, At(s, "update", "commit"),
         IsAdmin(user[req[s].target])
  PROVE  IsAdmin(Updated(req[s])) \/ req[s].locks # {}
<1>1. /\ user[req[s].target] \in User
      /\ req[s].change \in Change
      /\ req[s].row.role = "admin" /\ req[s].row.active = "yes"
  BY DEF AdminInv, TypeOK, RowsFresh, Request, At, IsAdmin
<1>2. CASE LosesAdmin(req[s].row, req[s].change)
  BY <1>2 DEF AdminInv, LocksHeld, At
<1>3. CASE ~LosesAdmin(req[s].row, req[s].change)
  <2>1. ~Changes(req[s].row, req[s].change, "role") /\ req[s].change.active # "no"
    BY <1>1, <1>3 DEF LosesAdmin
  <2>2. ~Changes(req[s].row, req[s].change, "active")
    BY <1>1, <2>1 DEF Changes, Change, Flag
  <2> QED
    BY <1>1, <2>1, <2>2 DEF Updated, IsAdmin, User
<1> QED
  BY <1>2, <1>3

LEMMA LowerTyped == \A e \in SentEmail : Lower[e] \in Email
  BY DEF Email

LEMMA UpdatedTyped ==
  ASSUME AdminInv, NEW s \in Session, At(s, "update", "commit")
  PROVE  Updated(req[s]) \in User
<1>1. user[req[s].target] \in User /\ req[s].change \in Change
  BY DEF AdminInv, TypeOK, RowsFresh, Request, At
<1>2. Changes(req[s].row, req[s].change, "role") => req[s].change.role \in Role
  BY <1>1 DEF Changes, Change
<1>3. Changes(req[s].row, req[s].change, "active") => req[s].change.active \in Flag
  BY <1>1 DEF Changes, Change
<1>4. NewEmail(req[s].row, req[s].change) => Stored(req[s].change.email) \in Email
  BY <1>1, LowerTyped DEF NewEmail, Stored, Change
<1> QED
  BY <1>1, <1>2, <1>3, <1>4 DEF Updated, User

-----------------------------------------------------------------------------
\* A handler's first step loads a row and is about no other.
LEMMA BeginKeeps ==
  ASSUME AdminInv, TargetsApart', NEW s \in Session, NEW a \in Account,
         NEW op \in {"login", "logout", "password", "create", "update"},
         NEW pc \in {"verify", "commit", "count", "email"},
         NEW change \in {NoChange} \cup [email : SentEmail, role : Offered] \cup Change,
         Begin(s, op, pc, a, change),
         op = "create" => change \in [email : SentEmail, role : Offered],
         op # "create" => user[a] # NoUser,
         op = "update" =>
           /\ change \in Change
           /\ pc # "count" => ~LosesAdmin(user[a], change)
  PROVE  AdminInv'
<1> DEFINE q == [op |-> op, pc |-> pc, target |-> a, row |-> user[a],
                 change |-> change, locks |-> {}]
<1>1. user[a] \in User \cup {NoUser} /\ Continue(s, q)
  BY DEF AdminInv, TypeOK, Begin
<1>2. q \in Request
  BY <1>1 DEF Request
<1>3. /\ q.op = op /\ q.pc = pc /\ q.target = a /\ q.row = user[a]
      /\ q.change = change /\ q.locks = {}
  OBVIOUS
<1> HIDE DEF q
<1> QED
  BY <1>1, <1>2, <1>3, MovesKeep

\* A change starts without locks and with a count if it needs one.
LEMMA ChangeKeeps ==
  ASSUME AdminInv, TargetsApart', NEW s \in Session, NEW a \in Account,
         NEW change \in Change, BeginChange(s, a, change)
  PROVE  AdminInv'
<1> user[a] # NoUser /\ Begin(s, "update", IF LosesAdmin(user[a], change) THEN "count"
                              ELSE IF NewEmail(user[a], change) THEN "email" ELSE "commit",
                              a, change)
  BY DEF BeginChange
<1> QED
  BY BeginKeeps

LEMMA RefusalKeeps ==
  ASSUME AdminInv, TargetsApart', NEW s \in Session, Refuse(s)
  PROVE  AdminInv'
  BY MovesKeep DEF Refuse

\* One step of a request, action by action.
LEMMA StepKeeps ==
  ASSUME AdminInv, TargetsApart', NEW s \in Session, Step(s)
  PROVE  AdminInv'
<1>0. /\ user \in [Account -> User \cup {NoUser}] /\ tokens \subseteq Token
      /\ req[s] \in Request \cup {Idle}
      /\ \A t \in tokens : t.user \in Account
  BY DEF AdminInv, TypeOK, Token
<1>1. CASE Login(s)
  BY <1>1, BeginKeeps DEF Login
<1>2. CASE LoginIssue(s)
  <2>1. req[s].op = "login" /\ req[s] # Idle /\ req[s] \in Request
    BY <1>0, <1>2 DEF LoginIssue, At
  <2>2. req[s].target \in Account /\ req[s].row \in User
    BY <2>1 DEF AdminInv, TypeOK, Request
  <2>3. TokenFor(req[s].target, req[s].row) \in Token
    BY <2>2 DEF TokenFor, Token, User
  <2>4. tokens' \subseteq Token /\ user' = user /\ req' = [req EXCEPT ![s] = Idle]
    BY <1>0, <1>2, <2>3 DEF LoginIssue
  <2> QED
    BY <2>4 DEF AdminInv, TypeOK, RowsFresh, LocksHeld, Creating, AnAdminRemains, ActiveAdmins
<1>3. CASE Logout(s)
  BY <1>0, <1>3, BeginKeeps DEF Logout, Accepted, Matches
<1>4. CASE LogoutCommit(s)
  <2>1. req[s].op = "logout" /\ req[s] # Idle /\ req[s] \in Request
    BY <1>0, <1>4 DEF LogoutCommit, At
  <2>2. req[s].row \in User /\ user[req[s].target] \in User
    BY <2>1 DEF AdminInv, TypeOK, Request
  <2>3. SignedOut(req[s]) \in Version
    BY <1>4, <2>2 DEF LogoutCommit, SignedOut, User, Version
  <2> DEFINE row == [user[req[s].target] EXCEPT !.version = SignedOut(req[s])]
  <2>4. row \in User /\ (IsAdmin(user[req[s].target]) => IsAdmin(row))
    BY <2>2, <2>3 DEF User, IsAdmin
  <2>5. Write(s, req[s].target, row) /\ tokens' \subseteq Token
    BY <1>0, <1>4 DEF LogoutCommit
  <2> HIDE DEF row
  <2> QED
    BY <2>1, <2>4, <2>5, WritesKeep DEF Writing
<1>5. CASE ChangePassword(s)
  BY <1>0, <1>5, BeginKeeps DEF ChangePassword, Accepted, Matches
<1>6. CASE PasswordCommit(s)
  <2>1. req[s].op = "password" /\ req[s] # Idle /\ req[s] \in Request
    BY <1>0, <1>6 DEF PasswordCommit, At
  <2>2. req[s].row \in User /\ user[req[s].target] \in User /\ req[s].target \in Account
    BY <2>1 DEF AdminInv, TypeOK, Request
  <2> DEFINE key == user[req[s].target].key + 1
             row == [user[req[s].target] EXCEPT !.key = key]
             token == TokenFor(req[s].target, [req[s].row EXCEPT !.key = key])
  <2>3. key \in Key
    BY <1>6, <2>2 DEF PasswordCommit, User, Key
  <2>4. row \in User /\ (IsAdmin(user[req[s].target]) => IsAdmin(row))
    BY <2>2, <2>3 DEF User, IsAdmin
  <2>5. token \in Token
    BY <2>2, <2>3 DEF TokenFor, Token, User
  <2>6. Write(s, req[s].target, row) /\ tokens' \subseteq Token
    BY <1>0, <1>6, <2>5 DEF PasswordCommit
  <2> HIDE DEF row
  <2> QED
    BY <2>1, <2>4, <2>6, WritesKeep DEF Writing
<1>7. CASE Create(s)
  <2> PICK t \in tokens, a \in Account, email \in SentEmail, role \in Offered :
         Begin(s, "create", "commit", a, [email |-> email, role |-> role])
    BY <1>7 DEF Create
  <2>1. [email |-> email, role |-> role] \in [email : SentEmail, role : Offered]
    OBVIOUS
  <2> QED
    BY <2>1, BeginKeeps
<1>8. CASE CreateCommit(s)
  <2>1. req[s].op = "create" /\ req[s] # Idle /\ user[req[s].target] = NoUser
    BY <1>8 DEF CreateCommit, At
  <2>2. req[s].change \in [email : SentEmail, role : Offered]
    BY <2>1 DEF AdminInv, Creating
  <2> DEFINE row == [role |-> req[s].change.role, active |-> "yes", key |-> 0, version |-> 0,
                     email |-> Stored(req[s].change.email)]
  <2>3. row \in User
    BY <2>2, LowerTyped DEF User, Stored, Flag, Key, Version
  <2>4. CASE Write(s, req[s].target, row) /\ UNCHANGED tokens
    <3> HIDE DEF row
    <3> QED
      BY <1>0, <2>1, <2>3, <2>4, WritesKeep DEF Writing
  <2> QED
    BY <1>8, <2>4, RefusalKeeps DEF CreateCommit
<1>9. CASE Authorised(s)
  <2> PICK t \in tokens, a \in Account, change \in Change : BeginChange(s, a, change)
    BY <1>9 DEF Authorised
  <2> QED
    BY ChangeKeeps
<1>14. CASE Deactivate(s)
  <2>1. Removal \in Change
    BY DEF Removal, Change, Flag
  <2> PICK a \in Account : BeginChange(s, a, Removal)
    BY <1>14 DEF Deactivate
  <2> QED
    BY <2>1, ChangeKeeps
<1>10. CASE Count(s)
  <2> DEFINE left == ActiveAdmins \ {req[s].target}
             q == [req[s] EXCEPT !.locks = left,
                                 !.pc = IF NewEmail(req[s].row, req[s].change) THEN "email"
                                        ELSE "commit"]
  <2>1. req[s].op = "update" /\ req[s] # Idle /\ req[s] \in Request
    BY <1>0, <1>10 DEF Count, At
  <2>2. left \subseteq Account
    BY DEF ActiveAdmins
  <2>3. /\ q \in Request /\ q.locks = left /\ q.target = req[s].target /\ q.op = req[s].op
        /\ q.row = req[s].row /\ q.change = req[s].change
    BY <2>1, <2>2 DEF Request
  <2>4. CASE left # {} /\ Continue(s, q)
    <3> HIDE DEF q
    <3>1. /\ q.change \in Change /\ q.row # NoUser /\ user[q.target] # NoUser
          /\ user[q.target].role = q.row.role /\ user[q.target].active = q.row.active
      BY <2>1, <2>3 DEF AdminInv, TypeOK, RowsFresh
    <3> QED
      BY <2>1, <2>3, <2>4, <3>1, MovesKeep
  <2> QED
    BY <1>10, <2>4, RefusalKeeps DEF Count
<1>11. CASE UpdateEmail(s)
  <2> DEFINE q == [req[s] EXCEPT !.pc = "commit"]
  <2>1. req[s].op = "update" /\ req[s].pc = "email" /\ req[s] # Idle /\ req[s] \in Request
    BY <1>0, <1>11 DEF UpdateEmail, At
  <2>2. /\ q \in Request /\ q.locks = req[s].locks /\ q.target = req[s].target
        /\ q.op = req[s].op /\ q.row = req[s].row /\ q.change = req[s].change
    BY <2>1 DEF Request
  <2>3. CASE Continue(s, q)
    <3> HIDE DEF q
    <3>1. /\ q.change \in Change /\ q.row # NoUser /\ user[q.target] # NoUser
          /\ user[q.target].role = q.row.role /\ user[q.target].active = q.row.active
      BY <2>1, <2>2 DEF AdminInv, TypeOK, RowsFresh
    <3>2. /\ q.locks \subseteq ActiveAdmins \ {q.target}
          /\ LosesAdmin(q.row, q.change) => q.locks # {}
      BY <2>1, <2>2 DEF AdminInv, LocksHeld
    <3> QED
      BY <2>1, <2>2, <2>3, <3>1, <3>2, MovesKeep
  <2> QED
    BY <1>11, <2>3, RefusalKeeps DEF UpdateEmail, GoTo
<1>12. CASE UpdateCommit(s)
  <2>1. At(s, "update", "commit") /\ req[s] # Idle
    BY <1>12 DEF UpdateCommit, At
  <2>2. CASE Write(s, req[s].target, Updated(req[s])) /\ UNCHANGED tokens
    BY <1>0, <2>1, <2>2, UpdateCounted, UpdatedTyped, WritesKeep DEF Writing, At
  <2> QED
    BY <1>12, <2>2, RefusalKeeps DEF UpdateCommit
<1>13. CASE Rollback(s)
  BY <1>13, RefusalKeeps DEF Rollback
<1> QED
  BY <1>1, <1>2, <1>3, <1>4, <1>5, <1>6, <1>7, <1>8, <1>9, <1>10, <1>11, <1>12, <1>13, <1>14
  DEF Step

LEMMA InitAdmin == Init => AdminInv
<1> SUFFICES ASSUME Init PROVE AdminInv
  OBVIOUS
<1>1. user \in [Account -> User \cup {NoUser}]
  BY DEF Init, User, Flag, Key, Version
<1>2. \A a \in Account : user[a].role = "admin" => user[a] # NoUser /\ user[a].active = "yes"
  BY DEF Init, NoUser
<1> QED
  BY <1>1, <1>2 DEF Init, AdminInv, TypeOK, RowsFresh, LocksHeld, Creating, TargetsApart,
                   AnAdminRemains, ActiveAdmins, Writing

LEMMA AdminInvariant == ApartSpec => []AdminInv
<1>1. AdminInv /\ [Next /\ TargetsApart']_vars => AdminInv'
  <2> SUFFICES ASSUME AdminInv, [Next /\ TargetsApart']_vars PROVE AdminInv'
    OBVIOUS
  <2>1. CASE UNCHANGED vars
    BY <2>1 DEF vars, AdminInv, TypeOK, RowsFresh, LocksHeld, Creating, TargetsApart,
                AnAdminRemains, ActiveAdmins, Writing
  <2>2. CASE Next /\ TargetsApart'
    BY <2>2, StepKeeps DEF Next
  <2> QED
    BY <2>1, <2>2
<1> QED
  BY <1>1, InitAdmin, PTL DEF ApartSpec

\* Rows, tokens and requests in flight are typed.
THEOREM AccountsTyped == ApartSpec => []TypeOK
<1>1. AdminInv => TypeOK
  BY DEF AdminInv
<1> QED
  BY <1>1, AdminInvariant, PTL

\* Administrators who demote and deactivate one another at the same moment
\* never leave the hotel without one: the rows counted stay locked until the
\* commit, and whoever would change one of them waits.
THEOREM AdministratorRemains == ApartSpec => []AnAdminRemains
<1>1. AdminInv => AnAdminRemains
  BY DEF AdminInv
<1> QED
  BY <1>1, AdminInvariant, PTL

-----------------------------------------------------------------------------
(***************************************************************************)
(* Keys and versions only grow, and nothing runs ahead of them: neither a  *)
(* token nor a row that a request has loaded.  A request that is to change *)
(* an account still knows its key and version as they are.                 *)
(***************************************************************************)

Behind(of, row) == of.key <= row.key /\ of.version <= row.version

TokensBehind == \A t \in tokens : user[t.user] # NoUser /\ Behind(t, user[t.user])

Current(q) ==
  q # Idle /\ q.op # "create" =>
    /\ Behind(q.row, user[q.target])
    /\ q.op \in {"logout", "password"} => Behind(user[q.target], q.row)

RequestsCurrent == \A s \in Session : Current(req[s])

RevocationInv == AdminInv /\ TokensBehind /\ RequestsCurrent

\* What one step of session s may do to accounts, to tokens and to requests.
RowsGrow(s) ==
  \/ user' = user
  \/ /\ Writing(s) /\ req'[s] = Idle
     /\ \E row \in User :
          /\ user' = [user EXCEPT ![req[s].target] = row]
          /\ user[req[s].target] # NoUser => Behind(user[req[s].target], row)

TokensMade == \A t \in tokens' \ tokens : user'[t.user] # NoUser /\ Behind(t, user'[t.user])

Effect(s) ==
  /\ RowsGrow(s) /\ TokensMade /\ Current(req[s])'
  /\ \A t \in Session \ {s} : req'[t] = req[t]

LEMMA MovesHaveEffect ==
  ASSUME RevocationInv, NEW s \in Session, NEW q, Continue(s, q), Current(q)
  PROVE  Effect(s)
<1>1. user' = user /\ tokens' = tokens /\ req' = [req EXCEPT ![s] = q]
      /\ req \in [Session -> Request \cup {Idle}]
  BY DEF RevocationInv, AdminInv, TypeOK, Continue
<1> QED
  BY <1>1 DEF Effect, RowsGrow, TokensMade, Current

LEMMA BeginHasEffect ==
  ASSUME RevocationInv, NEW s \in Session, NEW a \in Account, NEW op, NEW pc, NEW change,
         Begin(s, op, pc, a, change), op # "create" => user[a] # NoUser
  PROVE  Effect(s)
<1> DEFINE q == [op |-> op, pc |-> pc, target |-> a, row |-> user[a],
                 change |-> change, locks |-> {}]
<1>1. Continue(s, q)
  BY DEF Begin
<1>2. op # "create" => user[a].key \in Nat /\ user[a].version \in Nat
  BY DEF RevocationInv, AdminInv, TypeOK, User, Key, Version
<1>3. Current(q)
  BY <1>2 DEF Current, Behind
<1> HIDE DEF q
<1> QED
  BY <1>1, <1>3, MovesHaveEffect

LEMMA RefusalHasEffect ==
  ASSUME RevocationInv, NEW s \in Session, Refuse(s)
  PROVE  Effect(s)
  BY MovesHaveEffect DEF Refuse, Current

LEMMA WriteHasEffect ==
  ASSUME RevocationInv, NEW s \in Session, NEW row \in User, Writing(s),
         Write(s, req[s].target, row), TokensMade,
         user[req[s].target] # NoUser => Behind(user[req[s].target], row)
  PROVE  Effect(s)
<1>1. /\ user' = [user EXCEPT ![req[s].target] = row] /\ req' = [req EXCEPT ![s] = Idle]
      /\ req \in [Session -> Request \cup {Idle}]
  BY DEF RevocationInv, AdminInv, TypeOK, Write
<1>2. req'[s] = Idle
  BY <1>1
<1>3. RowsGrow(s)
  BY <1>1, <1>2 DEF RowsGrow
<1>4. Current(req[s])'
  BY <1>2 DEF Current
<1> QED
  BY <1>1, <1>3, <1>4 DEF Effect

LEMMA StepHasEffect ==
  ASSUME RevocationInv, NEW s \in Session, Step(s)
  PROVE  Effect(s)
<1>0. /\ req[s] \in Request \cup {Idle} /\ tokens \subseteq Token
      /\ user \in [Account -> User \cup {NoUser}]
      /\ \A t \in tokens : t.user \in Account
      /\ Current(req[s])
      /\ req[s] # Idle /\ req[s].op # "create" =>
           /\ req[s] \in Request /\ req[s].target \in Account
           /\ req[s].row \in User /\ user[req[s].target] \in User
  BY DEF RevocationInv, AdminInv, TypeOK, Request, RequestsCurrent, Token
<1>1. CASE Login(s)
  BY <1>1, BeginHasEffect DEF Login
<1>2. CASE LoginIssue(s)
  <2>1. /\ req[s] # Idle /\ req[s].op = "login"
        /\ tokens' = tokens \cup {TokenFor(req[s].target, req[s].row)}
        /\ user' = user /\ req' = [req EXCEPT ![s] = Idle]
        /\ req \in [Session -> Request \cup {Idle}]
    BY <1>2 DEF LoginIssue, At, RevocationInv, AdminInv, TypeOK
  <2>2. user[req[s].target] # NoUser /\ Behind(req[s].row, user[req[s].target])
    BY <1>0, <2>1 DEF Current, RevocationInv, AdminInv, TypeOK
  <2>3. TokensMade
    BY <2>1, <2>2 DEF TokensMade, TokenFor, Behind
  <2> QED
    BY <2>1, <2>3 DEF Effect, RowsGrow, Current
<1>3. CASE Logout(s)
  BY <1>0, <1>3, BeginHasEffect DEF Logout, Accepted, Matches
<1>4. CASE LogoutCommit(s)
  <2> DEFINE row == [user[req[s].target] EXCEPT !.version = SignedOut(req[s])]
  <2>1. /\ req[s] # Idle /\ req[s].op = "logout" /\ Write(s, req[s].target, row)
        /\ tokens' = tokens /\ SignedOut(req[s]) <= MaxVersion
    BY <1>4 DEF LogoutCommit, At
  <2>2. req[s].row \in User /\ user[req[s].target] \in User
        /\ req[s].row.version = user[req[s].target].version
    BY <1>0, <2>1 DEF Current, Behind, User, Version
  <2>3. row \in User /\ Behind(user[req[s].target], row)
    BY <2>1, <2>2 DEF SignedOut, User, Key, Version, Behind
  <2> HIDE DEF row
  <2> QED
    BY <2>1, <2>3, WriteHasEffect DEF Writing, TokensMade
<1>5. CASE ChangePassword(s)
  BY <1>0, <1>5, BeginHasEffect DEF ChangePassword, Accepted, Matches
<1>6. CASE PasswordCommit(s)
  <2> DEFINE key == user[req[s].target].key + 1
             row == [user[req[s].target] EXCEPT !.key = key]
             token == TokenFor(req[s].target, [req[s].row EXCEPT !.key = key])
  <2>1. /\ req[s] # Idle /\ req[s].op = "password" /\ Write(s, req[s].target, row)
        /\ tokens' = tokens \cup {token} /\ key <= MaxKey
    BY <1>6 DEF PasswordCommit, At
  <2>2. /\ req[s].row \in User /\ user[req[s].target] \in User /\ req[s].target \in Account
        /\ req[s].row.version = user[req[s].target].version
    BY <1>0, <2>1 DEF Current, Behind, User, Version
  <2>3. row \in User /\ Behind(user[req[s].target], row)
    BY <2>1, <2>2 DEF User, Key, Version, Behind
  <2>4. /\ token.user = req[s].target /\ token.key = key
        /\ token.version = user[req[s].target].version
    BY <2>2 DEF TokenFor, User
  <2>5. row.key = key /\ row.version = user[req[s].target].version /\ row # NoUser
    BY <2>2, <2>3 DEF User, NoUser, Role
  <2>6. user'[req[s].target] = row /\ key \in Nat /\ row.version \in Nat
    BY <1>0, <2>1, <2>2, <2>3 DEF Write, User, Key, Version
  <2> HIDE DEF row, token, key
  <2>7. TokensMade
    BY <2>1, <2>4, <2>5, <2>6 DEF TokensMade, Behind
  <2> QED
    BY <2>1, <2>3, <2>7, WriteHasEffect DEF Writing
<1>7. CASE Create(s)
  BY <1>7, BeginHasEffect DEF Create
<1>8. CASE CreateCommit(s)
  <2>1. req[s].op = "create" /\ req[s] # Idle /\ user[req[s].target] = NoUser
    BY <1>8 DEF CreateCommit, At
  <2>2. req[s].change \in [email : SentEmail, role : Offered]
    BY <2>1 DEF RevocationInv, AdminInv, Creating
  <2> DEFINE row == [role |-> req[s].change.role, active |-> "yes", key |-> 0, version |-> 0,
                     email |-> Stored(req[s].change.email)]
  <2>3. row \in User
    BY <2>2, LowerTyped DEF User, Stored, Flag, Key, Version
  <2>4. CASE Write(s, req[s].target, row) /\ UNCHANGED tokens
    <3> HIDE DEF row
    <3> QED
      BY <2>1, <2>3, <2>4, WriteHasEffect DEF Writing, TokensMade
  <2> QED
    BY <1>8, <2>4, RefusalHasEffect DEF CreateCommit
<1>9. CASE Authorised(s)
  BY <1>9, BeginHasEffect DEF Authorised, BeginChange
<1>10. CASE Deactivate(s)
  BY <1>10, BeginHasEffect DEF Deactivate, BeginChange
<1>11. CASE Count(s)
  <2> DEFINE q == [req[s] EXCEPT !.locks = ActiveAdmins \ {req[s].target},
                                 !.pc = IF NewEmail(req[s].row, req[s].change) THEN "email"
                                        ELSE "commit"]
  <2>1. req[s].op = "update" /\ req[s] # Idle
    BY <1>11 DEF Count, At
  <2>2. q.op = "update" /\ q.target = req[s].target /\ q.row = req[s].row
    BY <1>0, <2>1 DEF Request
  <2>3. Current(q)
    BY <1>0, <2>1, <2>2 DEF Current
  <2> HIDE DEF q
  <2>4. CASE Continue(s, q)
    BY <2>3, <2>4, MovesHaveEffect
  <2> QED
    BY <1>11, <2>4, RefusalHasEffect DEF Count, q
<1>12. CASE UpdateEmail(s)
  <2> DEFINE q == [req[s] EXCEPT !.pc = "commit"]
  <2>1. req[s].op = "update" /\ req[s] # Idle
    BY <1>12 DEF UpdateEmail, At
  <2>2. q.op = "update" /\ q.target = req[s].target /\ q.row = req[s].row
    BY <1>0, <2>1 DEF Request
  <2>3. Current(q)
    BY <1>0, <2>1, <2>2 DEF Current
  <2> HIDE DEF q
  <2>4. CASE Continue(s, q)
    BY <2>3, <2>4, MovesHaveEffect
  <2> QED
    BY <1>12, <2>4, RefusalHasEffect DEF UpdateEmail, GoTo, q
<1>13. CASE UpdateCommit(s)
  <2>1. At(s, "update", "commit") /\ req[s] # Idle /\ req[s].op = "update"
    BY <1>13 DEF UpdateCommit, At
  <2>2. Updated(req[s]) \in User
    BY <2>1, UpdatedTyped DEF RevocationInv
  <2>3. Behind(user[req[s].target], Updated(req[s]))
    BY <1>0, <2>1 DEF Updated, Behind, User, Key, Version
  <2>4. CASE Write(s, req[s].target, Updated(req[s])) /\ UNCHANGED tokens
    BY <2>1, <2>2, <2>3, <2>4, WriteHasEffect DEF Writing, TokensMade
  <2> QED
    BY <1>13, <2>4, RefusalHasEffect DEF UpdateCommit
<1>14. CASE Rollback(s)
  BY <1>14, RefusalHasEffect DEF Rollback
<1> QED
  BY <1>1, <1>2, <1>3, <1>4, <1>5, <1>6, <1>7, <1>8, <1>9, <1>10, <1>11, <1>12, <1>13, <1>14
  DEF Step

\* An effect never lets a row fall back.
LEMMA EffectsGrow ==
  ASSUME RevocationInv, NEW s \in Session, Effect(s), NEW a \in Account, user[a] # NoUser
  PROVE  user'[a] \in User /\ user'[a] # NoUser /\ Behind(user[a], user'[a])
<1>1. user \in [Account -> User \cup {NoUser}] /\ user[a] \in User
  BY DEF RevocationInv, AdminInv, TypeOK
<1>2. \A row \in User : row # NoUser /\ Behind(row, row)
  BY DEF User, NoUser, Role, Behind, Key, Version
<1> QED
  BY <1>1, <1>2 DEF Effect, RowsGrow

LEMMA BehindTransitive ==
  \A x, y, z \in User \cup Token : Behind(x, y) /\ Behind(y, z) => Behind(x, z)
<1>1. \A x \in User \cup Token : x.key \in Nat /\ x.version \in Nat
  BY DEF User, Token, Key, Version
<1> QED
  BY <1>1 DEF Behind

LEMMA EffectsKeep ==
  ASSUME RevocationInv, NEW s \in Session, Effect(s), AdminInv'
  PROVE  RevocationInv'
<1>1. /\ req \in [Session -> Request \cup {Idle}] /\ tokens \subseteq Token
      /\ user \in [Account -> User \cup {NoUser}]
      /\ \A q \in Request : q.target \in Account
      /\ \A t \in tokens : t.user \in Account
  BY DEF RevocationInv, AdminInv, TypeOK, Request, Token
<1>2. TokensBehind'
  <2> SUFFICES ASSUME NEW t \in tokens' PROVE user'[t.user] # NoUser /\ Behind(t, user'[t.user])
    BY DEF TokensBehind
  <2>1. CASE t \notin tokens
    BY <2>1 DEF Effect, TokensMade
  <2>2. CASE t \in tokens
    <3>1. t.user \in Account /\ user[t.user] # NoUser /\ Behind(t, user[t.user]) /\ t \in Token
      BY <1>1, <2>2 DEF RevocationInv, TokensBehind
    <3>2. user[t.user] \in User
      BY <1>1, <3>1
    <3>3. /\ user'[t.user] \in User /\ user'[t.user] # NoUser
          /\ Behind(user[t.user], user'[t.user])
      BY <3>1, EffectsGrow
    <3> QED
      BY <3>1, <3>2, <3>3, BehindTransitive
  <2> QED
    BY <2>1, <2>2
<1>3. RequestsCurrent'
  <2> SUFFICES ASSUME NEW t \in Session PROVE Current(req[t])'
    BY DEF RequestsCurrent
  <2>1. CASE t = s
    BY <2>1 DEF Effect
  <2>2. CASE t # s
    <3>1. req'[t] = req[t] /\ Current(req[t])
      BY <2>2 DEF Effect, RevocationInv, RequestsCurrent
    <3> SUFFICES ASSUME req[t] # Idle, req[t].op # "create" PROVE Current(req[t])'
      BY <3>1 DEF Current
    <3> DEFINE a == req[t].target
    <3>2. /\ a \in Account /\ user[a] # NoUser /\ user[a] \in User /\ req[t].row \in User
      BY <1>1 DEF RevocationInv, AdminInv, TypeOK, Request
    <3>3. user'[a] \in User /\ Behind(user[a], user'[a])
      BY <3>2, EffectsGrow
    <3>4. Behind(req[t].row, user[a])
      BY <3>1 DEF Current
    <3>5. Behind(req[t].row, user'[a])
      BY <3>2, <3>3, <3>4, BehindTransitive
    <3>6. ASSUME req[t].op \in {"logout", "password"} PROVE Behind(user'[a], req[t].row)
      <4>1. Writing(t) /\ Behind(user[a], req[t].row)
        BY <3>1, <3>6 DEF Writing, Current
      <4>2. user'[a] = user[a]
        BY <1>1, <2>2, <3>2, <4>1 DEF Effect, RowsGrow, RevocationInv, AdminInv, TargetsApart
      <4> QED
        BY <4>1, <4>2
    <3> QED
      BY <3>1, <3>5, <3>6 DEF Current
  <2> QED
    BY <2>1, <2>2
<1> QED
  BY <1>2, <1>3 DEF RevocationInv

\* A token that does not match is behind, one that a rekeyed account leaves is
\* behind from then on, and what is behind stays behind.
LEMMA EffectsRevoke ==
  ASSUME RevocationInv, NEW s \in Session, Effect(s), NEW t \in tokens,
         Rekeyed(t.user) \/ ~Matches(t)
  PROVE  ~Matches(t)'
<1> DEFINE before == user[t.user]
           after == user'[t.user]
<1>1. t \in Token /\ t.user \in Account /\ before # NoUser /\ Behind(t, before)
  BY DEF RevocationInv, AdminInv, TypeOK, Token, TokensBehind
<1>2. before \in User
  BY <1>1 DEF RevocationInv, AdminInv, TypeOK
<1>3. after \in User /\ Behind(before, after)
  BY <1>1, EffectsGrow
<1>4. /\ t.key \in Nat /\ before.key \in Nat /\ after.key \in Nat
      /\ t.version \in Nat /\ before.version \in Nat /\ after.version \in Nat
  BY <1>1, <1>2, <1>3 DEF Token, User, Key, Version
<1>5. t = [user |-> t.user, key |-> t.key, version |-> t.version]
  BY <1>1 DEF Token
<1>6. ~Matches(t) => t.key # before.key \/ t.version # before.version
  BY <1>1, <1>5 DEF Matches, TokenFor
<1>7. t.key # after.key \/ t.version # after.version
  BY <1>1, <1>3, <1>4, <1>6 DEF Behind, Rekeyed
<1> SUFFICES ASSUME Matches(t)' PROVE FALSE
  OBVIOUS
<1>8. t = [user |-> t.user, key |-> after.key, version |-> after.version]
  BY DEF Matches, TokenFor
<1> HIDE DEF after
<1> QED
  BY <1>7, <1>8

\* A sign-out or a change of password is final: whatever logins are in flight
\* when it commits, no token issued until then ever matches again, as long as
\* no two requests are to change one account at once.
THEOREM SignOutIsFinal == ApartSpec => RevokedStaysRevoked
<1>1. ASSUME RevocationInv, [Next /\ TargetsApart']_vars
      PROVE  /\ RevocationInv'
             /\ [\A t \in tokens : Rekeyed(t.user) \/ ~Matches(t) => ~Matches(t)']_vars
  <2>1. CASE UNCHANGED vars
    BY <1>1, <2>1 DEF vars, RevocationInv, AdminInv, TypeOK, RowsFresh, LocksHeld, Creating,
      TargetsApart, AnAdminRemains, ActiveAdmins, Writing, TokensBehind, RequestsCurrent, Current
  <2>2. CASE Next /\ TargetsApart'
    <3> PICK s \in Session : Step(s)
      BY <2>2 DEF Next
    <3>1. Effect(s) /\ AdminInv'
      BY <1>1, <2>2, StepHasEffect, StepKeeps DEF RevocationInv
    <3> QED
      BY <1>1, <3>1, EffectsKeep, EffectsRevoke
  <2> QED
    BY <1>1, <2>1, <2>2
<1>2. Init => RevocationInv
  BY InitAdmin DEF Init, RevocationInv, TokensBehind, RequestsCurrent, Current
<1> QED
  BY <1>1, <1>2, PTL DEF ApartSpec, RevokedStaysRevoked

-----------------------------------------------------------------------------
(***************************************************************************)
(* Addresses are kept normalised, so the unique index on what is stored is *)
(* one on what is typed.                                                   *)
(***************************************************************************)
EmailsApart ==
  \A a, b \in Account :
    (a # b /\ user[a] # NoUser /\ user[b] # NoUser) => user[a].email # user[b].email

LEMMA Normalised == \A e \in Email : Lower[e] = e
  BY DEF Email

\* Writing a row whose address is free, or is the one the row had, keeps
\* addresses apart.
LEMMA WriteKeepsApart ==
  ASSUME AdminInv, EmailsApart, NEW s \in Session, NEW row \in User,
         Write(s, req[s].target, row),
         \/ EmailFree(req[s].target, row.email)
         \/ user[req[s].target] # NoUser /\ row.email = user[req[s].target].email
  PROVE  EmailsApart'
<1>1. /\ user \in [Account -> User \cup {NoUser}]
      /\ user' = [user EXCEPT ![req[s].target] = row]
  BY DEF Write, AdminInv, TypeOK
<1> QED
  BY <1>1 DEF EmailsApart, EmailFree

LEMMA StepKeepsApart ==
  ASSUME AdminInv, EmailsApart, NEW s \in Session, Step(s)
  PROVE  EmailsApart'
<1>0. /\ user \in [Account -> User \cup {NoUser}] /\ req[s] \in Request \cup {Idle}
      /\ req[s] # Idle /\ req[s].op # "create" =>
           /\ req[s] \in Request /\ req[s].row \in User
           /\ user[req[s].target] \in User /\ user[req[s].target] # NoUser
  BY DEF AdminInv, TypeOK, Request
<1>1. CASE user' = user
  BY <1>1 DEF EmailsApart
<1>2. CASE CreateCommit(s)
  <2>1. req[s].op = "create" /\ req[s] # Idle
    BY <1>2 DEF CreateCommit, At
  <2>2. req[s].change \in [email : SentEmail, role : Offered]
    BY <2>1 DEF AdminInv, Creating
  <2> DEFINE row == [role |-> req[s].change.role, active |-> "yes", key |-> 0, version |-> 0,
                     email |-> Stored(req[s].change.email)]
  <2>3. row \in User /\ row.email = Stored(req[s].change.email)
    BY <2>2, LowerTyped DEF User, Stored, Flag, Key, Version
  <2>4. CASE EmailFree(req[s].target, Stored(req[s].change.email)) /\ Write(s, req[s].target, row)
    <3> HIDE DEF row
    <3> QED
      BY <2>3, <2>4, WriteKeepsApart
  <2> QED
    BY <1>1, <1>2, <2>4 DEF CreateCommit, Refuse, Continue
<1>3. CASE UpdateCommit(s)
  <2>1. At(s, "update", "commit") /\ req[s] # Idle /\ req[s].op = "update"
    BY <1>3 DEF UpdateCommit, At
  <2>2. Updated(req[s]) \in User
    BY <2>1, UpdatedTyped
  <2>3. Updated(req[s]).email = IF NewEmail(req[s].row, req[s].change)
                                THEN Stored(req[s].change.email)
                                ELSE user[req[s].target].email
    BY <1>0, <2>1 DEF Updated, User
  <2>4. CASE /\ NewEmail(req[s].row, req[s].change)
                  => EmailFree(req[s].target, Stored(req[s].change.email))
             /\ Write(s, req[s].target, Updated(req[s]))
    BY <1>0, <2>1, <2>2, <2>3, <2>4, WriteKeepsApart
  <2> QED
    BY <1>1, <1>3, <2>4 DEF UpdateCommit, Refuse, Continue
<1>4. CASE LogoutCommit(s)
  <2> DEFINE row == [user[req[s].target] EXCEPT !.version = SignedOut(req[s])]
  <2>1. req[s] # Idle /\ req[s].op = "logout" /\ Write(s, req[s].target, row)
        /\ SignedOut(req[s]) <= MaxVersion
    BY <1>4 DEF LogoutCommit, At
  <2>2. row \in User /\ row.email = user[req[s].target].email
    BY <1>0, <2>1 DEF SignedOut, User, Version
  <2> HIDE DEF row
  <2> QED
    BY <1>0, <2>1, <2>2, WriteKeepsApart
<1>5. CASE PasswordCommit(s)
  <2> DEFINE row == [user[req[s].target] EXCEPT !.key = user[req[s].target].key + 1]
  <2>1. req[s] # Idle /\ req[s].op = "password" /\ Write(s, req[s].target, row)
        /\ user[req[s].target].key + 1 <= MaxKey
    BY <1>5 DEF PasswordCommit, At
  <2>2. row \in User /\ row.email = user[req[s].target].email
    BY <1>0, <2>1 DEF User, Key
  <2> HIDE DEF row
  <2> QED
    BY <1>0, <2>1, <2>2, WriteKeepsApart
<1> QED
  BY <1>1, <1>2, <1>3, <1>4, <1>5
  DEF Step, Login, LoginIssue, Logout, ChangePassword, Create, Authorised, Deactivate,
      BeginChange, Begin, Count, UpdateEmail, GoTo, Rollback, Refuse, Continue

\* No two accounts answer to one address, however the two were typed and
\* whichever administrators created or renamed them at the same moment.
THEOREM AddressesUnique == ApartSpec => []EmailsUnique
<1>1. ASSUME AdminInv, EmailsApart, [Next /\ TargetsApart']_vars
      PROVE  EmailsApart'
  <2>1. CASE UNCHANGED vars
    BY <1>1, <2>1 DEF vars, EmailsApart
  <2>2. CASE Next
    BY <1>1, <2>2, StepKeepsApart DEF Next
  <2> QED
    BY <1>1, <2>1, <2>2
<1>2. Init => EmailsApart
  BY DEF Init, EmailsApart
<1>3. AdminInv /\ EmailsApart => EmailsUnique
  <2> SUFFICES ASSUME AdminInv, EmailsApart PROVE EmailsUnique
    OBVIOUS
  <2>1. \A a \in Account : user[a] # NoUser => user[a].email \in Email
    BY DEF AdminInv, TypeOK, User
  <2> QED
    BY <2>1, Normalised DEF EmailsApart, EmailsUnique
<1> QED
  BY <1>1, <1>2, <1>3, AdminInvariant, PTL DEF ApartSpec

=============================================================================
