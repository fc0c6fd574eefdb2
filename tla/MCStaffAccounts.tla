-------------------------- MODULE MCStaffAccounts --------------------------
(***************************************************************************)
(* A small staff for TLC.                                                  *)
(***************************************************************************)
EXTENDS StaffAccountsProperties, TLC

\* One address typed in two cases, and two others.
MCTypedEmail == {"x", "X", "y", "z"}
MCLower == "x" :> "x" @@ "X" :> "x" @@ "y" :> "y" @@ "z" :> "z"

Symmetries == Permutations(Account) \cup Permutations(Session)
=============================================================================
