------------------------------ MODULE Accounts ------------------------------
(***************************************************************************)
(* The account fields that the money paths read, and the operations that    *)
(* write them: the admin service (flag, mark staff, suspend, release a      *)
(* minor) and the member's own withdrawal.  Each of them is one             *)
(* unconditional UPDATE of one row: none looks at the status it replaces.   *)
(*                                                                          *)
(* STAFF_FAMILY is treated as STAFF everywhere in the program and ADMIN as  *)
(* CUSTOMER by everything modelled here, so two roles are enough.           *)
(***************************************************************************)
CONSTANTS
  Users,
  Minors       \* who is a minor on sign-up

ASSUME MinorsAssumption == Minors \subseteq Users

VARIABLE users       \* [Users -> row of table User]

Roles == {"CUSTOMER", "STAFF"}

UserStatuses == {"ACTIVE", "SUSPENDED", "BANNED", "WITHDRAWN", "UNDER_REVIEW",
                 "MINOR_HOLD"}

UserRow == [role : Roles, status : UserStatuses, eligible : BOOLEAN]

AccountsTypeOK == users \in [Users -> UserRow]

\* Sign-up leaves an adult active and payable, and a minor on hold.
AdultRow == [role |-> "CUSTOMER", status |-> "ACTIVE", eligible |-> TRUE]
MinorRow == [role |-> "CUSTOMER", status |-> "MINOR_HOLD", eligible |-> FALSE]

AccountsInit ==
  users = [u \in Users |-> IF u \in Minors THEN MinorRow ELSE AdultRow]

-----------------------------------------------------------------------------

FlagUser(u) == users' = [users EXCEPT ![u].status = "UNDER_REVIEW"]

SuspendUser(u) == users' = [users EXCEPT ![u].status = "SUSPENDED"]

MarkStaff(u, role) == users' = [users EXCEPT ![u].role = role]

ReleaseMinor(u) ==
  users' = [users EXCEPT ![u].status = "ACTIVE", ![u].eligible = TRUE]

Withdraw(u) == users' = [users EXCEPT ![u].status = "WITHDRAWN"]

=============================================================================
