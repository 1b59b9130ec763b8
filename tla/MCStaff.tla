------------------------------- MODULE MCStaff -------------------------------
(* Instances of Staff for TLC.                                              *)
EXTENDS Staff, TLC

\* users.manage stands for people.security and the other way round.  ADMIN brings
\* the People operations and users.manage, STYLIST selling; no role brings
\* settings.manage.
Capability1 == [code \in Perms |-> IF code = "users.manage" THEN "security" ELSE code]
Implies1 == [code \in Perms |-> IF code = "security" THEN {"users.manage"} ELSE {}]
Grants1 == [role \in Roles |->
              CASE role = "ADMIN" -> {"people", "users.manage"}
                [] role = "STYLIST" -> {"selling"} [] OTHER -> {}]
Forms == {{}, {"settings"}}
Stylist == {{"STYLIST"}}

Symmetry == Permutations(Reqs) \cup Permutations(Accounts)
=============================================================================
