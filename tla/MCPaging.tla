------------------------------ MODULE MCPaging ------------------------------
(* RegistrationPaging for TLC: one client, rows of its organisation and of  *)
(* another, pages of one row, so that a walk takes several pages.           *)
EXTENDS RegistrationPaging, TLC

CONSTANTS i1, i2, i3, mine, other, l1

MCOrgOf == [l \in Listers |-> mine]
Symmetry == Permutations(Ids)
=============================================================================
