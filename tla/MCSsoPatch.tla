------------------------------ MODULE MCSsoPatch ------------------------------
(* The first user has every role, the others have one.                        *)
EXTENDS SsoPatch

MCDonorRoles ==
    [u \in Users |-> IF u = 1 THEN Roles ELSE {CHOOSE r \in Roles : TRUE}]
=============================================================================
