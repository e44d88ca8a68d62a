--------------------------- MODULE MCCompanyAccess ---------------------------
(* CompanyAccess on a few days and two concurrent requests. *)
EXTENDS CompanyAccess, TLC

Symmetry == Permutations(Worker)

=============================================================================
