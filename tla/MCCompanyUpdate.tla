--------------------------- MODULE MCCompanyUpdate ---------------------------
(* The constants of the instructions are those of their own instances.        *)
EXTENDS CompanyUpdate, MCDocumentMove, MCSsoPatch
=============================================================================
