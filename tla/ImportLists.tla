----------------------------- MODULE ImportLists -----------------------------
(***************************************************************************)
(* The listings of the employee import and of direct deposits              *)
(* (src/services/api/employee-import and api/direct-deposits).  An import  *)
(* page has the limit of the service, its details the default one.         *)
(***************************************************************************)
EXTENDS Pagination

ImportRoles == BureauRoles \cup {HrAdmin}

Authorized(who, path, plan) == Unless(~CheckAuthorization(who, ImportRoles, path), plan)

-----------------------------------------------------------------------------
ListDataImportTypesSql == Sized(Unordered, "array")

GetDataImportTypes(who, o) == Authorized(who, "tenant", ListDataImportTypesSql)

-----------------------------------------------------------------------------
(* Data imports, the last ones first.  The queries of one type have two    *)
(* conditions with no word between them, and fail; a search or a process   *)
(* is looked for among all types.                                          *)

ListDataImportByCompanySql == Unordered

ListDataImportByCompanyWithSearchSql == Unordered

ListDataImportByCompanyAndTypeSql == Refusal

ListDataImportSql == Unordered

ListDataImportWithSearchSql == Unordered

ListDataImportByTypeSql == Refusal

DataImportParams == {"pageToken", "search", "status", "active", "importProcess"}

Searches(o) == Given(o, "search") \/ Given(o, "importProcess")

ListDataImports(o, typed) ==
    Strict(o, DataImportParams,
        Sized(IF Searches(o) THEN ListDataImportByCompanyWithSearchSql
              ELSE IF typed THEN ListDataImportByCompanyAndTypeSql
              ELSE ListDataImportByCompanySql, "own"))

ListAllDataImports(o, typed) ==
    Strict(o, DataImportParams,
        Sized(IF Searches(o) THEN ListDataImportWithSearchSql
              ELSE IF typed THEN ListDataImportByTypeSql
              ELSE ListDataImportSql, "own"))

GetDataImportEvent(who, o) == Authorized(who, "company", ListDataImports(o, FALSE))

GetDataImportEventByType(who, o) == Authorized(who, "company", ListDataImports(o, TRUE))

GetAllDataImportEvent(who, o) == Authorized(who, "tenant", ListAllDataImports(o, FALSE))

ListDataImportEventDetailsSql == Unordered

ListDataImportEventDetails(o) == Strict(o, {"pageToken"}, ListDataImportEventDetailsSql)

GetDataImportEventDetails(who, o) ==
    Authorized(who, "tenant", ListDataImportEventDetails(o))

-----------------------------------------------------------------------------
(* Direct deposits. *)

DirectDepositListSql == Ordered

DirectDepositService(o) == Strict(o, {"pageToken"}, DirectDepositListSql)

\* The user is the employee whose deposits they are, has a role of that level,
\* and none that forbids the page.
CheckSecurityRoles(who) ==
    /\ "employee" \in who.own
    /\ HrEmployee \in who.roles
    /\ "deposits" \in who.permissions

DirectDepositList(who, o) ==
    Unless(~CheckSecurityRoles(who), NothingIfEmpty(DirectDepositService(o)))
=============================================================================
