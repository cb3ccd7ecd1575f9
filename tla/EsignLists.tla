----------------------------- MODULE EsignLists -----------------------------
(***************************************************************************)
(* The listings of the e-signature API: templates, documents of a task     *)
(* list, signature requests, and the documents and document categories of  *)
(* employees and companies (src/services/integrations/esignature).  The    *)
(* first three ask HelloSign about the rows of a page and leave out what   *)
(* it does not answer for.                                                 *)
(***************************************************************************)
EXTENDS Pagination

OfficeRoles == BureauRoles \cup {HrManager, HrAdmin, HrRestrictedAdmin}

HasRole(who, roles) == who.roles \cap roles # {}

GetConfigurationData(who, plan) == Unless("configuration" \notin who.found, plan)

GetCompanyDetails(who, plan) == Unless(~ValidateCompany(who), plan)

ValidateEmployeeId(who, plan) == Unless("employee" \notin who.found, plan)

-----------------------------------------------------------------------------
(* Templates. *)

GetConsolidatedCompanyDocumentsByCompanyIdSql == Query("ties", "rows", TRUE)

GetOnboardingDocumentsByCompanyIdSql == Query("ties", "rows", TRUE)

GetEsignatureMetadataByCompanyIdSql == Unordered

TemplatesSql(o) ==
    IF IsTrue(o, "consolidated") THEN GetConsolidatedCompanyDocumentsByCompanyIdSql
    ELSE IF IsTrue(o, "onboarding") THEN GetOnboardingDocumentsByCompanyIdSql
    ELSE GetEsignatureMetadataByCompanyIdSql

\* Parameters nobody knows are not looked at.
ListTemplates(who, o) ==
    Unless(Given(o, "consolidated") /\ Given(o, "onboarding"),
        GetConfigurationData(who, Dropping(NothingIfEmpty(TemplatesSql(o)))))

-----------------------------------------------------------------------------
(* The documents of a task list. *)

GetTaskListDocumentsSql == Query("unique", "rows", TRUE)

DocumentParams == {"categoryId", "category", "docType", "pageToken"}

DocumentParamsValid(o) ==
    /\ ValidateQueryParams(o, DocumentParams)
    /\ "categoryId" \in DOMAIN o /\ o["categoryId"] \in {"", "number"}
    /\ Given(o, "category") => o["category"] = "onboarding"
    /\ Given(o, "docType") => o["docType"] \in {"hellosign", "original", "all"}
    /\ Given(o, "category") \/ ("docType" \in DOMAIN o /\ o["docType"] = "all")

\* Only the originals, or only the templates of HelloSign it still knows.
TaskListDocuments(o) ==
    Unless(~DocumentParamsValid(o), Dropping(NothingIfEmpty(GetTaskListDocumentsSql)))

ListDocuments(who, o) == GetConfigurationData(who, TaskListDocuments(o))

-----------------------------------------------------------------------------
(* Signature requests.  The parameters do not include the token.           *)

GetConsolidatedEmployeeDocumentsByEESql == Query("ties", "rows", TRUE)

GetConsolidatedEmployeeDocumentsByCompanyIdSql == Query("ties", "rows", TRUE)

GetEsignatureMetadataByEESql == Unordered

SignatureRequestParamsValid(o) ==
    /\ ValidateQueryParams(o, {"status", "consolidated"})
    /\ Given(o, "status") => o["status"] \in {"signed", "pending"}
    /\ Given(o, "consolidated") => o["consolidated"] = "true"

\* The query of a company's metadata gets no value for its search, and fails.
SignatureRequestsSql(manager, consolidated) ==
    CASE manager /\ consolidated  -> GetConsolidatedEmployeeDocumentsByEESql
      [] ~manager /\ consolidated -> GetConsolidatedEmployeeDocumentsByCompanyIdSql
      [] manager /\ ~consolidated -> GetEsignatureMetadataByEESql
      [] OTHER                    -> Refusal

CompanySignatureRequests(who, o, manager) ==
    Unless(~SignatureRequestParamsValid(o),
        GetConfigurationData(who,
            Dropping(NothingIfEmpty(SignatureRequestsSql(manager, IsTrue(o, "consolidated"))))))

ListCompanySignatureRequests(who, o) ==
    CompanySignatureRequests(who, o, HasRole(who, {HrManager}))

-----------------------------------------------------------------------------
(* Categories of documents: sorted, and each once.                         *)

GetDocumentCategoriesByCompanySql == Query("unique", "rows", TRUE)

GetEmployeeCategoriesByCompanyIdSql == Query("unique", "more", TRUE)

GetEmployeeCategoriesByCompanyForManagerSql == Query("unique", "more", TRUE)

GetEmployeeCategoriesByEmployeeIdSql == Query("unique", "more", TRUE)

CategoriesByCompany(who, o) ==
    Strict(o, {"pageToken"},
        GetCompanyDetails(who, IF HasRole(who, {HrManager})
                               THEN GetEmployeeCategoriesByCompanyForManagerSql
                               ELSE GetEmployeeCategoriesByCompanyIdSql))

CategoriesByEmployee(who, o) ==
    Strict(o, {"pageToken"},
        ValidateEmployeeId(who,
            GetCompanyDetails(who, GetEmployeeCategoriesByEmployeeIdSql)))

CategoriesOfCompany(who, o) ==
    Strict(o, {"pageToken"}, GetCompanyDetails(who, GetDocumentCategoriesByCompanySql))

\* The handlers answer nothing instead of an empty page.
ListEmployeeDocumentCategoriesByCompany(who, o) ==
    Unless(~HasRole(who, OfficeRoles), NothingIfEmpty(CategoriesByCompany(who, o)))

ListEmployeeDocumentCategories(who, o) ==
    NothingIfEmpty(IF HasRole(who, OfficeRoles) THEN CategoriesByCompany(who, o)
                                                ELSE CategoriesByEmployee(who, o))

ListCompanyDocumentCategories(who, o) == NothingIfEmpty(CategoriesOfCompany(who, o))

-----------------------------------------------------------------------------
(* Legacy, uploaded and signed documents. *)

GetEmployeeLegacyAndSignedDocumentsSql == Query("ties", "rows", TRUE)

GetEmployeeLegacyAndSignedDocumentsByCompanyIdSql == Query("ties", "rows", TRUE)

GetEmployeeLegacyAndSignedDocumentsByCompanyForManagerSql == Query("ties", "rows", TRUE)

GetEmployeeLegacyAndSignedDocumentsByEmployeeIdSql == Query("ties", "rows", TRUE)

GetEmployeeLegacyAndSignedDocuments(query) == NothingIfEmpty(query)

ValidateQueryStringParameters(o, valid, plan) == Strict(o, valid, plan)

DocumentsByTenant(o) ==
    ValidateQueryStringParameters(o, {"pageToken", "search"},
        GetEmployeeLegacyAndSignedDocuments(GetEmployeeLegacyAndSignedDocumentsSql))

ListEmployeeDocumentsByTenant(who, o) ==
    Unless(~HasRole(who, BureauRoles), DocumentsByTenant(o))

DocumentsByCompany(who, o, manager) ==
    ValidateQueryStringParameters(o, {"pageToken", "search", "role"},
        GetCompanyDetails(who,
            GetEmployeeLegacyAndSignedDocuments(
                IF manager THEN GetEmployeeLegacyAndSignedDocumentsByCompanyForManagerSql
                           ELSE GetEmployeeLegacyAndSignedDocumentsByCompanyIdSql)))

\* A manager sees his reports where he asks in that role, and all otherwise.
ListEmployeeDocumentsByCompany(who, o) ==
    Unless(~HasRole(who, OfficeRoles) \/ ("role" \in DOMAIN o /\ o["role"] # "manager"),
        DocumentsByCompany(who, o, HasRole(who, {HrManager}) /\ "role" \in DOMAIN o))

EmployeeDocuments(who, o, private) ==
    ValidateQueryStringParameters(o, {"pageToken", "search"},
        ValidateEmployeeId(who,
            GetCompanyDetails(who,
                GetEmployeeLegacyAndSignedDocuments(
                    GetEmployeeLegacyAndSignedDocumentsByEmployeeIdSql))))

\* Who works in an office sees the private ones too: other rows, paged alike.
ListEmployeeDocuments(who, o) == EmployeeDocuments(who, o, HasRole(who, OfficeRoles))
=============================================================================
