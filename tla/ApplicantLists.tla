--------------------------- MODULE ApplicantLists ---------------------------
(***************************************************************************)
(* The listings of the applicant tracking API                              *)
(* (src/services/api/applicant-tracking).  Each is its query, named as in  *)
(* queries/applicant-tracking, the service that checks the parameters, and *)
(* the handler, which bears the name of the endpoint.                      *)
(***************************************************************************)
EXTENDS Pagination

ApplicantRoles == BureauRoles \cup {HrAdmin, HrManager, HrEmployee}

\* The handlers of a company's resources, and those of a tenant's: the latter
\* name no company, so that who has the employee's role is refused.
OfTrackedCompany(who, plan) ==
    Unless(~CheckAuthorization(who, ApplicantRoles, "company"), plan)

OfTenant(who, plan) ==
    Unless(~CheckAuthorization(who, ApplicantRoles, "tenant"), plan)

\* What a permission to a resource lets one do without naming a company.
MayRead(who, resource) == resource \in who.permissions

\* The permissions of a user who is not disabled; the administrator of the
\* system needs no other one.
CheckUserAccessPermissions(who, resource) ==
    /\ who.enabled
    /\ who.permissions # {}
    /\ "admin" \in who.permissions \/ MayRead(who, resource)

OfPermitted(who, resource, plan) ==
    Unless(~CheckUserAccessPermissions(who, resource), plan)

\* A paged listing that may be searched, one that may not, and a whole one.
SearchedPage(o, query) == Strict(o, {"pageToken", "searchBy"}, query)

PlainPage(o, query) == Strict(o, {"pageToken"}, query)

Whole(o, query) == Strict(o, {}, Sized(query, "array"))

-----------------------------------------------------------------------------
(* Applications. *)

GetApplicationByCompanySql == Ordered
CompanyApplications(o) == SearchedPage(o, GetApplicationByCompanySql)
GetApplicationByCompany(who, o) == OfTrackedCompany(who, CompanyApplications(o))

GetApplicationNoteByApplicationIdSql == Unordered
ApplicationNotes(o) == SearchedPage(o, GetApplicationNoteByApplicationIdSql)
GetApplicationNoteByApplicationId(who, o) == OfTenant(who, ApplicationNotes(o))

GetApplicationQuestionBankAnswerByTenantSql == Ordered
TenantAnswers(o) == SearchedPage(o, GetApplicationQuestionBankAnswerByTenantSql)
GetApplicationQuestionBankAnswerByTenant(who, o) == OfTenant(who, TenantAnswers(o))

GetApplicationQuestionBankAnswerByCompanySql == Ordered
CompanyAnswers(o) == SearchedPage(o, GetApplicationQuestionBankAnswerByCompanySql)
GetApplicationQuestionBankAnswerByCompany(who, o) == OfTrackedCompany(who, CompanyAnswers(o))

GetApplicationStatusHistoryByTenantSql == Ordered
TenantStatusHistory(o) == SearchedPage(o, GetApplicationStatusHistoryByTenantSql)
GetApplicationStatusHistoryByTenant(who, o) == OfTenant(who, TenantStatusHistory(o))

GetApplicationStatusHistoryByCompanySql == Ordered
CompanyStatusHistory(o) == SearchedPage(o, GetApplicationStatusHistoryByCompanySql)
GetApplicationStatusHistoryByCompany(who, o) == OfTrackedCompany(who, CompanyStatusHistory(o))

GetApplicationVersionByTenantSql == Unordered
TenantVersions(o) == Whole(o, GetApplicationVersionByTenantSql)
GetApplicationVersionByTenant(who, o) == OfTenant(who, TenantVersions(o))

GetApplicationVersionByCompanySql == Ordered
CompanyVersions(o) == Whole(o, GetApplicationVersionByCompanySql)
GetApplicationVersionByCompany(who, o) == OfTrackedCompany(who, CompanyVersions(o))

-----------------------------------------------------------------------------
(* Job postings and status types. *)

GetJobPostingByTenantSql == Unordered
TenantPostings(o) == PlainPage(o, GetJobPostingByTenantSql)
GetJobPostingByTenant(who, o) == OfTenant(who, TenantPostings(o))

GetJobPostingByCompanySql == Ordered
CompanyPostings(o) == SearchedPage(o, GetJobPostingByCompanySql)
GetJobPostingByCompany(who, o) == OfTrackedCompany(who, CompanyPostings(o))

GetHardStatusTypeByTenantSql == Unordered
HardStatusTypes(o) == Whole(o, GetHardStatusTypeByTenantSql)
GetHardStatusTypesByTenant(who, o) == OfTenant(who, HardStatusTypes(o))

GetSoftStatusTypeByTenantSql == Unordered
SoftStatusTypes(o) == PlainPage(o, GetSoftStatusTypeByTenantSql)
GetSoftStatusTypesByTenant(who, o) == OfTenant(who, SoftStatusTypes(o))

GetSoftStatusTypeByCompanySql == Unordered
CompanySoftStatusTypes(o) == Whole(o, GetSoftStatusTypeByCompanySql)
GetSoftStatusTypesByCompany(who, o) == OfTrackedCompany(who, CompanySoftStatusTypes(o))

GetSoftStatusTypesByCompanyAndHardStatusTypeSql == Unordered
CompanySoftOfHard(o) == Whole(o, GetSoftStatusTypesByCompanyAndHardStatusTypeSql)
GetSoftStatusTypesByCompanyAndHardStatusType(who, o) ==
    OfTrackedCompany(who, CompanySoftOfHard(o))

GetSoftStatusTypeByHardStatusTypeSql == Unordered
SoftOfHard(o) == Whole(o, GetSoftStatusTypeByHardStatusTypeSql)
GetSoftStatusTypesByHardStatusType(who, o) == OfTenant(who, SoftOfHard(o))

-----------------------------------------------------------------------------
(* Questions. *)

GetQuestionBankByTenantSql == Unordered
TenantQuestions(o) == SearchedPage(o, GetQuestionBankByTenantSql)
GetQuestionBankByTenant(who, o) == OfTenant(who, TenantQuestions(o))

GetQuestionBankByCompanySql == Unordered
CompanyQuestions(o) == SearchedPage(o, GetQuestionBankByCompanySql)
GetQuestionBankByCompany(who, o) == OfTrackedCompany(who, CompanyQuestions(o))

GetQuestionBankGroupByTenantSql == Ordered
TenantGroups(o) == SearchedPage(o, GetQuestionBankGroupByTenantSql)
GetQuestionBankGroupByTenant(who, o) == OfTenant(who, TenantGroups(o))

GetQuestionBankGroupByCompanySql == Ordered
CompanyGroups(o) == SearchedPage(o, GetQuestionBankGroupByCompanySql)
GetQuestionBankGroupByCompany(who, o) == OfTrackedCompany(who, CompanyGroups(o))

GetQuestionBankMultipleChoiceAnswersByTenantSql == Unordered
TenantChoices(o) == SearchedPage(o, GetQuestionBankMultipleChoiceAnswersByTenantSql)
GetQuestionBankMultipleChoiceAnswersByTenant(who, o) == OfTenant(who, TenantChoices(o))

GetQuestionBankMultipleChoiceAnswersByCompanySql == Ordered
CompanyChoices(o) == SearchedPage(o, GetQuestionBankMultipleChoiceAnswersByCompanySql)
GetQuestionBankMultipleChoiceAnswersByCompany(who, o) ==
    OfTrackedCompany(who, CompanyChoices(o))

GetQuestionTypeByTenantSql == Unordered
QuestionTypes(o) == Strict(o, {"searchBy"}, Sized(GetQuestionTypeByTenantSql, "array"))
GetQuestionTypeByTenant(who, o) == OfTenant(who, QuestionTypes(o))

-----------------------------------------------------------------------------
(* Who may do what. *)

GetClaimsByTenantSql == Unordered
ClaimsOfTenant(o) == SearchedPage(o, GetClaimsByTenantSql)
GetClaimsByTenant(who, o) == OfPermitted(who, "claims", ClaimsOfTenant(o))

GetRolesByTenantSql == Unordered
RolesOfTenant(o) == SearchedPage(o, GetRolesByTenantSql)
GetRolesByTenant(who, o) == OfPermitted(who, "roles", RolesOfTenant(o))

GetSystemsByTenantSql == Unordered
SystemsOfTenant(o) == SearchedPage(o, GetSystemsByTenantSql)
GetSystemsByTenant(who, o) == OfPermitted(who, "systems", SystemsOfTenant(o))
=============================================================================
