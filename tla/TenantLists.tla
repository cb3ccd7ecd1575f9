----------------------------- MODULE TenantLists -----------------------------
(***************************************************************************)
(* The listings of the tenants API: companies, employees and what a        *)
(* company or an employee has (src/services/api/tenants), and those of the *)
(* security resources (api/sec-resource).  Each is its query, the service  *)
(* that picks and pages it, and the handler that lets a caller through;    *)
(* the operators take the caller and the parameters and return the plan of *)
(* the answer.                                                             *)
(***************************************************************************)
EXTENDS Pagination

TenantRoles == BureauRoles \cup {HrAdmin, HrEmployee}

OfCompany(who, plan) ==
    Unless(~ValidateCompany(who) \/ ~CheckAuthorization(who, TenantRoles, "company"), plan)

OfEmployee(who, plan) ==
    Unless(\/ ~ValidateEmployeeWithCompany(who)
           \/ ~CheckAuthorization(who, TenantRoles, "employee"),
           plan)

\* Either missing or a Boolean.
BooleanIfGiven(o, k) == Given(o, k) => ParseQueryParamsBoolean(o, k)

-----------------------------------------------------------------------------
(* Companies. *)

ListCompaniesSql == Ordered

\* The companies a user has are added to the select and not to the count.
ListCompaniesOfUserSql == Query("unique", "more", FALSE)

CompanyParams(who) ==
    {"pageToken", "search", "pageSize"}
        \cup (IF GlobalAdmin \in who.roles THEN {"migration", "requestingFrom"} ELSE {})

\* The tenant whose database knows the user.
UserTenantKnown(o) == IsTrue(o, "migration") => Given(o, "requestingFrom")

\* What parseInt makes of the page size: a zero or no number selects a page of
\* the default limit, and the server refuses a negative one.
CompanyPageSize(o, plan) ==
    IF ~Given(o, "pageSize") THEN plan
    ELSE CASE o["pageSize"] = "all"      -> Sized(plan, "all")
           [] o["pageSize"] = "number"   -> Sized(plan, "own")
           [] o["pageSize"] = "negative" -> Refusal
           [] OTHER                      -> Sized(plan, "void")

Companies(who, o) ==
    Strict(o, CompanyParams(who),
        Unless(\/ ~BooleanIfGiven(o, "migration")
               \/ ~UserTenantKnown(o)
               \/ "user" \notin who.found,
            NothingIfEmpty(
                CompanyPageSize(o, IF who.admin THEN ListCompaniesSql
                                                ELSE ListCompaniesOfUserSql))))

CompanyList(who, o) == Companies(who, o)

ListEmployeeCompaniesBySsoAccountSql == Unordered

EmployeeCompanies == Sized(ListEmployeeCompaniesBySsoAccountSql, "array")

\* An administrator, or the account itself.
ListEmployeeCompaniesBySsoAccount(who, o) ==
    Unless(/\ who.roles \cap (BureauRoles \cup {AsureAdmin}) = {}
           /\ "account" \notin who.own,
           EmployeeCompanies)

-----------------------------------------------------------------------------
(* What a company has. *)

ListCompanyAnnouncementsSql == Ordered

ListExpiringCompanyAnnouncementsSql == Unordered

ListIndefiniteCompanyAnnouncementsSql == Unordered

ListExpiringAndIndefiniteCompanyAnnouncementsSql == Unordered

AnnouncementsSql(expiring, indefinite) ==
    CASE expiring /\ indefinite  -> ListExpiringAndIndefiniteCompanyAnnouncementsSql
      [] expiring /\ ~indefinite -> ListExpiringCompanyAnnouncementsSql
      [] ~expiring /\ indefinite -> ListIndefiniteCompanyAnnouncementsSql
      [] OTHER                   -> ListCompanyAnnouncementsSql

CompanyAnnouncements(o) ==
    Strict(o, {"pageToken", "expiring", "indefinite"},
        Unless(~BooleanIfGiven(o, "expiring") \/ ~BooleanIfGiven(o, "indefinite"),
            NothingIfEmpty(AnnouncementsSql(IsTrue(o, "expiring"), IsTrue(o, "indefinite")))))

ListCompanyAnnouncements(who, o) == OfCompany(who, CompanyAnnouncements(o))

ListCompanyOpenEnrollmentsSql == Ordered

ListCompanyCurrentOpenEnrollmentsSql == Ordered

CompanyOpenEnrollments(o) ==
    Strict(o, {"pageToken", "current"},
        Unless(~BooleanIfGiven(o, "current"),
            NothingIfEmpty(IF IsTrue(o, "current") THEN ListCompanyCurrentOpenEnrollmentsSql
                                                   ELSE ListCompanyOpenEnrollmentsSql)))

ListCompanyOpenEnrollments(who, o) == OfCompany(who, CompanyOpenEnrollments(o))

-----------------------------------------------------------------------------
(* Employees. *)

ListEmployeesByTenantSql == Unordered

\* The rows of the users below a global administrator are gathered first, in
\* the order of their companies.
ListEmployeesForSbAdminByTenantSql == Query("ties", "rows", TRUE)

ListEmployeesByCompanySql == Ordered

ListEmployeesForSbAdminByCompanySql == Query("ties", "rows", TRUE)

ListEmployeesForAdminByCompanySql == Query("ties", "rows", TRUE)

ListEmployeesForManagerByCompanySql == Query("ties", "rows", TRUE)

\* Nothing is answered instead of an empty page, and a search is not paged.
GetEmployees(o, query) ==
    NothingIfEmpty(IF Given(o, "search") THEN Sized(query, "every") ELSE query)

ListByTenant(who, o) ==
    GetEmployees(o, IF who.roles \cap {GlobalAdmin, SuperAdmin} # {}
                    THEN ListEmployeesByTenantSql
                    ELSE ListEmployeesForSbAdminByTenantSql)

ListEmployeesByTenant(who, o) ==
    Unless(~CheckAuthorization(who, BureauRoles, "tenant"), ListByTenant(who, o))

ListByCompany(who, o) ==
    Unless(~ValidateCompany(who),
        GetEmployees(o,
            IF who.roles \cap {GlobalAdmin, SuperAdmin} # {} THEN ListEmployeesByCompanySql
            ELSE IF ServiceBureauAdmin \in who.roles THEN ListEmployeesForSbAdminByCompanySql
            ELSE IF who.roles \cap {HrAdmin, HrRestrictedAdmin} # {}
                 THEN ListEmployeesForAdminByCompanySql
            ELSE ListEmployeesForManagerByCompanySql))

ListEmployeesByCompany(who, o) ==
    Unless(~CheckAuthorization(who, BureauRoles \cup {HrAdmin, HrManager, HrRestrictedAdmin},
                               "company"),
           ListByCompany(who, o))

-----------------------------------------------------------------------------
(* What an employee has.  Where parameters are given at all, the one that  *)
(* picks the query has to be among them: a link that holds no more than a  *)
(* token is refused.                                                       *)

Picked(o, k, query, picked) ==
    IF DOMAIN o = {} THEN query
    ELSE Strict(o, {"pageToken", k},
            Unless(~ParseQueryParamsBoolean(o, k), IF IsTrue(o, k) THEN picked ELSE query))

ListLicensesByEmployeeIdSql == Unordered

ListExpiringLicensesByEmployeeIdSql == Unordered

EmployeeLicenses(o) ==
    Picked(o, "expiring", ListLicensesByEmployeeIdSql, ListExpiringLicensesByEmployeeIdSql)

ListLicensesByEmployeeId(who, o) == OfEmployee(who, EmployeeLicenses(o))

ListCertificatesByEmployeeIdSql == Unordered

ListExpiringCertificatesByEmployeeIdSql == Unordered

EmployeeCertificates(o) ==
    Picked(o, "expiring", ListCertificatesByEmployeeIdSql,
           ListExpiringCertificatesByEmployeeIdSql)

ListCertificatesByEmployeeId(who, o) == OfEmployee(who, EmployeeCertificates(o))

ListReviewsByEmployeeIdSql == Unordered

ListUpcomingReviewsByEmployeeIdSql == Unordered

EmployeeReviews(o) ==
    Picked(o, "upcoming", ListReviewsByEmployeeIdSql, ListUpcomingReviewsByEmployeeIdSql)

ListReviewsByEmployeeId(who, o) == OfEmployee(who, EmployeeReviews(o))

ListClassesByEmployeeIdSql == Unordered

ListUpcomingClassesByEmployeeIdSql == Unordered

EmployeeClasses(o) ==
    Picked(o, "upcoming", ListClassesByEmployeeIdSql, ListUpcomingClassesByEmployeeIdSql)

ListClassesByEmployeeId(who, o) == OfEmployee(who, EmployeeClasses(o))

\* The plans are counted, and listed once for each benefit the employee has of
\* them.
ListBenefitsByEmployeeIdSql == Query("ties", "fewer", FALSE)

EmployeeBenefits(o) == Strict(o, {"pageToken"}, ListBenefitsByEmployeeIdSql)

ListBenefitsByEmployeeId(who, o) == OfEmployee(who, EmployeeBenefits(o))

-----------------------------------------------------------------------------
(* Security resources, for every caller.                                   *)

ListSecResourceSubGroupsSql == Ordered

\* Parameters are not looked at.
ListSecResourceSubGroups(who, o) == ListSecResourceSubGroupsSql

ListSecResourcesBySubGroupIdSql == Ordered

\* The pages that the user may not see are left out.
SubGroupResources(o) ==
    Picked(o, "quickLinks", ListSecResourcesBySubGroupIdSql,
           Dropping(ListSecResourcesBySubGroupIdSql))

ListSecResourcesBySubGroupId(who, o) ==
    Unless("subgroup" \notin who.found, SubGroupResources(o))
=============================================================================
