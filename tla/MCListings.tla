----------------------------- MODULE MCListings -----------------------------
(***************************************************************************)
(* The walks through every listing of the services, as TLC tries them:     *)
(* each listing is asked by callers of every kind with parameters of every *)
(* kind, and its next link is answered by the same handler.                *)
(***************************************************************************)
EXTENDS Listings, TenantLists, EsignLists, ImportLists, ApplicantLists

MCRows == 1 .. 4

MCSortKey == [unique |-> [r \in MCRows |-> r], ties |-> [r \in MCRows |-> r \div 2]]

-----------------------------------------------------------------------------
(* The callers: all combinations of what the roles look at, and one at a   *)
(* time of what else may be missing.                                       *)

Known == {"company", "employee", "configuration", "user", "subgroup"}

Mine == {"company", "employee", "account"}

RoleSets == {{r} : r \in ApplicantRoles \cup {HrRestrictedAdmin, AsureAdmin}}
                \cup {{}, {HrManager, HrEmployee}, {HrAdmin, HrEmployee}}

Callers ==
    [roles : RoleSets, own : {{}, Mine}, manages : BOOLEAN, found : {Known},
     admin : BOOLEAN, enabled : {TRUE}, permissions : {{"claims", "roles", "systems", "deposits"}}]

Visitor(roles, found, enabled, permissions) ==
    [roles |-> roles, own |-> Mine, manages |-> TRUE, found |-> found, admin |-> TRUE,
     enabled |-> enabled, permissions |-> permissions]

Visitors ==
    {Visitor(roles, Known \ {k}, TRUE, {"admin"}) : roles \in RoleSets, k \in Known}
        \cup {Visitor({HrEmployee}, Known, enabled, permissions) :
                 enabled \in BOOLEAN, permissions \in {{}, {"admin"}, {"claims"}}}

Everyone == Callers \cup Visitors

-----------------------------------------------------------------------------
(* The parameters: some of those a listing looks at, or one it does not    *)
(* know.  A first request names no page.                                   *)

Options(values) ==
    UNION {{f \in [D -> UNION {values[k] : k \in D}] : \A k \in D : f[k] \in values[k]} :
           D \in SUBSET DOMAIN values}

Unknown == {"plain"}

Truth == {"", "true", "false"}

Text == {"", "plain", "ampersand"}

NoOption == [odd |-> Unknown]

SearchBy == [searchBy |-> Text, odd |-> Unknown]

Search == [search |-> Text, odd |-> Unknown]

\* A walk through a listing: what its handler makes of a request, and of the
\* link of the answer.
Walk(Handler(_, _), who, o, valid) ==
    LET first == Handler(who, o)
    IN  [first  |-> first,
         next   |-> IF first.refused THEN Refusal
                    ELSE Handler(who, RetrievePaginationData(o, valid)),
         strays |-> Spoiled(o, valid)]

WalksOf(Handler(_, _), values, valid) ==
    {Walk(Handler, who, o, valid) : who \in Everyone, o \in Options(values)}

-----------------------------------------------------------------------------
Token == {"pageToken"}

CompanyOptions ==
    [search |-> Text, pageSize |-> {"all", "number", "zero", "negative", "plain"}, migration |-> Truth,
     requestingFrom |-> {"plain"}, odd |-> Unknown]

TenantWalks ==
    UNION {
        {Walk(CompanyList, who, o, CompanyParams(who)) :
            who \in Everyone, o \in Options(CompanyOptions)},
        WalksOf(ListEmployeeCompaniesBySsoAccount, NoOption, {}),
        WalksOf(ListCompanyAnnouncements,
                [expiring |-> Truth, indefinite |-> Truth, odd |-> Unknown],
                Token \cup {"expiring", "indefinite"}),
        WalksOf(ListCompanyOpenEnrollments, [current |-> Truth, odd |-> Unknown],
                Token \cup {"current"}),
        WalksOf(ListEmployeesByTenant, Search, Token \cup {"search", "consolidated"}),
        WalksOf(ListEmployeesByCompany, Search, Token \cup {"search", "consolidated"}),
        WalksOf(ListLicensesByEmployeeId, [expiring |-> Truth, odd |-> Unknown],
                Token \cup {"expiring"}),
        WalksOf(ListCertificatesByEmployeeId, [expiring |-> Truth, odd |-> Unknown],
                Token \cup {"expiring"}),
        WalksOf(ListReviewsByEmployeeId, [upcoming |-> Truth, odd |-> Unknown],
                Token \cup {"upcoming"}),
        WalksOf(ListClassesByEmployeeId, [upcoming |-> Truth, odd |-> Unknown],
                Token \cup {"upcoming"}),
        WalksOf(ListBenefitsByEmployeeId, NoOption, Token),
        WalksOf(ListSecResourceSubGroups, NoOption, Token),
        WalksOf(ListSecResourcesBySubGroupId, [quickLinks |-> Truth, odd |-> Unknown],
                Token \cup {"quickLinks"})}

EsignWalks ==
    UNION {
        WalksOf(ListTemplates,
                [consolidated |-> Truth, onboarding |-> Truth, search |-> Text,
                 encodeIds |-> {"true", "false"}],
                Token \cup {"consolidated", "onboarding", "search", "encodeIds"}),
        WalksOf(ListDocuments,
                [categoryId |-> {"", "number", "plain"}, category |-> {"onboarding", "plain"},
                 docType |-> {"hellosign", "original", "all", "plain"}, odd |-> Unknown],
                DocumentParams),
        WalksOf(ListCompanySignatureRequests,
                [status |-> {"signed", "pending", "plain"}, consolidated |-> Truth,
                 odd |-> Unknown],
                {"status", "consolidated"}),
        WalksOf(ListEmployeeDocumentCategoriesByCompany, NoOption, Token),
        WalksOf(ListEmployeeDocumentCategories, NoOption, Token),
        WalksOf(ListCompanyDocumentCategories, NoOption, Token),
        WalksOf(ListEmployeeDocumentsByTenant, Search, Token \cup {"search"}),
        WalksOf(ListEmployeeDocumentsByCompany,
                [search |-> Text, role |-> {"manager", "plain"}, odd |-> Unknown],
                Token \cup {"search", "role"}),
        WalksOf(ListEmployeeDocuments, Search, Token \cup {"search"})}

ImportOptions ==
    [search |-> Text, status |-> {"plain"}, active |-> {"number"},
     importProcess |-> {"", "number"}, odd |-> Unknown]

ImportWalks ==
    UNION {
        WalksOf(GetDataImportTypes, NoOption, {}),
        WalksOf(GetDataImportEvent, ImportOptions, DataImportParams),
        WalksOf(GetDataImportEventByType, ImportOptions, DataImportParams),
        WalksOf(GetAllDataImportEvent, ImportOptions, DataImportParams),
        WalksOf(GetDataImportEventDetails, NoOption, Token),
        WalksOf(DirectDepositList, NoOption, Token)}

Searched == Token \cup {"searchBy"}

ApplicantWalks ==
    UNION {
        WalksOf(GetApplicationByCompany, SearchBy, Searched),
        WalksOf(GetApplicationNoteByApplicationId, SearchBy, Searched),
        WalksOf(GetApplicationQuestionBankAnswerByTenant, SearchBy, Searched),
        WalksOf(GetApplicationQuestionBankAnswerByCompany, SearchBy, Searched),
        WalksOf(GetApplicationStatusHistoryByTenant, SearchBy, Searched),
        WalksOf(GetApplicationStatusHistoryByCompany, SearchBy, Searched),
        WalksOf(GetApplicationVersionByTenant, NoOption, {}),
        WalksOf(GetApplicationVersionByCompany, NoOption, {}),
        WalksOf(GetJobPostingByTenant, NoOption, Token),
        WalksOf(GetJobPostingByCompany, SearchBy, Searched),
        WalksOf(GetHardStatusTypesByTenant, NoOption, {}),
        WalksOf(GetSoftStatusTypesByTenant, NoOption, Token),
        WalksOf(GetSoftStatusTypesByCompany, NoOption, {}),
        WalksOf(GetSoftStatusTypesByCompanyAndHardStatusType, NoOption, {}),
        WalksOf(GetSoftStatusTypesByHardStatusType, NoOption, {}),
        WalksOf(GetQuestionBankByTenant, SearchBy, Searched),
        WalksOf(GetQuestionBankByCompany, SearchBy, Searched),
        WalksOf(GetQuestionBankGroupByTenant, SearchBy, Searched),
        WalksOf(GetQuestionBankGroupByCompany, SearchBy, Searched),
        WalksOf(GetQuestionBankMultipleChoiceAnswersByTenant, SearchBy, Searched),
        WalksOf(GetQuestionBankMultipleChoiceAnswersByCompany, SearchBy, Searched),
        WalksOf(GetQuestionTypeByTenant, SearchBy, {}),
        WalksOf(GetClaimsByTenant, SearchBy, Searched),
        WalksOf(GetRolesByTenant, SearchBy, Searched),
        WalksOf(GetSystemsByTenant, SearchBy, Searched)}

MCWalks == TenantWalks \cup EsignWalks \cup ImportWalks \cup ApplicantWalks

\* The listings that pick a query by a parameter, asked for without one.
MCBareWalks ==
    LET Asked(Handler(_, _), k) ==
            {Walk(Handler, who, <<>>, Token \cup {k}) : who \in Everyone}
    IN  UNION {Asked(ListLicensesByEmployeeId, "expiring"),
               Asked(ListCertificatesByEmployeeId, "expiring"),
               Asked(ListReviewsByEmployeeId, "upcoming"),
               Asked(ListClassesByEmployeeId, "upcoming"),
               Asked(ListSecResourcesBySubGroupId, "quickLinks")}
=============================================================================
