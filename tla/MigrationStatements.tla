------------------------ MODULE MigrationStatements ------------------------
(***************************************************************************)
(* What the procedures of queries/companyMigrationScripts do in the mode     *)
(* 'Insert': one definition per statement, in the order of the scripts.      *)
(*                                                                         *)
(* A statement names the table of the recipient that it writes and `refs`,   *)
(* the tables of the recipient in which it looks up the rows that its own    *)
(* rows point to; a row that is not found there is dropped by an inner join, *)
(* or its reference is left NULL by an outer one. The columns, and the       *)
(* donor's tables that are joined on the way, are left out.                  *)
(***************************************************************************)
EXTENDS Sequences

Insert(table, refs) == [kind |-> "insert", table |-> table, refs |-> refs]

\* The ids of the donor are copied, and are the primary key.
InsertKeyed(table, refs) == [kind |-> "keyed", table |-> table, refs |-> refs]

\* Only what the recipient does not have, by its name.
InsertMissing(table, refs) == [kind |-> "missing", table |-> table, refs |-> refs]

Update(table, refs) == [kind |-> "update", table |-> table, refs |-> refs]

\* Rows of the recipient company, which the cut-over of its payroll brought.
Delete(table) == [kind |-> "delete", table |-> table, refs |-> {}]

-----------------------------------------------------------------------------
(* usp_EIN_Cons_CompanyWrapper_V1: one call of usp_EIN_Cons_Dynamic_V1 for each *)

CompanyTables ==
    <<"ATApplicationVersion", "ATQuestionBank", "ATSoftStatusType", "Announcement",
      "PayGradeType", "PayGroupType", "PositionOrganizationChangeReason",
      "OBQuestionBank", "OnboardingTaskList", "BenefitCarrier", "BenefitClass",
      "BenefitGeneralAgent", "BenefitCoverageStartType", "OpenEnrollment",
      "EmailRecord", "ShiftType", "JobType", "SkillType", "ReviewType",
      "LicenseType", "AchievementType", "CertificateType",
      "CompensationChangeReason", "HRnextClass">>

DynamicInsert(table) == Insert(table, {})
DynamicDelete(table) == Delete(table)

CompanyWrapper ==
    [k \in DOMAIN CompanyTables |-> DynamicInsert(CompanyTables[k])]
        \o <<DynamicDelete("Alert"), DynamicInsert("Alert")>>

-----------------------------------------------------------------------------
(* usp_EIN_Cons_CompanyUpdates *)

PositionType ==
    Insert("PositionType", {"Company", "EEOType", "Employee", "FLSAType",
        "PayGradeType", "WorkerCompType"})
AlertRecipients == Update("Alert", {"Alert", "Employee", "HRnextUser"})
QRWSavedReport == Insert("QRWSavedReport", {"HRnextUser"})
CompanyDefaults ==
    Update("Company", {"Company", "CompensationChangeReason", "EmploymentType",
        "EsignatureProductTier", "FrequencyType", "PayType",
        "PositionOrganizationChangeReason", "SecRole", "StatusType", "TaxFormType",
        "TerminationReason"})

-----------------------------------------------------------------------------
(* usp_EIN_Cons_CompensationDataSet_V1 *)

I9Fields == Update("Employee", {"Employee"})
PayrollCompensation == Delete("EmployeeCompensation")
EmployeeCompensation ==
    Insert("EmployeeCompensation", {"CompensationChangeReason", "Employee",
        "FrequencyType", "PayType"})
TimeClockFields == Update("Company", {"Company"})
EmployeeAbsence == Insert("EmployeeAbsence", {"Employee"})
EmployeeAbsenceDetail ==
    Insert("EmployeeAbsenceDetail", {"Employee", "EmployeeAbsence"})

CompensationDataSet ==
    <<I9Fields, PayrollCompensation, EmployeeCompensation, TimeClockFields,
      EmployeeAbsence, EmployeeAbsenceDetail>>

-----------------------------------------------------------------------------
(* usp_EIN_Cons_Benefits_V1 *)

BenefitPlan ==
    Insert("BenefitPlan", {"BenefitCarrier", "BenefitCoverageStartType",
        "BenefitGeneralAgent", "BenefitPlanType"})
RelatedPlan == Update("BenefitPlan", {"BenefitPlan"})
BenefitPlanAgeBand == Insert("BenefitPlanAgeBand", {"BenefitPlan"})
BenefitPlanRate == Insert("BenefitPlanRate", {"BenefitCoverageType", "BenefitPlan"})
BenefitPlanFrequencyOverride == Insert("BenefitPlanFrequencyOverride", {"BenefitPlan"})
BenefitPlanClass == Insert("BenefitPlanClass", {"BenefitClass", "BenefitPlan"})
BenefitPlanTieredCoverageAmount ==
    Insert("BenefitPlanTieredCoverageAmount", {"BenefitPlan"})
OpenEnrollmentEmployeeElection ==
    Insert("OpenEnrollmentEmployeeElection", {"BenefitCoverageType",
        "BenefitPlan", "Employee", "OpenEnrollment"})
EmployeeBenefit ==
    Insert("EmployeeBenefit", {"BenefitCoverageType", "BenefitPlan", "Employee",
        "LifeEventReason"})
EmployeeBeneficiary ==
    Insert("EmployeeBeneficiary", {"BeneficiaryRelationshipType", "Employee",
        "GenderType"})
EmployeeDependent ==
    Insert("EmployeeDependent", {"CountryStateType", "DependentRelationshipType",
        "Employee", "GenderType"})
OpenEnrollmentBenefitPlan ==
    Insert("OpenEnrollmentBenefitPlan", {"BenefitPlan", "OpenEnrollment"})
OpenEnrollmentElectionCoveredBeneficiary ==
    Insert("OpenEnrollmentElectionCoveredBeneficiary", {"BenefitPlanType",
        "Employee", "EmployeeBeneficiary", "OpenEnrollment",
        "OpenEnrollmentEmployeeElection"})
OpenEnrollmentElectionCoveredDependent ==
    Insert("OpenEnrollmentElectionCoveredDependent", {"BenefitPlanType",
        "Employee", "EmployeeDependent", "OpenEnrollment",
        "OpenEnrollmentEmployeeElection"})
OpenEnrollmentEmployee ==
    Insert("OpenEnrollmentEmployee", {"Employee", "OpenEnrollment"})
CoveredDependent ==
    Insert("CoveredDependent", {"BenefitCoverageType", "BenefitPlan",
        "BenefitPlanType", "Employee", "EmployeeBenefit", "EmployeeDependent"})
CoveredBeneficiary ==
    Insert("CoveredBeneficiary", {"BenefitCoverageType", "BenefitPlan",
        "BenefitPlanType", "Employee", "EmployeeBeneficiary", "EmployeeBenefit"})

Benefits ==
    <<BenefitPlan, RelatedPlan, BenefitPlanAgeBand, BenefitPlanRate,
      BenefitPlanFrequencyOverride, BenefitPlanClass, BenefitPlanTieredCoverageAmount,
      OpenEnrollmentEmployeeElection, EmployeeBenefit, EmployeeBeneficiary,
      EmployeeDependent, OpenEnrollmentBenefitPlan,
      OpenEnrollmentElectionCoveredBeneficiary,
      OpenEnrollmentElectionCoveredDependent, OpenEnrollmentEmployee,
      CoveredDependent, CoveredBeneficiary>>

-----------------------------------------------------------------------------
(* usp_EIN_Cons_Dynamic_MultiTable_TwoTier_V1 *)

EmployeeEmergencyContact == Insert("EmployeeEmergencyContact", {"Employee"})
EmployeeNote == Insert("EmployeeNote", {"Employee"})
EmployeeEducationLevel == Insert("EmployeeEducationLevel", {"Employee"})
EmployeeReview == Insert("EmployeeReview", {"Employee", "ReviewType"})
EmployeeSkill == Insert("EmployeeSkill", {"Employee", "SkillType"})
EmployeeLicense == Insert("EmployeeLicense", {"Employee", "LicenseType"})
EmployeeAchievement == Insert("EmployeeAchievement", {"AchievementType", "Employee"})
EmployeeCertificate == Insert("EmployeeCertificate", {"CertificateType", "Employee"})
EmployeeEnrolledClass == Insert("EmployeeEnrolledClass", {"Employee", "HRnextClass"})
OnboardingTaskStep == Insert("OnboardingTaskStep", {"OnboardingTaskList"})
OnboardingTaskListCustomQuestion ==
    Insert("OnboardingTaskListCustomQuestion", {"OBQuestionBank",
        "OnboardingTaskList"})
OBQuestionBankMultipleChoiceAnswers ==
    Insert("OBQuestionBankMultipleChoiceAnswers", {"OBQuestionBank"})
EsignatureMetadata == InsertKeyed("EsignatureMetadata", {})
FileMetadata == Insert("FileMetadata", {})
EsignatureFile == Update("EsignatureMetadata", {"EsignatureMetadata", "FileMetadata"})
PositionUnset == Update("Employee", {"Employee"})
PayrollPositions == Delete("EmployeePositionOrganization")
EmployeePositionOrganization ==
    Insert("EmployeePositionOrganization", {"BenefitClass", "EEOType", "Employee",
        "EmploymentType", "OrganizationStructure", "OrganizationType", "PayGroupType",
        "PositionOrganizationChangeReason", "PositionType", "StatusType",
        "TerminationReason", "WorkerCompType"})
PositionSet == Update("Employee", {"Employee", "EmployeePositionOrganization"})
PayrollDirectDeposits == Delete("EmployeeDirectDeposit")
EmployeeDirectDeposit == Insert("EmployeeDirectDeposit", {"Employee"})
EmployeeFields == Update("Employee", {"Employee", "PositionType"})
PayrollAlternateRates == Delete("EmployeeAlternateRate")
EmployeeAlternateRate ==
    Insert("EmployeeAlternateRate", {"Employee", "OrganizationStructure",
        "OrganizationType", "PayGradeType", "PositionType", "RateType",
        "WorkerCompType"})

MultiTableTwoTier ==
    <<EmployeeEmergencyContact, EmployeeNote, EmployeeEducationLevel, EmployeeReview,
      EmployeeSkill, EmployeeLicense, EmployeeAchievement, EmployeeCertificate,
      EmployeeEnrolledClass, OnboardingTaskStep, OnboardingTaskListCustomQuestion,
      OBQuestionBankMultipleChoiceAnswers, EsignatureMetadata, FileMetadata,
      EsignatureFile, PositionUnset, PayrollPositions, EmployeePositionOrganization,
      PositionSet, PayrollDirectDeposits, EmployeeDirectDeposit, EmployeeFields,
      PayrollAlternateRates, EmployeeAlternateRate>>

-----------------------------------------------------------------------------
(* usp_EIN_Cons_HRNext_Sec_DataSet_V1 *)

HRnextUser == InsertMissing("HRnextUser", {})
HRnextUserCompany == Insert("HRnextUserCompany", {"HRnextUser"})
HRnextUserEmployee == Insert("HRnextUserEmployee", {"Employee", "HRnextUser"})
HRnextAudit == Insert("HRnextAudit", {})
HRnextAuditDetail == Insert("HRnextAuditDetail", {"HRnextAudit"})
SecEmployeeRecordFilter == Insert("SecEmployeeRecordFilter", {})
SecEmployeeRecordFilterValue ==
    Insert("SecEmployeeRecordFilterValue", {"OrganizationStructure",
        "OrganizationType", "PositionType", "SecEmployeeRecordFilter"})
PermissionsMarked ==
    Update("SecPermission", {"SecPermission", "SecPermissionRole", "SecRole"})
RolePermissionsDeleted == Delete("SecPermissionRole")
PermissionsDeleted == Delete("SecPermission")
RolesDeleted == Delete("SecRole")
SecRole == Insert("SecRole", {"SecEmployeeRecordFilter", "SecRoleLevel"})
SecPermission ==
    Insert("SecPermission", {"SecCDD", "SecResource", "SecResourceGroup",
        "SecResourceSubGroup"})
UserPermission ==
    Insert("SecPermission", {"SecCDD", "SecResource", "SecResourceGroup",
        "SecResourceSubGroup"})
SecPermissionRole ==
    Insert("SecPermissionRole", {"SecPermission", "SecResource",
        "SecResourceGroup", "SecRole"})
SecPermissionUser == Insert("SecPermissionUser", {"HRnextUser", "SecPermission"})
SecRoleUser == Insert("SecRoleUser", {"HRnextUser", "SecRole"})
RoleNames == Update("SecRole", {"Company", "SecRole"})
UserCompanyTimeclockCredential ==
    Insert("UserCompanyTimeclockCredential", {"HRnextUser"})
UsersInactivated == [kind |-> "inactivate", table |-> "HRnextUser", refs |-> {}]

\* Mutant: the users of the donor are inactivated before they are copied.
InactivatedFirst ==
    <<UsersInactivated, HRnextUser, HRnextUserCompany, HRnextUserEmployee, HRnextAudit,
      HRnextAuditDetail, SecEmployeeRecordFilter, SecEmployeeRecordFilterValue,
      PermissionsMarked, RolePermissionsDeleted, PermissionsDeleted, RolesDeleted,
      SecRole, SecPermission, UserPermission, SecPermissionRole, SecPermissionUser,
      SecRoleUser, RoleNames, UserCompanyTimeclockCredential>>

SecDataSet ==
    <<HRnextUser, HRnextUserCompany, HRnextUserEmployee, HRnextAudit,
      HRnextAuditDetail, SecEmployeeRecordFilter, SecEmployeeRecordFilterValue,
      PermissionsMarked, RolePermissionsDeleted, PermissionsDeleted, RolesDeleted,
      SecRole, SecPermission, UserPermission, SecPermissionRole, SecPermissionUser,
      SecRoleUser, RoleNames, UserCompanyTimeclockCredential, UsersInactivated>>

-----------------------------------------------------------------------------
(* usp_EIN_Cons_ApplTrack_V1 *)

ATJobPosting ==
    Insert("ATJobPosting", {"ATApplicationVersion", "OrganizationStructure",
        "OrganizationType", "PositionType", "WorkerCompType"})
ATApplication == Insert("ATApplication", {"ATJobPosting", "ATSoftStatusType"})
ATApplicationNote == Insert("ATApplicationNote", {"ATApplication"})
ATApplicationStatusHistory ==
    Insert("ATApplicationStatusHistory", {"ATApplication", "ATJobPosting"})
ATApplicationVersionCustomQuestion ==
    Insert("ATApplicationVersionCustomQuestion", {"ATApplicationVersion",
        "ATQuestionBank"})
ATApplicationQuestionBankAnswer ==
    Insert("ATApplicationQuestionBankAnswer", {"ATApplication"})
ATJobPostingResponsibleUser ==
    Insert("ATJobPostingResponsibleUser", {"ATJobPosting", "HRnextUser"})
ATQuestionBankMultipleChoiceAnswers ==
    Insert("ATQuestionBankMultipleChoiceAnswers", {"ATQuestionBank"})

ApplTrack ==
    <<ATJobPosting, ATApplication, ATApplicationNote, ATApplicationStatusHistory,
      ATApplicationVersionCustomQuestion, ATApplicationQuestionBankAnswer,
      ATJobPostingResponsibleUser, ATQuestionBankMultipleChoiceAnswers>>

-----------------------------------------------------------------------------
(* usp_EIN_Cons_EmployeeOnboard_V1 *)

EmployeeOnboard ==
    Insert("EmployeeOnboard", {"ATApplication", "AutoPayType", "BenefitClass",
        "CompensationChangeReason", "CountryStateType", "EEOType",
        "EducationLevelType", "Employee", "EmploymentType", "EthnicityType",
        "FrequencyType", "GenderType", "HRnextUser", "MaritalStatusType",
        "OnboardingStatusType", "OnboardingTaskList", "OrganizationStructure",
        "OrganizationType", "PayGroupType", "PayType",
        "PositionOrganizationChangeReason", "PositionType", "StatusType",
        "TaxFormType", "WorkerCompType"})

OnboardDataSet == <<EmployeeOnboard>>

-----------------------------------------------------------------------------
(* usp_EIN_Cons_Documents_V1 *)

CompanyDocument == Insert("Document", {})
EmployeeDocument == Insert("Document", {"Employee", "EmployeeOnboard"})
AnnouncementDocument == Insert("AnnouncementDocument", {"Announcement", "Document"})
BenefitPlanDocument == Insert("BenefitPlanDocument", {"BenefitPlan", "Document"})
EmployeeI9Document == Insert("EmployeeI9Document", {"Document", "Employee"})
EmployeeBCDocument == Insert("EmployeeBCDocument", {"Document", "Employee"})
EmployeeEsignCompanyDocument ==
    Insert("EmployeeEsignCompanyDocument", {"Document", "Employee"})
EmployeePhotoDocument == Insert("EmployeePhotoDocument", {"Document", "Employee"})
EmployeeW4 == Insert("EmployeeW4", {"Document", "Employee", "HRnextUser"})
EmployeeAbsenceDocument ==
    Insert("EmployeeAbsenceDocument", {"Document", "Employee", "EmployeeAbsence"})
EmployeeAchievementDocument ==
    Insert("EmployeeAchievementDocument", {"AchievementType", "Document",
        "Employee", "EmployeeAchievement"})
EmployeeBenefitDocument ==
    Insert("EmployeeBenefitDocument", {"BenefitPlan", "Document", "Employee",
        "EmployeeBenefit"})
EmployeeCertificateDocument ==
    Insert("EmployeeCertificateDocument", {"CertificateType", "Document",
        "Employee", "EmployeeCertificate"})
EmployeeEnrolledClassDocument ==
    Insert("EmployeeEnrolledClassDocument", {"Document", "Employee",
        "EmployeeEnrolledClass", "HRnextClass"})
EmployeeLicenseDocument ==
    Insert("EmployeeLicenseDocument", {"Document", "Employee", "EmployeeLicense",
        "LicenseType"})
EmployeeOnboardDocument ==
    Insert("EmployeeOnboardDocument", {"Document", "Employee", "EmployeeOnboard"})
EmployeeReviewDocument ==
    Insert("EmployeeReviewDocument", {"Document", "Employee", "EmployeeReview",
        "ReviewType"})
EmployeeSkillDocument ==
    Insert("EmployeeSkillDocument", {"Document", "Employee", "EmployeeSkill",
        "SkillType"})
CompanyLogoDocument == Insert("CompanyLogoDocument", {"Document"})
ApplicantDocument == Insert("Document", {"ATApplication"})

Documents ==
    <<CompanyDocument, EmployeeDocument, AnnouncementDocument, BenefitPlanDocument,
      EmployeeI9Document, EmployeeBCDocument, EmployeeEsignCompanyDocument,
      EmployeePhotoDocument, EmployeeW4, EmployeeAbsenceDocument,
      EmployeeAchievementDocument, EmployeeBenefitDocument,
      EmployeeCertificateDocument, EmployeeEnrolledClassDocument,
      EmployeeLicenseDocument, EmployeeOnboardDocument, EmployeeReviewDocument,
      EmployeeSkillDocument, CompanyLogoDocument, ApplicantDocument>>

=============================================================================
