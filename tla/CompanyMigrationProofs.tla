------------------------ MODULE CompanyMigrationProofs ------------------------
(* The migration's script is sent at most once, marked as done only when it ran, *)
(* and locks nobody out who was not copied, for any number of migrations,        *)
(* recipients and failures.                                                      *)
EXTENDS CompanyMigration, SequenceTheorems, WellFoundedInduction, TLAPS

-----------------------------------------------------------------------------

LEMMA HasLeast ==
    ASSUME NEW T \in SUBSET Nat, T # {}
    PROVE  \E x \in T : \A y \in T : x <= y
<1>1. PICK x \in T : \A y \in T : ~ (<<y, x>> \in OpToRel(<, Nat))
  BY WFMin, NatLessThanWellFounded
<1>2. \A y \in T : ~ (y < x)
  BY <1>1 DEF OpToRel
<1>3. \A y \in T : x <= y
  BY <1>2
<1> QED BY <1>3

-----------------------------------------------------------------------------
(* The script: a sequence of statements, in which the users are copied before  *)
(* they are locked out                                                         *)

Elements(s) == {s[k] : k \in 1 .. Len(s)}

\* A sequence of statements or calls, not empty.
Listed(s) == s \in Seq(Elements(s)) /\ s # <<>>

Harmless(s) == Listed(s) /\ \A k \in 1 .. Len(s) : s[k].kind # "inactivate"

\* A lock-out comes after the users were copied.
Guarded(s) ==
    /\ Listed(s)
    /\ \A k \in 1 .. Len(s) : s[k].do.kind = "inactivate" =>
        \E j \in 1 .. k - 1 : s[j].do.kind = "missing"

LEMMA InOwnElements ==
    ASSUME NEW S, NEW s \in Seq(S)
    PROVE  s \in Seq(Elements(s))
<1>1. \A k \in 1 .. Len(s) : s[k] \in Elements(s)
  BY DEF Elements
<1>2. s = [k \in 1 .. Len(s) |-> s[k]] /\ Len(s) \in Nat
  OBVIOUS
<1> QED BY <1>1, <1>2

LEMMA CallOfList ==
    ASSUME NEW proc, NEW s, Listed(s)
    PROVE  /\ Listed(Call(proc, s)) /\ Len(Call(proc, s)) = Len(s)
           /\ \A k \in 1 .. Len(s) : Call(proc, s)[k].do = s[k]
<1>1. DOMAIN s = 1 .. Len(s) /\ Len(s) \in Nat \ {0}
  BY DEF Listed
<1>2. Call(proc, s) \in Seq({Call(proc, s)[k] : k \in 1 .. Len(s)}) /\ Len(Call(proc, s)) = Len(s)
  BY <1>1 DEF Call
<1>3. \A k \in 1 .. Len(s) : Call(proc, s)[k].do = s[k]
  BY <1>1 DEF Call
<1> QED BY <1>1, <1>2, <1>3 DEF Listed, Elements

\* Calls of procedures that lock nobody out.
LEMMA HarmlessCall ==
    ASSUME NEW proc, NEW s, Harmless(s)
    PROVE  Guarded(Call(proc, s))
BY CallOfList DEF Harmless, Guarded

LEMMA ListedConcat ==
    ASSUME NEW s, NEW t, Listed(s), Listed(t)
    PROVE  /\ Listed(s \o t) /\ Len(s \o t) = Len(s) + Len(t)
           /\ \A k \in 1 .. Len(s) + Len(t) :
                (s \o t)[k] = IF k <= Len(s) THEN s[k] ELSE t[k - Len(s)]
<1> DEFINE S == Elements(s) \cup Elements(t)
<1>1. s \in Seq(S) /\ t \in Seq(S) /\ Len(s) \in Nat \ {0} /\ Len(t) \in Nat \ {0}
  BY DEF Listed
<1> HIDE DEF S
<1>2. s \o t \in Seq(S) /\ Len(s \o t) = Len(s) + Len(t)
  BY <1>1, ConcatProperties
<1>3. \A k \in 1 .. Len(s) + Len(t) :
        (s \o t)[k] = IF k <= Len(s) THEN s[k] ELSE t[k - Len(s)]
  BY <1>1, ConcatProperties
<1>4. s \o t \in Seq(Elements(s \o t))
  BY <1>2, InOwnElements
<1> QED BY <1>1, <1>2, <1>3, <1>4 DEF Listed

LEMMA GuardedConcat ==
    ASSUME NEW s, NEW t, Guarded(s), Guarded(t)
    PROVE  Guarded(s \o t)
<1>1. Listed(s) /\ Listed(t) /\ Len(s) \in Nat \ {0} /\ Len(t) \in Nat \ {0}
  BY DEF Guarded, Listed
<1>2. Listed(s \o t) /\ Len(s \o t) = Len(s) + Len(t)
  BY <1>1, ListedConcat
<1>3. \A k \in 1 .. Len(s) + Len(t) :
        (s \o t)[k] = IF k <= Len(s) THEN s[k] ELSE t[k - Len(s)]
  BY <1>1, ListedConcat
<1>4. ASSUME NEW k \in 1 .. Len(s) + Len(t), (s \o t)[k].do.kind = "inactivate"
      PROVE  \E j \in 1 .. k - 1 : (s \o t)[j].do.kind = "missing"
  <2>1. CASE k <= Len(s)
    <3>1. PICK j \in 1 .. k - 1 : s[j].do.kind = "missing"
      BY <1>1, <1>3, <1>4, <2>1 DEF Guarded
    <3> QED BY <1>1, <1>3, <2>1, <3>1
  <2>2. CASE k > Len(s)
    <3>1. PICK j \in 1 .. (k - Len(s)) - 1 : t[j].do.kind = "missing"
      BY <1>1, <1>3, <1>4, <2>2 DEF Guarded
    <3>2. Len(s) + j \in 1 .. k - 1 /\ (s \o t)[Len(s) + j] = t[j]
      BY <1>1, <1>3, <2>2, <3>1
    <3> QED BY <3>1, <3>2
  <2> QED BY <1>1, <2>1, <2>2
<1> QED BY <1>2, <1>4 DEF Guarded

LEMMA HarmlessConcat ==
    ASSUME NEW s, NEW t, Harmless(s), Harmless(t)
    PROVE  Harmless(s \o t)
<1>1. Listed(s) /\ Listed(t) /\ Len(s) \in Nat \ {0} /\ Len(t) \in Nat \ {0}
  BY DEF Harmless, Listed
<1>2. Listed(s \o t) /\ Len(s \o t) = Len(s) + Len(t)
  BY <1>1, ListedConcat
<1>3. \A k \in 1 .. Len(s) + Len(t) :
        (s \o t)[k] = IF k <= Len(s) THEN s[k] ELSE t[k - Len(s)]
  BY <1>1, ListedConcat
<1>4. ASSUME NEW k \in 1 .. Len(s) + Len(t)
      PROVE  (s \o t)[k].kind # "inactivate"
  <2>1. CASE k <= Len(s)
    BY <1>1, <1>3, <2>1 DEF Harmless
  <2>2. CASE k > Len(s)
    <3>1. k - Len(s) \in 1 .. Len(t) /\ (s \o t)[k] = t[k - Len(s)]
      BY <1>1, <1>3, <2>2
    <3> QED BY <3>1 DEF Harmless
  <2> QED BY <1>1, <2>1, <2>2
<1> QED BY <1>2, <1>4 DEF Harmless

LEMMA CompanyWrapperHarmless == Harmless(CompanyWrapper)
<1> DEFINE inserts == [k \in DOMAIN CompanyTables |-> DynamicInsert(CompanyTables[k])]
           alert == <<DynamicDelete("Alert"), DynamicInsert("Alert")>>
<1>1. DOMAIN CompanyTables = 1 .. 24
  BY DEF CompanyTables
<1>2. /\ Listed(inserts) /\ Len(inserts) = 24
      /\ \A k \in 1 .. 24 : inserts[k].kind = "insert"
  BY <1>1 DEF Listed, Elements, DynamicInsert, Insert
<1>3. Harmless(inserts)
  BY <1>2 DEF Harmless
<1>4. Harmless(alert)
  BY DEF Harmless, Listed, Elements, DynamicInsert, DynamicDelete, Insert, Delete
<1> HIDE DEF inserts, alert
<1>5. Harmless(inserts \o alert)
  BY <1>3, <1>4, HarmlessConcat
<1> QED BY <1>5 DEF CompanyWrapper, inserts, alert

LEMMA CompensationDataSetHarmless == Harmless(CompensationDataSet)
<1>1. Listed(CompensationDataSet) /\ Len(CompensationDataSet) = 6
  BY DEF Listed, Elements, CompensationDataSet
<1>2. \A k \in 1 .. 6 : CompensationDataSet[k].kind # "inactivate"
  BY DEF CompensationDataSet, I9Fields, PayrollCompensation, EmployeeCompensation,
      TimeClockFields, EmployeeAbsence, EmployeeAbsenceDetail, Insert, InsertKeyed,
      InsertMissing, Update, Delete
<1> QED BY <1>1, <1>2 DEF Harmless

LEMMA BenefitsHarmless == Harmless(Benefits)
<1>1. Listed(Benefits) /\ Len(Benefits) = 17
  BY DEF Listed, Elements, Benefits
<1>2. \A k \in 1 .. 17 : Benefits[k].kind # "inactivate"
  BY DEF Benefits, BenefitPlan, RelatedPlan, BenefitPlanAgeBand, BenefitPlanRate,
      BenefitPlanFrequencyOverride, BenefitPlanClass, BenefitPlanTieredCoverageAmount,
      OpenEnrollmentEmployeeElection, EmployeeBenefit, EmployeeBeneficiary,
      EmployeeDependent, OpenEnrollmentBenefitPlan,
      OpenEnrollmentElectionCoveredBeneficiary,
      OpenEnrollmentElectionCoveredDependent, OpenEnrollmentEmployee,
      CoveredDependent, CoveredBeneficiary, Insert, InsertKeyed, InsertMissing,
      Update, Delete
<1> QED BY <1>1, <1>2 DEF Harmless

LEMMA MultiTableTwoTierHarmless == Harmless(MultiTableTwoTier)
<1>1. Listed(MultiTableTwoTier) /\ Len(MultiTableTwoTier) = 24
  BY DEF Listed, Elements, MultiTableTwoTier
<1>2. \A k \in 1 .. 24 : MultiTableTwoTier[k].kind # "inactivate"
  BY DEF MultiTableTwoTier, EmployeeEmergencyContact, EmployeeNote,
      EmployeeEducationLevel, EmployeeReview, EmployeeSkill, EmployeeLicense,
      EmployeeAchievement, EmployeeCertificate, EmployeeEnrolledClass,
      OnboardingTaskStep, OnboardingTaskListCustomQuestion,
      OBQuestionBankMultipleChoiceAnswers, EsignatureMetadata, FileMetadata,
      EsignatureFile, PositionUnset, PayrollPositions, EmployeePositionOrganization,
      PositionSet, PayrollDirectDeposits, EmployeeDirectDeposit, EmployeeFields,
      PayrollAlternateRates, EmployeeAlternateRate, Insert, InsertKeyed,
      InsertMissing, Update, Delete
<1> QED BY <1>1, <1>2 DEF Harmless

LEMMA ApplTrackHarmless == Harmless(ApplTrack)
<1>1. Listed(ApplTrack) /\ Len(ApplTrack) = 8
  BY DEF Listed, Elements, ApplTrack
<1>2. \A k \in 1 .. 8 : ApplTrack[k].kind # "inactivate"
  BY DEF ApplTrack, ATJobPosting, ATApplication, ATApplicationNote,
      ATApplicationStatusHistory, ATApplicationVersionCustomQuestion,
      ATApplicationQuestionBankAnswer, ATJobPostingResponsibleUser,
      ATQuestionBankMultipleChoiceAnswers, Insert, InsertKeyed, InsertMissing, Update,
      Delete
<1> QED BY <1>1, <1>2 DEF Harmless

LEMMA OnboardDataSetHarmless == Harmless(OnboardDataSet)
<1>1. Listed(OnboardDataSet) /\ Len(OnboardDataSet) = 1
  BY DEF Listed, Elements, OnboardDataSet
<1>2. \A k \in 1 .. 1 : OnboardDataSet[k].kind # "inactivate"
  BY DEF OnboardDataSet, EmployeeOnboard, Insert, InsertKeyed, InsertMissing, Update,
      Delete
<1> QED BY <1>1, <1>2 DEF Harmless

LEMMA DocumentsHarmless == Harmless(Documents)
<1>1. Listed(Documents) /\ Len(Documents) = 20
  BY DEF Listed, Elements, Documents
<1>2. \A k \in 1 .. 20 : Documents[k].kind # "inactivate"
  BY DEF Documents, CompanyDocument, EmployeeDocument, AnnouncementDocument,
      BenefitPlanDocument, EmployeeI9Document, EmployeeBCDocument,
      EmployeeEsignCompanyDocument, EmployeePhotoDocument, EmployeeW4,
      EmployeeAbsenceDocument, EmployeeAchievementDocument, EmployeeBenefitDocument,
      EmployeeCertificateDocument, EmployeeEnrolledClassDocument,
      EmployeeLicenseDocument, EmployeeOnboardDocument, EmployeeReviewDocument,
      EmployeeSkillDocument, CompanyLogoDocument, ApplicantDocument, Insert,
      InsertKeyed, InsertMissing, Update, Delete
<1> QED BY <1>1, <1>2 DEF Harmless

\* Calls of a procedure that begins with the copy of the users.
LEMMA UsersFirstCall ==
    ASSUME NEW proc, NEW s, Listed(s), s[1].kind = "missing"
    PROVE  Guarded(Call(proc, s))
<1>1. Listed(Call(proc, s)) /\ Len(Call(proc, s)) = Len(s) /\ Len(s) \in Nat \ {0}
  BY CallOfList DEF Listed
<1>2. \A k \in 1 .. Len(s) : Call(proc, s)[k].do = s[k]
  BY CallOfList
<1>3. ASSUME NEW k \in 1 .. Len(s), Call(proc, s)[k].do.kind = "inactivate"
      PROVE  \E j \in 1 .. k - 1 : Call(proc, s)[j].do.kind = "missing"
  <2>1. k # 1 /\ 1 \in 1 .. Len(s)
    BY <1>1, <1>2, <1>3
  <2>2. 1 \in 1 .. k - 1
    BY <1>1, <2>1
  <2> QED BY <1>2, <2>1, <2>2
<1> QED BY <1>1, <1>3 DEF Guarded

LEMMA SecDataSetGuarded == Guarded(Call("SecDataSet", SecDataSet))
<1>1. Listed(SecDataSet)
  BY DEF Listed, Elements, SecDataSet
<1>2. SecDataSet[1].kind = "missing"
  BY DEF SecDataSet, HRnextUser, InsertMissing
<1> QED BY <1>1, <1>2, UsersFirstCall

LEMMA UpdateGuarded ==
    ASSUME NEW update \in {PositionType, AlertRecipients, QRWSavedReport, CompanyDefaults}
    PROVE  Guarded(Call("CompanyUpdates", <<update>>))
<1>1. update.kind # "inactivate"
  BY DEF PositionType, AlertRecipients, QRWSavedReport, CompanyDefaults, Insert, Update
<1>2. Harmless(<<update>>)
  BY <1>1 DEF Harmless, Listed, Elements
<1> QED BY <1>2, HarmlessCall

LEMMA ScriptGuarded == Guarded(Script)
<1>1. /\ Guarded(Call("CompanyWrapper", CompanyWrapper))
      /\ Guarded(Call("CompensationDataSet", CompensationDataSet))
      /\ Guarded(Call("Benefits", Benefits))
      /\ Guarded(Call("MultiTableTwoTier", MultiTableTwoTier))
      /\ Guarded(Call("ApplTrack", ApplTrack))
      /\ Guarded(Call("OnboardDataSet", OnboardDataSet))
      /\ Guarded(Call("Documents", Documents))
  BY HarmlessCall, CompanyWrapperHarmless, CompensationDataSetHarmless, BenefitsHarmless,
     MultiTableTwoTierHarmless, ApplTrackHarmless, OnboardDataSetHarmless, DocumentsHarmless
<1>2. /\ Guarded(Call("CompanyUpdates", <<PositionType>>))
      /\ Guarded(Call("CompanyUpdates", <<AlertRecipients>>))
      /\ Guarded(Call("CompanyUpdates", <<QRWSavedReport>>))
      /\ Guarded(Call("CompanyUpdates", <<CompanyDefaults>>))
  BY UpdateGuarded
<1> QED BY <1>1, <1>2, SecDataSetGuarded, GuardedConcat DEF Script

\* The script goes on, after a call of a procedure, with a later one or ends.
LEMMA Scripted ==
    /\ Len(Script) \in Nat \ {0}
    /\ \A p \in Positions : NextCall[p] \in p + 1 .. Len(Script) + 1
<1>1. Len(Script) \in Nat \ {0}
  BY ScriptGuarded DEF Guarded, Listed
<1>2. ASSUME NEW p \in Positions
      PROVE  NextCall[p] \in p + 1 .. Len(Script) + 1
  <2> DEFINE T == {q \in p + 1 .. Len(Script) + 1 : q \in Positions => Script[q].first}
  <2>1. Len(Script) + 1 \in T /\ T \in SUBSET Nat
    BY <1>1 DEF Positions
  <2>2. PICK q \in T : \A r \in T : q <= r
    BY <2>1, HasLeast
  <2>3. \A r \in p + 1 .. q - 1 : ~ Script[r].first
    <3> SUFFICES ASSUME NEW r \in p + 1 .. q - 1, Script[r].first
                 PROVE  FALSE
      OBVIOUS
    <3>1. r \in T /\ r < q
      BY <1>1, <2>1 DEF Positions
    <3> QED BY <1>1, <2>1, <2>2, <3>1 DEF Positions
  <2>4. \E x \in p + 1 .. Len(Script) + 1 :
          /\ x \in Positions => Script[x].first
          /\ \A r \in p + 1 .. x - 1 : ~ Script[r].first
    BY <2>2, <2>3
  <2> QED BY <2>4 DEF NextCall
<1> QED BY <1>1, <1>2

-----------------------------------------------------------------------------
(* The order of the statements: each table is copied before it is looked into       *)

\* Tables of the schema and of the payroll.
Unfilled ==
    {"AutoPayType", "BeneficiaryRelationshipType", "BenefitCoverageType",
    "BenefitPlanType", "Company", "CountryStateType", "DependentRelationshipType",
    "EEOType", "EducationLevelType", "Employee", "EmploymentType",
    "EsignatureProductTier", "EthnicityType", "FLSAType", "FrequencyType",
    "GenderType", "LifeEventReason", "MaritalStatusType", "OnboardingStatusType",
    "OrganizationStructure", "OrganizationType", "PayType", "RateType", "SecCDD",
    "SecResource", "SecResourceGroup", "SecResourceSubGroup", "SecRoleLevel",
    "StatusType", "TaxFormType", "TerminationReason", "WorkerCompType"}

\* The statements that delete what the payroll brought.
Deletes ==
    {<<25, "Alert">>, <<29, "EmployeeCompensation">>, <<67,
    "EmployeePositionOrganization">>, <<70, "EmployeeDirectDeposit">>, <<73,
    "EmployeeAlternateRate">>, <<83, "SecPermissionRole">>, <<84, "SecPermission">>,
    <<85, "SecRole">>}

Regular(statement, p) ==
    /\ statement.kind = "delete" => <<p, statement.table>> \in Deletes
    /\ statement.table \in Unfilled => statement.kind = "update"

\* From statement q on, the table has the rows of the migration.
CopiedBy(table, q) == \A p \in Positions : q < p => HoldsRows(p, table)

\* The statements of t come after the calls of s.
Continues(c, s, t) ==
    /\ Listed(c)
    /\ Len(c) = Len(s) + Len(t)
    /\ \A k \in 1 .. Len(s) : c[k] = s[k]
    /\ \A k \in 1 .. Len(t) : c[Len(s) + k].do = t[k]

Calls(c, t) ==
    /\ Listed(c)
    /\ Len(c) = Len(t)
    /\ \A k \in 1 .. Len(t) : c[k].do = t[k]

LEMMA CallsList ==
    ASSUME NEW proc, NEW t, Listed(t)
    PROVE  Calls(Call(proc, t), t)
BY CallOfList DEF Calls

Joins(c, s, t) ==
    \A k \in 1 .. Len(s) + Len(t) : c[k] = IF k <= Len(s) THEN s[k] ELSE t[k - Len(s)]

LEMMA ConcatJoins ==
    ASSUME NEW s, NEW t, Listed(s), Listed(t)
    PROVE  Joins(s \o t, s, t)
BY ListedConcat DEF Joins

LEMMA CallAppended ==
    ASSUME NEW s, Listed(s), NEW proc, NEW t, Listed(t)
    PROVE  Continues(s \o Call(proc, t), s, t)
<1> DEFINE c == Call(proc, t)
<1>1. Listed(c) /\ Len(c) = Len(t) /\ \A k \in 1 .. Len(t) : c[k].do = t[k]
  BY CallOfList
<1>2. Len(s) \in Nat /\ Len(t) \in Nat
  BY DEF Listed
<1> HIDE DEF c
<1>3. /\ Listed(s \o c) /\ Len(s \o c) = Len(s) + Len(c)
      /\ \A k \in 1 .. Len(s) + Len(c) :
            (s \o c)[k] = IF k <= Len(s) THEN s[k] ELSE c[k - Len(s)]
  BY <1>1, ListedConcat
<1>4. \A k \in 1 .. Len(s) : (s \o c)[k] = s[k]
  BY <1>1, <1>2, <1>3
<1>5. ASSUME NEW k \in 1 .. Len(t)
      PROVE  (s \o c)[Len(s) + k].do = t[k]
  <2>1. (s \o c)[Len(s) + k] = c[k]
    BY <1>1, <1>2, <1>3
  <2> QED BY <1>1, <2>1
<1> QED BY <1>1, <1>3, <1>4, <1>5 DEF c, Continues

LEMMA PartsListed ==
    /\ Listed(CompanyWrapper) /\ Len(CompanyWrapper) = 26
    /\ Listed(<<PositionType>>) /\ Len(<<PositionType>>) = 1
    /\ Listed(CompensationDataSet) /\ Len(CompensationDataSet) = 6
    /\ Listed(Benefits) /\ Len(Benefits) = 17
    /\ Listed(MultiTableTwoTier) /\ Len(MultiTableTwoTier) = 24
    /\ Listed(SecDataSet) /\ Len(SecDataSet) = 20
    /\ Listed(<<AlertRecipients>>) /\ Len(<<AlertRecipients>>) = 1
    /\ Listed(<<QRWSavedReport>>) /\ Len(<<QRWSavedReport>>) = 1
    /\ Listed(ApplTrack) /\ Len(ApplTrack) = 8
    /\ Listed(OnboardDataSet) /\ Len(OnboardDataSet) = 1
    /\ Listed(Documents) /\ Len(Documents) = 20
    /\ Listed(<<CompanyDefaults>>) /\ Len(<<CompanyDefaults>>) = 1
<1>1. Listed(CompanyWrapper) /\ Len(CompanyWrapper) = 26
  <2> DEFINE inserts == [k \in DOMAIN CompanyTables |-> DynamicInsert(CompanyTables[k])]
             alert == <<DynamicDelete("Alert"), DynamicInsert("Alert")>>
  <2>1. DOMAIN CompanyTables = 1 .. 24
    BY DEF CompanyTables
  <2>2. Listed(inserts) /\ Len(inserts) = 24
    BY <2>1 DEF Listed, Elements
  <2>3. Listed(alert) /\ Len(alert) = 2
    BY DEF Listed, Elements
  <2> HIDE DEF inserts, alert
  <2>4. Len(inserts \o alert) = Len(inserts) + Len(alert)
    BY <2>2, <2>3, ListedConcat, Zenon
  <2> QED BY <2>2, <2>3, <2>4, CompanyWrapperHarmless DEF CompanyWrapper, inserts,
       alert, Harmless
<1>2. Listed(<<PositionType>>) /\ Len(<<PositionType>>) = 1
  BY DEF Listed, Elements
<1>3. Listed(CompensationDataSet) /\ Len(CompensationDataSet) = 6
  BY DEF Listed, Elements, CompensationDataSet
<1>4. Listed(Benefits) /\ Len(Benefits) = 17
  BY DEF Listed, Elements, Benefits
<1>5. Listed(MultiTableTwoTier) /\ Len(MultiTableTwoTier) = 24
  BY DEF Listed, Elements, MultiTableTwoTier
<1>6. Listed(SecDataSet) /\ Len(SecDataSet) = 20
  BY DEF Listed, Elements, SecDataSet
<1>7. Listed(<<AlertRecipients>>) /\ Len(<<AlertRecipients>>) = 1
  BY DEF Listed, Elements
<1>8. Listed(<<QRWSavedReport>>) /\ Len(<<QRWSavedReport>>) = 1
  BY DEF Listed, Elements
<1>9. Listed(ApplTrack) /\ Len(ApplTrack) = 8
  BY DEF Listed, Elements, ApplTrack
<1>10. Listed(OnboardDataSet) /\ Len(OnboardDataSet) = 1
  BY DEF Listed, Elements, OnboardDataSet
<1>11. Listed(Documents) /\ Len(Documents) = 20
  BY DEF Listed, Elements, Documents
<1>12. Listed(<<CompanyDefaults>>) /\ Len(<<CompanyDefaults>>) = 1
  BY DEF Listed, Elements
<1> QED BY <1>1, <1>2, <1>3, <1>4, <1>5, <1>6, <1>7, <1>8, <1>9, <1>10, <1>11, <1>12

LEMMA Places ==
    /\ Len(Script) = 126
    /\ \A k \in 1 .. 26 : Script[k].do = CompanyWrapper[k]
    /\ Script[27].do = PositionType
    /\ \A k \in 1 .. 6 : Script[27 + k].do = CompensationDataSet[k]
    /\ \A k \in 1 .. 17 : Script[33 + k].do = Benefits[k]
    /\ \A k \in 1 .. 24 : Script[50 + k].do = MultiTableTwoTier[k]
    /\ \A k \in 1 .. 20 : Script[74 + k].do = SecDataSet[k]
    /\ Script[95].do = AlertRecipients
    /\ Script[96].do = QRWSavedReport
    /\ \A k \in 1 .. 8 : Script[96 + k].do = ApplTrack[k]
    /\ \A k \in 1 .. 1 : Script[104 + k].do = OnboardDataSet[k]
    /\ \A k \in 1 .. 20 : Script[105 + k].do = Documents[k]
    /\ Script[126].do = CompanyDefaults
<1> DEFINE s1 == Call("CompanyWrapper", CompanyWrapper)
           s2 == s1 \o Call("CompanyUpdates", <<PositionType>>)
           s3 == s2 \o Call("CompensationDataSet", CompensationDataSet)
           s4 == s3 \o Call("Benefits", Benefits)
           s5 == s4 \o Call("MultiTableTwoTier", MultiTableTwoTier)
           s6 == s5 \o Call("SecDataSet", SecDataSet)
           s7 == s6 \o Call("CompanyUpdates", <<AlertRecipients>>)
           s8 == s7 \o Call("CompanyUpdates", <<QRWSavedReport>>)
           s9 == s8 \o Call("ApplTrack", ApplTrack)
           s10 == s9 \o Call("OnboardDataSet", OnboardDataSet)
           s11 == s10 \o Call("Documents", Documents)
           s12 == s11 \o Call("CompanyUpdates", <<CompanyDefaults>>)
<1>1. /\ Listed(s1) /\ Len(s1) = 26 /\ \A k \in 1 .. 26 : s1[k].do = CompanyWrapper[k]
  <2>1. Listed(CompanyWrapper)
    BY PartsListed, Zenon
  <2>2. Calls(s1, CompanyWrapper)
    BY <2>1, CallsList
  <2>3. Len(CompanyWrapper) = 26
    BY PartsListed, Zenon
  <2> HIDE DEF s1
  <2> QED BY <2>2, <2>3 DEF Calls
<1>2. /\ Listed(s2) /\ Len(s2) = 27
      /\ \A k \in 1 .. 26 : s2[k] = s1[k]
      /\ s2[27].do = PositionType
  <2> HIDE DEF s1
  <2>1. Continues(s2, s1, <<PositionType>>)
    <3>1. Listed(s1)
      BY <1>1, Zenon
    <3>2. Listed(<<PositionType>>)
      BY PartsListed, Zenon
    <3> QED BY <3>1, <3>2, CallAppended
  <2> HIDE DEF s2
  <2>2. Len(s1) = 26 /\ Len(<<PositionType>>) = 1
    BY <1>1, PartsListed, Zenon
  <2> QED BY <2>1, <2>2 DEF Continues
<1>3. /\ Listed(s3) /\ Len(s3) = 33
      /\ \A k \in 1 .. 27 : s3[k] = s2[k]
      /\ \A k \in 1 .. 6 : s3[27 + k].do = CompensationDataSet[k]
  <2> HIDE DEF s2
  <2>1. Continues(s3, s2, CompensationDataSet)
    <3>1. Listed(s2)
      BY <1>2, Zenon
    <3>2. Listed(CompensationDataSet)
      BY PartsListed, Zenon
    <3> QED BY <3>1, <3>2, CallAppended
  <2> HIDE DEF s3
  <2>2. Len(s2) = 27 /\ Len(CompensationDataSet) = 6
    BY <1>2, PartsListed, Zenon
  <2> QED BY <2>1, <2>2 DEF Continues
<1>4. /\ Listed(s4) /\ Len(s4) = 50
      /\ \A k \in 1 .. 33 : s4[k] = s3[k]
      /\ \A k \in 1 .. 17 : s4[33 + k].do = Benefits[k]
  <2> HIDE DEF s3
  <2>1. Continues(s4, s3, Benefits)
    <3>1. Listed(s3)
      BY <1>3, Zenon
    <3>2. Listed(Benefits)
      BY PartsListed, Zenon
    <3> QED BY <3>1, <3>2, CallAppended
  <2> HIDE DEF s4
  <2>2. Len(s3) = 33 /\ Len(Benefits) = 17
    BY <1>3, PartsListed, Zenon
  <2> QED BY <2>1, <2>2 DEF Continues
<1>5. /\ Listed(s5) /\ Len(s5) = 74
      /\ \A k \in 1 .. 50 : s5[k] = s4[k]
      /\ \A k \in 1 .. 24 : s5[50 + k].do = MultiTableTwoTier[k]
  <2> HIDE DEF s4
  <2>1. Continues(s5, s4, MultiTableTwoTier)
    <3>1. Listed(s4)
      BY <1>4, Zenon
    <3>2. Listed(MultiTableTwoTier)
      BY PartsListed, Zenon
    <3> QED BY <3>1, <3>2, CallAppended
  <2> HIDE DEF s5
  <2>2. Len(s4) = 50 /\ Len(MultiTableTwoTier) = 24
    BY <1>4, PartsListed, Zenon
  <2> QED BY <2>1, <2>2 DEF Continues
<1>6. /\ Listed(s6) /\ Len(s6) = 94
      /\ \A k \in 1 .. 74 : s6[k] = s5[k]
      /\ \A k \in 1 .. 20 : s6[74 + k].do = SecDataSet[k]
  <2> HIDE DEF s5
  <2>1. Continues(s6, s5, SecDataSet)
    <3>1. Listed(s5)
      BY <1>5, Zenon
    <3>2. Listed(SecDataSet)
      BY PartsListed, Zenon
    <3> QED BY <3>1, <3>2, CallAppended
  <2> HIDE DEF s6
  <2>2. Len(s5) = 74 /\ Len(SecDataSet) = 20
    BY <1>5, PartsListed, Zenon
  <2> QED BY <2>1, <2>2 DEF Continues
<1>7. /\ Listed(s7) /\ Len(s7) = 95
      /\ \A k \in 1 .. 94 : s7[k] = s6[k]
      /\ s7[95].do = AlertRecipients
  <2> HIDE DEF s6
  <2>1. Continues(s7, s6, <<AlertRecipients>>)
    <3>1. Listed(s6)
      BY <1>6, Zenon
    <3>2. Listed(<<AlertRecipients>>)
      BY PartsListed, Zenon
    <3> QED BY <3>1, <3>2, CallAppended
  <2> HIDE DEF s7
  <2>2. Len(s6) = 94 /\ Len(<<AlertRecipients>>) = 1
    BY <1>6, PartsListed, Zenon
  <2> QED BY <2>1, <2>2 DEF Continues
<1>8. /\ Listed(s8) /\ Len(s8) = 96
      /\ \A k \in 1 .. 95 : s8[k] = s7[k]
      /\ s8[96].do = QRWSavedReport
  <2> HIDE DEF s7
  <2>1. Continues(s8, s7, <<QRWSavedReport>>)
    <3>1. Listed(s7)
      BY <1>7, Zenon
    <3>2. Listed(<<QRWSavedReport>>)
      BY PartsListed, Zenon
    <3> QED BY <3>1, <3>2, CallAppended
  <2> HIDE DEF s8
  <2>2. Len(s7) = 95 /\ Len(<<QRWSavedReport>>) = 1
    BY <1>7, PartsListed, Zenon
  <2> QED BY <2>1, <2>2 DEF Continues
<1>9. /\ Listed(s9) /\ Len(s9) = 104
      /\ \A k \in 1 .. 96 : s9[k] = s8[k]
      /\ \A k \in 1 .. 8 : s9[96 + k].do = ApplTrack[k]
  <2> HIDE DEF s8
  <2>1. Continues(s9, s8, ApplTrack)
    <3>1. Listed(s8)
      BY <1>8, Zenon
    <3>2. Listed(ApplTrack)
      BY PartsListed, Zenon
    <3> QED BY <3>1, <3>2, CallAppended
  <2> HIDE DEF s9
  <2>2. Len(s8) = 96 /\ Len(ApplTrack) = 8
    BY <1>8, PartsListed, Zenon
  <2> QED BY <2>1, <2>2 DEF Continues
<1>10. /\ Listed(s10) /\ Len(s10) = 105
       /\ \A k \in 1 .. 104 : s10[k] = s9[k]
       /\ \A k \in 1 .. 1 : s10[104 + k].do = OnboardDataSet[k]
  <2> HIDE DEF s9
  <2>1. Continues(s10, s9, OnboardDataSet)
    <3>1. Listed(s9)
      BY <1>9, Zenon
    <3>2. Listed(OnboardDataSet)
      BY PartsListed, Zenon
    <3> QED BY <3>1, <3>2, CallAppended
  <2> HIDE DEF s10
  <2>2. Len(s9) = 104 /\ Len(OnboardDataSet) = 1
    BY <1>9, PartsListed, Zenon
  <2> QED BY <2>1, <2>2 DEF Continues
<1>11. /\ Listed(s11) /\ Len(s11) = 125
       /\ \A k \in 1 .. 105 : s11[k] = s10[k]
       /\ \A k \in 1 .. 20 : s11[105 + k].do = Documents[k]
  <2> HIDE DEF s10
  <2>1. Continues(s11, s10, Documents)
    <3>1. Listed(s10)
      BY <1>10, Zenon
    <3>2. Listed(Documents)
      BY PartsListed, Zenon
    <3> QED BY <3>1, <3>2, CallAppended
  <2> HIDE DEF s11
  <2>2. Len(s10) = 105 /\ Len(Documents) = 20
    BY <1>10, PartsListed, Zenon
  <2> QED BY <2>1, <2>2 DEF Continues
<1>12. /\ Listed(s12) /\ Len(s12) = 126
       /\ \A k \in 1 .. 125 : s12[k] = s11[k]
       /\ s12[126].do = CompanyDefaults
  <2> HIDE DEF s11
  <2>1. Continues(s12, s11, <<CompanyDefaults>>)
    <3>1. Listed(s11)
      BY <1>11, Zenon
    <3>2. Listed(<<CompanyDefaults>>)
      BY PartsListed, Zenon
    <3> QED BY <3>1, <3>2, CallAppended
  <2> HIDE DEF s12
  <2>2. Len(s11) = 125 /\ Len(<<CompanyDefaults>>) = 1
    BY <1>11, PartsListed, Zenon
  <2> QED BY <2>1, <2>2 DEF Continues
<1>13. Script = s12
  BY DEF Script
<1> HIDE DEF s1, s2, s3, s4, s5, s6, s7, s8, s9, s10, s11, s12
<1>14. \A k \in 1 .. 126 : Script[k] = s12[k]
  BY <1>13
<1>15. \A k \in 1 .. 125 : Script[k] = s11[k]
  BY <1>14, <1>12
<1>16. \A k \in 1 .. 105 : Script[k] = s10[k]
  BY <1>15, <1>11
<1>17. \A k \in 1 .. 104 : Script[k] = s9[k]
  BY <1>16, <1>10
<1>18. \A k \in 1 .. 96 : Script[k] = s8[k]
  BY <1>17, <1>9
<1>19. \A k \in 1 .. 95 : Script[k] = s7[k]
  BY <1>18, <1>8
<1>20. \A k \in 1 .. 94 : Script[k] = s6[k]
  BY <1>19, <1>7
<1>21. \A k \in 1 .. 74 : Script[k] = s5[k]
  BY <1>20, <1>6
<1>22. \A k \in 1 .. 50 : Script[k] = s4[k]
  BY <1>21, <1>5
<1>23. \A k \in 1 .. 33 : Script[k] = s3[k]
  BY <1>22, <1>4
<1>24. \A k \in 1 .. 27 : Script[k] = s2[k]
  BY <1>23, <1>3
<1>25. \A k \in 1 .. 26 : Script[k] = s1[k]
  BY <1>24, <1>2
<1>26. \A k \in 1 .. 26 : Script[k].do = CompanyWrapper[k]
  BY <1>25, <1>1
<1>27. Script[27].do = PositionType
  BY <1>24, <1>2
<1>28. \A k \in 1 .. 6 : Script[27 + k].do = CompensationDataSet[k]
  BY <1>23, <1>3
<1>29. \A k \in 1 .. 17 : Script[33 + k].do = Benefits[k]
  BY <1>22, <1>4
<1>30. \A k \in 1 .. 24 : Script[50 + k].do = MultiTableTwoTier[k]
  BY <1>21, <1>5
<1>31. \A k \in 1 .. 20 : Script[74 + k].do = SecDataSet[k]
  BY <1>20, <1>6
<1>32. Script[95].do = AlertRecipients
  BY <1>19, <1>7
<1>33. Script[96].do = QRWSavedReport
  BY <1>18, <1>8
<1>34. \A k \in 1 .. 8 : Script[96 + k].do = ApplTrack[k]
  BY <1>17, <1>9
<1>35. \A k \in 1 .. 1 : Script[104 + k].do = OnboardDataSet[k]
  BY <1>16, <1>10
<1>36. \A k \in 1 .. 20 : Script[105 + k].do = Documents[k]
  BY <1>15, <1>11
<1>37. Script[126].do = CompanyDefaults
  BY <1>14, <1>12
<1>38. Len(Script) = 126
  BY <1>12, <1>13
<1> QED BY <1>26, <1>27, <1>28, <1>29, <1>30, <1>31, <1>32, <1>33, <1>34, <1>35,
     <1>36, <1>37, <1>38

LEMMA PositionsAre == Positions = 1 .. 126
BY Places DEF Positions

LEMMA WrapperPlaces ==
    /\ \A k \in 1 .. 24 : CompanyWrapper[k] = Insert(CompanyTables[k], {})
    /\ CompanyWrapper[25] = Delete("Alert") /\ CompanyWrapper[26] = Insert("Alert", {})
<1> DEFINE inserts == [k \in DOMAIN CompanyTables |-> DynamicInsert(CompanyTables[k])]
           alert == <<DynamicDelete("Alert"), DynamicInsert("Alert")>>
<1>1. DOMAIN CompanyTables = 1 .. 24
  BY DEF CompanyTables
<1>2. /\ Listed(inserts) /\ Len(inserts) = 24
      /\ \A k \in 1 .. 24 : inserts[k] = Insert(CompanyTables[k], {})
  BY <1>1 DEF Listed, Elements, DynamicInsert
<1>3. /\ Listed(alert) /\ Len(alert) = 2
      /\ alert[1] = Delete("Alert") /\ alert[2] = Insert("Alert", {})
  BY DEF Listed, Elements, DynamicDelete, DynamicInsert
<1> HIDE DEF inserts, alert
<1>4. \A k \in 1 .. 26 :
        (inserts \o alert)[k] = IF k <= 24 THEN inserts[k] ELSE alert[k - 24]
  <2>1. Joins(inserts \o alert, inserts, alert)
    BY <1>2, <1>3, ConcatJoins
  <2>2. \A c : Joins(c, inserts, alert) =>
            \A k \in 1 .. 26 : c[k] = IF k <= 24 THEN inserts[k] ELSE alert[k - 24]
    BY <1>2, <1>3 DEF Joins
  <2> QED BY <2>1, <2>2, Zenon
<1>5. \A k \in 1 .. 26 : CompanyWrapper[k] = IF k <= 24 THEN inserts[k] ELSE alert[k - 24]
  BY <1>4 DEF CompanyWrapper, inserts, alert
<1>6. CompanyWrapper[25] = alert[1] /\ CompanyWrapper[26] = alert[2]
  BY <1>5
<1> QED BY <1>2, <1>3, <1>5, <1>6

LEMMA WrapperRegular == \A k \in 1 .. 26 : Regular(CompanyWrapper[k], k)
<1>1. ASSUME NEW k \in 1 .. 24
      PROVE  Regular(CompanyWrapper[k], k)
  <2>1. CompanyTables[k] \notin Unfilled
    BY DEF CompanyTables, Unfilled
  <2> QED BY <2>1, WrapperPlaces DEF Regular, Insert
<1>2. Regular(CompanyWrapper[25], 25) /\ Regular(CompanyWrapper[26], 26)
  BY WrapperPlaces DEF Regular, Insert, Delete, Deletes, Unfilled
<1> QED BY <1>1, <1>2

LEMMA CompensationDataSetRegular == \A k \in 1 .. 6 : Regular(CompensationDataSet[k], 27 + k)
<1>1. CompensationDataSet[1] = I9Fields /\ Regular(CompensationDataSet[1], 27 + 1)
  BY DEF CompensationDataSet, I9Fields, Update, Regular, Unfilled
<1>2. /\ CompensationDataSet[2] = PayrollCompensation
      /\ Regular(CompensationDataSet[2], 27 + 2)
  BY DEF CompensationDataSet, PayrollCompensation, Delete, Regular, Unfilled, Deletes
<1>3. /\ CompensationDataSet[3] = EmployeeCompensation
      /\ Regular(CompensationDataSet[3], 27 + 3)
  BY DEF CompensationDataSet, EmployeeCompensation, Insert, Regular, Unfilled
<1>4. /\ CompensationDataSet[4] = TimeClockFields
      /\ Regular(CompensationDataSet[4], 27 + 4)
  BY DEF CompensationDataSet, TimeClockFields, Update, Regular, Unfilled
<1>5. /\ CompensationDataSet[5] = EmployeeAbsence
      /\ Regular(CompensationDataSet[5], 27 + 5)
  BY DEF CompensationDataSet, EmployeeAbsence, Insert, Regular, Unfilled
<1>6. /\ CompensationDataSet[6] = EmployeeAbsenceDetail
      /\ Regular(CompensationDataSet[6], 27 + 6)
  BY DEF CompensationDataSet, EmployeeAbsenceDetail, Insert, Regular, Unfilled
<1> QED BY <1>1, <1>2, <1>3, <1>4, <1>5, <1>6

LEMMA BenefitsRegular == \A k \in 1 .. 17 : Regular(Benefits[k], 33 + k)
<1>1. Benefits[1] = BenefitPlan /\ Regular(Benefits[1], 33 + 1)
  BY DEF Benefits, BenefitPlan, Insert, Regular, Unfilled
<1>2. Benefits[2] = RelatedPlan /\ Regular(Benefits[2], 33 + 2)
  BY DEF Benefits, RelatedPlan, Update, Regular, Unfilled
<1>3. Benefits[3] = BenefitPlanAgeBand /\ Regular(Benefits[3], 33 + 3)
  BY DEF Benefits, BenefitPlanAgeBand, Insert, Regular, Unfilled
<1>4. Benefits[4] = BenefitPlanRate /\ Regular(Benefits[4], 33 + 4)
  BY DEF Benefits, BenefitPlanRate, Insert, Regular, Unfilled
<1>5. Benefits[5] = BenefitPlanFrequencyOverride /\ Regular(Benefits[5], 33 + 5)
  BY DEF Benefits, BenefitPlanFrequencyOverride, Insert, Regular, Unfilled
<1>6. Benefits[6] = BenefitPlanClass /\ Regular(Benefits[6], 33 + 6)
  BY DEF Benefits, BenefitPlanClass, Insert, Regular, Unfilled
<1>7. Benefits[7] = BenefitPlanTieredCoverageAmount /\ Regular(Benefits[7], 33 + 7)
  BY DEF Benefits, BenefitPlanTieredCoverageAmount, Insert, Regular, Unfilled
<1>8. Benefits[8] = OpenEnrollmentEmployeeElection /\ Regular(Benefits[8], 33 + 8)
  BY DEF Benefits, OpenEnrollmentEmployeeElection, Insert, Regular, Unfilled
<1>9. Benefits[9] = EmployeeBenefit /\ Regular(Benefits[9], 33 + 9)
  BY DEF Benefits, EmployeeBenefit, Insert, Regular, Unfilled
<1>10. Benefits[10] = EmployeeBeneficiary /\ Regular(Benefits[10], 33 + 10)
  BY DEF Benefits, EmployeeBeneficiary, Insert, Regular, Unfilled
<1>11. Benefits[11] = EmployeeDependent /\ Regular(Benefits[11], 33 + 11)
  BY DEF Benefits, EmployeeDependent, Insert, Regular, Unfilled
<1>12. Benefits[12] = OpenEnrollmentBenefitPlan /\ Regular(Benefits[12], 33 + 12)
  BY DEF Benefits, OpenEnrollmentBenefitPlan, Insert, Regular, Unfilled
<1>13. /\ Benefits[13] = OpenEnrollmentElectionCoveredBeneficiary
       /\ Regular(Benefits[13], 33 + 13)
  BY DEF Benefits, OpenEnrollmentElectionCoveredBeneficiary, Insert, Regular, Unfilled
<1>14. /\ Benefits[14] = OpenEnrollmentElectionCoveredDependent
       /\ Regular(Benefits[14], 33 + 14)
  BY DEF Benefits, OpenEnrollmentElectionCoveredDependent, Insert, Regular, Unfilled
<1>15. Benefits[15] = OpenEnrollmentEmployee /\ Regular(Benefits[15], 33 + 15)
  BY DEF Benefits, OpenEnrollmentEmployee, Insert, Regular, Unfilled
<1>16. Benefits[16] = CoveredDependent /\ Regular(Benefits[16], 33 + 16)
  BY DEF Benefits, CoveredDependent, Insert, Regular, Unfilled
<1>17. Benefits[17] = CoveredBeneficiary /\ Regular(Benefits[17], 33 + 17)
  BY DEF Benefits, CoveredBeneficiary, Insert, Regular, Unfilled
<1> QED BY <1>1, <1>2, <1>3, <1>4, <1>5, <1>6, <1>7, <1>8, <1>9, <1>10, <1>11, <1>12,
     <1>13, <1>14, <1>15, <1>16, <1>17

LEMMA MultiTableTwoTierRegular == \A k \in 1 .. 24 : Regular(MultiTableTwoTier[k], 50 + k)
<1>1. /\ MultiTableTwoTier[1] = EmployeeEmergencyContact
      /\ Regular(MultiTableTwoTier[1], 50 + 1)
  BY DEF MultiTableTwoTier, EmployeeEmergencyContact, Insert, Regular, Unfilled
<1>2. MultiTableTwoTier[2] = EmployeeNote /\ Regular(MultiTableTwoTier[2], 50 + 2)
  BY DEF MultiTableTwoTier, EmployeeNote, Insert, Regular, Unfilled
<1>3. /\ MultiTableTwoTier[3] = EmployeeEducationLevel
      /\ Regular(MultiTableTwoTier[3], 50 + 3)
  BY DEF MultiTableTwoTier, EmployeeEducationLevel, Insert, Regular, Unfilled
<1>4. MultiTableTwoTier[4] = EmployeeReview /\ Regular(MultiTableTwoTier[4], 50 + 4)
  BY DEF MultiTableTwoTier, EmployeeReview, Insert, Regular, Unfilled
<1>5. MultiTableTwoTier[5] = EmployeeSkill /\ Regular(MultiTableTwoTier[5], 50 + 5)
  BY DEF MultiTableTwoTier, EmployeeSkill, Insert, Regular, Unfilled
<1>6. MultiTableTwoTier[6] = EmployeeLicense /\ Regular(MultiTableTwoTier[6], 50 + 6)
  BY DEF MultiTableTwoTier, EmployeeLicense, Insert, Regular, Unfilled
<1>7. /\ MultiTableTwoTier[7] = EmployeeAchievement
      /\ Regular(MultiTableTwoTier[7], 50 + 7)
  BY DEF MultiTableTwoTier, EmployeeAchievement, Insert, Regular, Unfilled
<1>8. /\ MultiTableTwoTier[8] = EmployeeCertificate
      /\ Regular(MultiTableTwoTier[8], 50 + 8)
  BY DEF MultiTableTwoTier, EmployeeCertificate, Insert, Regular, Unfilled
<1>9. /\ MultiTableTwoTier[9] = EmployeeEnrolledClass
      /\ Regular(MultiTableTwoTier[9], 50 + 9)
  BY DEF MultiTableTwoTier, EmployeeEnrolledClass, Insert, Regular, Unfilled
<1>10. /\ MultiTableTwoTier[10] = OnboardingTaskStep
       /\ Regular(MultiTableTwoTier[10], 50 + 10)
  BY DEF MultiTableTwoTier, OnboardingTaskStep, Insert, Regular, Unfilled
<1>11. /\ MultiTableTwoTier[11] = OnboardingTaskListCustomQuestion
       /\ Regular(MultiTableTwoTier[11], 50 + 11)
  BY DEF MultiTableTwoTier, OnboardingTaskListCustomQuestion, Insert, Regular, Unfilled
<1>12. /\ MultiTableTwoTier[12] = OBQuestionBankMultipleChoiceAnswers
       /\ Regular(MultiTableTwoTier[12], 50 + 12)
  BY DEF MultiTableTwoTier, OBQuestionBankMultipleChoiceAnswers, Insert, Regular, Unfilled
<1>13. /\ MultiTableTwoTier[13] = EsignatureMetadata
       /\ Regular(MultiTableTwoTier[13], 50 + 13)
  BY DEF MultiTableTwoTier, EsignatureMetadata, InsertKeyed, Regular, Unfilled
<1>14. MultiTableTwoTier[14] = FileMetadata /\ Regular(MultiTableTwoTier[14], 50 + 14)
  BY DEF MultiTableTwoTier, FileMetadata, Insert, Regular, Unfilled
<1>15. MultiTableTwoTier[15] = EsignatureFile /\ Regular(MultiTableTwoTier[15], 50 + 15)
  BY DEF MultiTableTwoTier, EsignatureFile, Update, Regular, Unfilled
<1>16. MultiTableTwoTier[16] = PositionUnset /\ Regular(MultiTableTwoTier[16], 50 + 16)
  BY DEF MultiTableTwoTier, PositionUnset, Update, Regular, Unfilled
<1>17. /\ MultiTableTwoTier[17] = PayrollPositions
       /\ Regular(MultiTableTwoTier[17], 50 + 17)
  BY DEF MultiTableTwoTier, PayrollPositions, Delete, Regular, Unfilled, Deletes
<1>18. /\ MultiTableTwoTier[18] = EmployeePositionOrganization
       /\ Regular(MultiTableTwoTier[18], 50 + 18)
  BY DEF MultiTableTwoTier, EmployeePositionOrganization, Insert, Regular, Unfilled
<1>19. MultiTableTwoTier[19] = PositionSet /\ Regular(MultiTableTwoTier[19], 50 + 19)
  BY DEF MultiTableTwoTier, PositionSet, Update, Regular, Unfilled
<1>20. /\ MultiTableTwoTier[20] = PayrollDirectDeposits
       /\ Regular(MultiTableTwoTier[20], 50 + 20)
  BY DEF MultiTableTwoTier, PayrollDirectDeposits, Delete, Regular, Unfilled, Deletes
<1>21. /\ MultiTableTwoTier[21] = EmployeeDirectDeposit
       /\ Regular(MultiTableTwoTier[21], 50 + 21)
  BY DEF MultiTableTwoTier, EmployeeDirectDeposit, Insert, Regular, Unfilled
<1>22. MultiTableTwoTier[22] = EmployeeFields /\ Regular(MultiTableTwoTier[22], 50 + 22)
  BY DEF MultiTableTwoTier, EmployeeFields, Update, Regular, Unfilled
<1>23. /\ MultiTableTwoTier[23] = PayrollAlternateRates
       /\ Regular(MultiTableTwoTier[23], 50 + 23)
  BY DEF MultiTableTwoTier, PayrollAlternateRates, Delete, Regular, Unfilled, Deletes
<1>24. /\ MultiTableTwoTier[24] = EmployeeAlternateRate
       /\ Regular(MultiTableTwoTier[24], 50 + 24)
  BY DEF MultiTableTwoTier, EmployeeAlternateRate, Insert, Regular, Unfilled
<1> QED BY <1>1, <1>2, <1>3, <1>4, <1>5, <1>6, <1>7, <1>8, <1>9, <1>10, <1>11, <1>12,
     <1>13, <1>14, <1>15, <1>16, <1>17, <1>18, <1>19, <1>20, <1>21, <1>22, <1>23,
     <1>24

LEMMA SecDataSetRegular == \A k \in 1 .. 20 : Regular(SecDataSet[k], 74 + k)
<1>1. SecDataSet[1] = HRnextUser /\ Regular(SecDataSet[1], 74 + 1)
  BY DEF SecDataSet, HRnextUser, InsertMissing, Regular, Unfilled
<1>2. SecDataSet[2] = HRnextUserCompany /\ Regular(SecDataSet[2], 74 + 2)
  BY DEF SecDataSet, HRnextUserCompany, Insert, Regular, Unfilled
<1>3. SecDataSet[3] = HRnextUserEmployee /\ Regular(SecDataSet[3], 74 + 3)
  BY DEF SecDataSet, HRnextUserEmployee, Insert, Regular, Unfilled
<1>4. SecDataSet[4] = HRnextAudit /\ Regular(SecDataSet[4], 74 + 4)
  BY DEF SecDataSet, HRnextAudit, Insert, Regular, Unfilled
<1>5. SecDataSet[5] = HRnextAuditDetail /\ Regular(SecDataSet[5], 74 + 5)
  BY DEF SecDataSet, HRnextAuditDetail, Insert, Regular, Unfilled
<1>6. SecDataSet[6] = SecEmployeeRecordFilter /\ Regular(SecDataSet[6], 74 + 6)
  BY DEF SecDataSet, SecEmployeeRecordFilter, Insert, Regular, Unfilled
<1>7. SecDataSet[7] = SecEmployeeRecordFilterValue /\ Regular(SecDataSet[7], 74 + 7)
  BY DEF SecDataSet, SecEmployeeRecordFilterValue, Insert, Regular, Unfilled
<1>8. SecDataSet[8] = PermissionsMarked /\ Regular(SecDataSet[8], 74 + 8)
  BY DEF SecDataSet, PermissionsMarked, Update, Regular, Unfilled
<1>9. SecDataSet[9] = RolePermissionsDeleted /\ Regular(SecDataSet[9], 74 + 9)
  BY DEF SecDataSet, RolePermissionsDeleted, Delete, Regular, Unfilled, Deletes
<1>10. SecDataSet[10] = PermissionsDeleted /\ Regular(SecDataSet[10], 74 + 10)
  BY DEF SecDataSet, PermissionsDeleted, Delete, Regular, Unfilled, Deletes
<1>11. SecDataSet[11] = RolesDeleted /\ Regular(SecDataSet[11], 74 + 11)
  BY DEF SecDataSet, RolesDeleted, Delete, Regular, Unfilled, Deletes
<1>12. SecDataSet[12] = SecRole /\ Regular(SecDataSet[12], 74 + 12)
  BY DEF SecDataSet, SecRole, Insert, Regular, Unfilled
<1>13. SecDataSet[13] = SecPermission /\ Regular(SecDataSet[13], 74 + 13)
  BY DEF SecDataSet, SecPermission, Insert, Regular, Unfilled
<1>14. SecDataSet[14] = UserPermission /\ Regular(SecDataSet[14], 74 + 14)
  BY DEF SecDataSet, UserPermission, Insert, Regular, Unfilled
<1>15. SecDataSet[15] = SecPermissionRole /\ Regular(SecDataSet[15], 74 + 15)
  BY DEF SecDataSet, SecPermissionRole, Insert, Regular, Unfilled
<1>16. SecDataSet[16] = SecPermissionUser /\ Regular(SecDataSet[16], 74 + 16)
  BY DEF SecDataSet, SecPermissionUser, Insert, Regular, Unfilled
<1>17. SecDataSet[17] = SecRoleUser /\ Regular(SecDataSet[17], 74 + 17)
  BY DEF SecDataSet, SecRoleUser, Insert, Regular, Unfilled
<1>18. SecDataSet[18] = RoleNames /\ Regular(SecDataSet[18], 74 + 18)
  BY DEF SecDataSet, RoleNames, Update, Regular, Unfilled
<1>19. /\ SecDataSet[19] = UserCompanyTimeclockCredential
       /\ Regular(SecDataSet[19], 74 + 19)
  BY DEF SecDataSet, UserCompanyTimeclockCredential, Insert, Regular, Unfilled
<1>20. SecDataSet[20] = UsersInactivated /\ Regular(SecDataSet[20], 74 + 20)
  BY DEF SecDataSet, UsersInactivated, Regular, Unfilled
<1> QED BY <1>1, <1>2, <1>3, <1>4, <1>5, <1>6, <1>7, <1>8, <1>9, <1>10, <1>11, <1>12,
     <1>13, <1>14, <1>15, <1>16, <1>17, <1>18, <1>19, <1>20

LEMMA ApplTrackRegular == \A k \in 1 .. 8 : Regular(ApplTrack[k], 96 + k)
<1>1. ApplTrack[1] = ATJobPosting /\ Regular(ApplTrack[1], 96 + 1)
  BY DEF ApplTrack, ATJobPosting, Insert, Regular, Unfilled
<1>2. ApplTrack[2] = ATApplication /\ Regular(ApplTrack[2], 96 + 2)
  BY DEF ApplTrack, ATApplication, Insert, Regular, Unfilled
<1>3. ApplTrack[3] = ATApplicationNote /\ Regular(ApplTrack[3], 96 + 3)
  BY DEF ApplTrack, ATApplicationNote, Insert, Regular, Unfilled
<1>4. ApplTrack[4] = ATApplicationStatusHistory /\ Regular(ApplTrack[4], 96 + 4)
  BY DEF ApplTrack, ATApplicationStatusHistory, Insert, Regular, Unfilled
<1>5. ApplTrack[5] = ATApplicationVersionCustomQuestion /\ Regular(ApplTrack[5], 96 + 5)
  BY DEF ApplTrack, ATApplicationVersionCustomQuestion, Insert, Regular, Unfilled
<1>6. ApplTrack[6] = ATApplicationQuestionBankAnswer /\ Regular(ApplTrack[6], 96 + 6)
  BY DEF ApplTrack, ATApplicationQuestionBankAnswer, Insert, Regular, Unfilled
<1>7. ApplTrack[7] = ATJobPostingResponsibleUser /\ Regular(ApplTrack[7], 96 + 7)
  BY DEF ApplTrack, ATJobPostingResponsibleUser, Insert, Regular, Unfilled
<1>8. /\ ApplTrack[8] = ATQuestionBankMultipleChoiceAnswers
      /\ Regular(ApplTrack[8], 96 + 8)
  BY DEF ApplTrack, ATQuestionBankMultipleChoiceAnswers, Insert, Regular, Unfilled
<1> QED BY <1>1, <1>2, <1>3, <1>4, <1>5, <1>6, <1>7, <1>8

LEMMA OnboardDataSetRegular == \A k \in 1 .. 1 : Regular(OnboardDataSet[k], 104 + k)
<1>1. OnboardDataSet[1] = EmployeeOnboard /\ Regular(OnboardDataSet[1], 104 + 1)
  BY DEF OnboardDataSet, EmployeeOnboard, Insert, Regular, Unfilled
<1> QED BY <1>1

LEMMA DocumentsRegular == \A k \in 1 .. 20 : Regular(Documents[k], 105 + k)
<1>1. Documents[1] = CompanyDocument /\ Regular(Documents[1], 105 + 1)
  BY DEF Documents, CompanyDocument, Insert, Regular, Unfilled
<1>2. Documents[2] = EmployeeDocument /\ Regular(Documents[2], 105 + 2)
  BY DEF Documents, EmployeeDocument, Insert, Regular, Unfilled
<1>3. Documents[3] = AnnouncementDocument /\ Regular(Documents[3], 105 + 3)
  BY DEF Documents, AnnouncementDocument, Insert, Regular, Unfilled
<1>4. Documents[4] = BenefitPlanDocument /\ Regular(Documents[4], 105 + 4)
  BY DEF Documents, BenefitPlanDocument, Insert, Regular, Unfilled
<1>5. Documents[5] = EmployeeI9Document /\ Regular(Documents[5], 105 + 5)
  BY DEF Documents, EmployeeI9Document, Insert, Regular, Unfilled
<1>6. Documents[6] = EmployeeBCDocument /\ Regular(Documents[6], 105 + 6)
  BY DEF Documents, EmployeeBCDocument, Insert, Regular, Unfilled
<1>7. Documents[7] = EmployeeEsignCompanyDocument /\ Regular(Documents[7], 105 + 7)
  BY DEF Documents, EmployeeEsignCompanyDocument, Insert, Regular, Unfilled
<1>8. Documents[8] = EmployeePhotoDocument /\ Regular(Documents[8], 105 + 8)
  BY DEF Documents, EmployeePhotoDocument, Insert, Regular, Unfilled
<1>9. Documents[9] = EmployeeW4 /\ Regular(Documents[9], 105 + 9)
  BY DEF Documents, EmployeeW4, Insert, Regular, Unfilled
<1>10. Documents[10] = EmployeeAbsenceDocument /\ Regular(Documents[10], 105 + 10)
  BY DEF Documents, EmployeeAbsenceDocument, Insert, Regular, Unfilled
<1>11. Documents[11] = EmployeeAchievementDocument /\ Regular(Documents[11], 105 + 11)
  BY DEF Documents, EmployeeAchievementDocument, Insert, Regular, Unfilled
<1>12. Documents[12] = EmployeeBenefitDocument /\ Regular(Documents[12], 105 + 12)
  BY DEF Documents, EmployeeBenefitDocument, Insert, Regular, Unfilled
<1>13. Documents[13] = EmployeeCertificateDocument /\ Regular(Documents[13], 105 + 13)
  BY DEF Documents, EmployeeCertificateDocument, Insert, Regular, Unfilled
<1>14. Documents[14] = EmployeeEnrolledClassDocument /\ Regular(Documents[14], 105 + 14)
  BY DEF Documents, EmployeeEnrolledClassDocument, Insert, Regular, Unfilled
<1>15. Documents[15] = EmployeeLicenseDocument /\ Regular(Documents[15], 105 + 15)
  BY DEF Documents, EmployeeLicenseDocument, Insert, Regular, Unfilled
<1>16. Documents[16] = EmployeeOnboardDocument /\ Regular(Documents[16], 105 + 16)
  BY DEF Documents, EmployeeOnboardDocument, Insert, Regular, Unfilled
<1>17. Documents[17] = EmployeeReviewDocument /\ Regular(Documents[17], 105 + 17)
  BY DEF Documents, EmployeeReviewDocument, Insert, Regular, Unfilled
<1>18. Documents[18] = EmployeeSkillDocument /\ Regular(Documents[18], 105 + 18)
  BY DEF Documents, EmployeeSkillDocument, Insert, Regular, Unfilled
<1>19. Documents[19] = CompanyLogoDocument /\ Regular(Documents[19], 105 + 19)
  BY DEF Documents, CompanyLogoDocument, Insert, Regular, Unfilled
<1>20. Documents[20] = ApplicantDocument /\ Regular(Documents[20], 105 + 20)
  BY DEF Documents, ApplicantDocument, Insert, Regular, Unfilled
<1> QED BY <1>1, <1>2, <1>3, <1>4, <1>5, <1>6, <1>7, <1>8, <1>9, <1>10, <1>11, <1>12,
     <1>13, <1>14, <1>15, <1>16, <1>17, <1>18, <1>19, <1>20

LEMMA ScriptRegular == \A p \in Positions : Regular(Script[p].do, p)
<1> SUFFICES ASSUME NEW p \in 1 .. 126
             PROVE  Regular(Script[p].do, p)
  BY Places DEF Positions
<1>1. CASE p \in 1 .. 26
  BY <1>1, Places, WrapperRegular
<1>2. CASE p = 27
  BY <1>2, Places DEF PositionType, Insert, Regular, Unfilled
<1>3. CASE p \in 28 .. 33
  <2>1. p - 27 \in 1 .. 6 /\ p = 27 + (p - 27)
    BY <1>3
  <2>2. Regular(CompensationDataSet[p - 27], p) /\ Script[p].do = CompensationDataSet[p - 27]
    BY <2>1, Places, CompensationDataSetRegular
  <2> QED BY <2>2
<1>4. CASE p \in 34 .. 50
  <2>1. p - 33 \in 1 .. 17 /\ p = 33 + (p - 33)
    BY <1>4
  <2>2. Regular(Benefits[p - 33], p) /\ Script[p].do = Benefits[p - 33]
    BY <2>1, Places, BenefitsRegular
  <2> QED BY <2>2
<1>5. CASE p \in 51 .. 74
  <2>1. p - 50 \in 1 .. 24 /\ p = 50 + (p - 50)
    BY <1>5
  <2>2. Regular(MultiTableTwoTier[p - 50], p) /\ Script[p].do = MultiTableTwoTier[p - 50]
    BY <2>1, Places, MultiTableTwoTierRegular
  <2> QED BY <2>2
<1>6. CASE p \in 75 .. 94
  <2>1. p - 74 \in 1 .. 20 /\ p = 74 + (p - 74)
    BY <1>6
  <2>2. Regular(SecDataSet[p - 74], p) /\ Script[p].do = SecDataSet[p - 74]
    BY <2>1, Places, SecDataSetRegular
  <2> QED BY <2>2
<1>7. CASE p = 95
  BY <1>7, Places DEF AlertRecipients, Update, Regular, Unfilled
<1>8. CASE p = 96
  BY <1>8, Places DEF QRWSavedReport, Insert, Regular, Unfilled
<1>9. CASE p \in 97 .. 104
  <2>1. p - 96 \in 1 .. 8 /\ p = 96 + (p - 96)
    BY <1>9
  <2>2. Regular(ApplTrack[p - 96], p) /\ Script[p].do = ApplTrack[p - 96]
    BY <2>1, Places, ApplTrackRegular
  <2> QED BY <2>2
<1>10. CASE p \in 105 .. 105
  <2>1. p - 104 \in 1 .. 1 /\ p = 104 + (p - 104)
    BY <1>10
  <2>2. Regular(OnboardDataSet[p - 104], p) /\ Script[p].do = OnboardDataSet[p - 104]
    BY <2>1, Places, OnboardDataSetRegular
  <2> QED BY <2>2
<1>11. CASE p \in 106 .. 125
  <2>1. p - 105 \in 1 .. 20 /\ p = 105 + (p - 105)
    BY <1>11
  <2>2. Regular(Documents[p - 105], p) /\ Script[p].do = Documents[p - 105]
    BY <2>1, Places, DocumentsRegular
  <2> QED BY <2>2
<1>12. CASE p = 126
  BY <1>12, Places DEF CompanyDefaults, Update, Regular, Unfilled
<1> QED BY <1>1, <1>2, <1>3, <1>4, <1>5, <1>6, <1>7, <1>8, <1>9, <1>10, <1>11, <1>12

\* Nothing deletes the rows of a table after they were copied.
LEMMA StaysCopied ==
    ASSUME NEW q \in Positions, NEW table, Script[q].do.table = table,
           Script[q].do.kind \in {"insert", "keyed", "missing"},
           \A d \in Deletes : d[2] = table => d[1] < q
    PROVE  CopiedBy(table, q)
<1> SUFFICES ASSUME NEW p \in Positions, q < p
             PROVE  HoldsRows(p, table)
  BY DEF CopiedBy
<1>1. q \in 1 .. p - 1
  BY Places DEF Positions
<1>2. ASSUME NEW r \in q + 1 .. p - 1, Script[r].do.table = table, Script[r].do.kind = "delete"
      PROVE  FALSE
  <2>1. r \in Positions /\ q < r
    BY PositionsAre
  <2>2. <<r, table>> \in Deletes
    BY <1>2, <2>1, ScriptRegular DEF Regular
  <2>3. r < q
    BY <2>2
  <2> QED BY <2>1, <2>3, PositionsAre
<1> QED BY <1>1, <1>2 DEF HoldsRows

LEMMA FindsIf ==
    ASSUME NEW p \in Positions,
           \A t \in Script[p].do.refs : t \in Unfilled \/ HoldsRows(p, t) \/ PayrollRows(p, t)
    PROVE  p \in FindsRows
<1>1. ASSUME NEW t \in Filled
      PROVE  t \notin Unfilled
  BY ScriptRegular DEF Filled, Regular
<1> QED BY <1>1 DEF FindsRows

LEMMA WrapperCopies ==
    /\ CopiedBy("ATApplicationVersion", 1)
    /\ CopiedBy("ATQuestionBank", 2)
    /\ CopiedBy("ATSoftStatusType", 3)
    /\ CopiedBy("Announcement", 4)
    /\ CopiedBy("PayGradeType", 5)
    /\ CopiedBy("PayGroupType", 6)
    /\ CopiedBy("PositionOrganizationChangeReason", 7)
    /\ CopiedBy("OBQuestionBank", 8)
    /\ CopiedBy("OnboardingTaskList", 9)
    /\ CopiedBy("BenefitCarrier", 10)
    /\ CopiedBy("BenefitClass", 11)
    /\ CopiedBy("BenefitGeneralAgent", 12)
    /\ CopiedBy("BenefitCoverageStartType", 13)
    /\ CopiedBy("OpenEnrollment", 14)
    /\ CopiedBy("SkillType", 18)
    /\ CopiedBy("ReviewType", 19)
    /\ CopiedBy("LicenseType", 20)
    /\ CopiedBy("AchievementType", 21)
    /\ CopiedBy("CertificateType", 22)
    /\ CopiedBy("CompensationChangeReason", 23)
    /\ CopiedBy("HRnextClass", 24)
    /\ CopiedBy("Alert", 26)
<1>1. CopiedBy("ATApplicationVersion", 1)
  <2>1. 1 \in Positions /\ Script[1].do = Insert("ATApplicationVersion", {})
    BY Places, WrapperPlaces DEF CompanyTables, Positions
  <2> QED BY <2>1, StaysCopied DEF Insert, Deletes
<1>2. CopiedBy("ATQuestionBank", 2)
  <2>1. 2 \in Positions /\ Script[2].do = Insert("ATQuestionBank", {})
    BY Places, WrapperPlaces DEF CompanyTables, Positions
  <2> QED BY <2>1, StaysCopied DEF Insert, Deletes
<1>3. CopiedBy("ATSoftStatusType", 3)
  <2>1. 3 \in Positions /\ Script[3].do = Insert("ATSoftStatusType", {})
    BY Places, WrapperPlaces DEF CompanyTables, Positions
  <2> QED BY <2>1, StaysCopied DEF Insert, Deletes
<1>4. CopiedBy("Announcement", 4)
  <2>1. 4 \in Positions /\ Script[4].do = Insert("Announcement", {})
    BY Places, WrapperPlaces DEF CompanyTables, Positions
  <2> QED BY <2>1, StaysCopied DEF Insert, Deletes
<1>5. CopiedBy("PayGradeType", 5)
  <2>1. 5 \in Positions /\ Script[5].do = Insert("PayGradeType", {})
    BY Places, WrapperPlaces DEF CompanyTables, Positions
  <2> QED BY <2>1, StaysCopied DEF Insert, Deletes
<1>6. CopiedBy("PayGroupType", 6)
  <2>1. 6 \in Positions /\ Script[6].do = Insert("PayGroupType", {})
    BY Places, WrapperPlaces DEF CompanyTables, Positions
  <2> QED BY <2>1, StaysCopied DEF Insert, Deletes
<1>7. CopiedBy("PositionOrganizationChangeReason", 7)
  <2>1. 7 \in Positions /\ Script[7].do = Insert("PositionOrganizationChangeReason", {})
    BY Places, WrapperPlaces DEF CompanyTables, Positions
  <2> QED BY <2>1, StaysCopied DEF Insert, Deletes
<1>8. CopiedBy("OBQuestionBank", 8)
  <2>1. 8 \in Positions /\ Script[8].do = Insert("OBQuestionBank", {})
    BY Places, WrapperPlaces DEF CompanyTables, Positions
  <2> QED BY <2>1, StaysCopied DEF Insert, Deletes
<1>9. CopiedBy("OnboardingTaskList", 9)
  <2>1. 9 \in Positions /\ Script[9].do = Insert("OnboardingTaskList", {})
    BY Places, WrapperPlaces DEF CompanyTables, Positions
  <2> QED BY <2>1, StaysCopied DEF Insert, Deletes
<1>10. CopiedBy("BenefitCarrier", 10)
  <2>1. 10 \in Positions /\ Script[10].do = Insert("BenefitCarrier", {})
    BY Places, WrapperPlaces DEF CompanyTables, Positions
  <2> QED BY <2>1, StaysCopied DEF Insert, Deletes
<1>11. CopiedBy("BenefitClass", 11)
  <2>1. 11 \in Positions /\ Script[11].do = Insert("BenefitClass", {})
    BY Places, WrapperPlaces DEF CompanyTables, Positions
  <2> QED BY <2>1, StaysCopied DEF Insert, Deletes
<1>12. CopiedBy("BenefitGeneralAgent", 12)
  <2>1. 12 \in Positions /\ Script[12].do = Insert("BenefitGeneralAgent", {})
    BY Places, WrapperPlaces DEF CompanyTables, Positions
  <2> QED BY <2>1, StaysCopied DEF Insert, Deletes
<1>13. CopiedBy("BenefitCoverageStartType", 13)
  <2>1. 13 \in Positions /\ Script[13].do = Insert("BenefitCoverageStartType", {})
    BY Places, WrapperPlaces DEF CompanyTables, Positions
  <2> QED BY <2>1, StaysCopied DEF Insert, Deletes
<1>14. CopiedBy("OpenEnrollment", 14)
  <2>1. 14 \in Positions /\ Script[14].do = Insert("OpenEnrollment", {})
    BY Places, WrapperPlaces DEF CompanyTables, Positions
  <2> QED BY <2>1, StaysCopied DEF Insert, Deletes
<1>15. CopiedBy("SkillType", 18)
  <2>1. 18 \in Positions /\ Script[18].do = Insert("SkillType", {})
    BY Places, WrapperPlaces DEF CompanyTables, Positions
  <2> QED BY <2>1, StaysCopied DEF Insert, Deletes
<1>16. CopiedBy("ReviewType", 19)
  <2>1. 19 \in Positions /\ Script[19].do = Insert("ReviewType", {})
    BY Places, WrapperPlaces DEF CompanyTables, Positions
  <2> QED BY <2>1, StaysCopied DEF Insert, Deletes
<1>17. CopiedBy("LicenseType", 20)
  <2>1. 20 \in Positions /\ Script[20].do = Insert("LicenseType", {})
    BY Places, WrapperPlaces DEF CompanyTables, Positions
  <2> QED BY <2>1, StaysCopied DEF Insert, Deletes
<1>18. CopiedBy("AchievementType", 21)
  <2>1. 21 \in Positions /\ Script[21].do = Insert("AchievementType", {})
    BY Places, WrapperPlaces DEF CompanyTables, Positions
  <2> QED BY <2>1, StaysCopied DEF Insert, Deletes
<1>19. CopiedBy("CertificateType", 22)
  <2>1. 22 \in Positions /\ Script[22].do = Insert("CertificateType", {})
    BY Places, WrapperPlaces DEF CompanyTables, Positions
  <2> QED BY <2>1, StaysCopied DEF Insert, Deletes
<1>20. CopiedBy("CompensationChangeReason", 23)
  <2>1. 23 \in Positions /\ Script[23].do = Insert("CompensationChangeReason", {})
    BY Places, WrapperPlaces DEF CompanyTables, Positions
  <2> QED BY <2>1, StaysCopied DEF Insert, Deletes
<1>21. CopiedBy("HRnextClass", 24)
  <2>1. 24 \in Positions /\ Script[24].do = Insert("HRnextClass", {})
    BY Places, WrapperPlaces DEF CompanyTables, Positions
  <2> QED BY <2>1, StaysCopied DEF Insert, Deletes
<1>22. CopiedBy("Alert", 26)
  <2>1. 26 \in Positions /\ Script[26].do = Insert("Alert", {})
    BY Places, WrapperPlaces DEF CompanyTables, Positions
  <2> QED BY <2>1, StaysCopied DEF Insert, Deletes
<1> QED BY <1>1, <1>2, <1>3, <1>4, <1>5, <1>6, <1>7, <1>8, <1>9, <1>10, <1>11, <1>12,
     <1>13, <1>14, <1>15, <1>16, <1>17, <1>18, <1>19, <1>20, <1>21, <1>22

LEMMA PositionTypeCopies ==
    /\ CopiedBy("PositionType", 27)
<1>1. CopiedBy("PositionType", 27)
  <2>1. 27 \in Positions /\ Script[27].do = PositionType
    BY Places DEF Positions
  <2> QED BY <2>1, StaysCopied DEF PositionType, Insert, Deletes
<1> QED BY <1>1

LEMMA CompensationDataSetCopies ==
    /\ CopiedBy("EmployeeAbsence", 32)
<1>1. CopiedBy("EmployeeAbsence", 32)
  <2>1. 32 \in Positions /\ Script[32].do = EmployeeAbsence
    <3>1. Script[27 + 5].do = CompensationDataSet[5]
      BY Places
    <3> QED BY <3>1, Places DEF CompensationDataSet, Positions
  <2> QED BY <2>1, StaysCopied DEF EmployeeAbsence, Insert, Deletes
<1> QED BY <1>1

LEMMA BenefitsCopies ==
    /\ CopiedBy("BenefitPlan", 34)
    /\ CopiedBy("OpenEnrollmentEmployeeElection", 41)
    /\ CopiedBy("EmployeeBenefit", 42)
    /\ CopiedBy("EmployeeBeneficiary", 43)
    /\ CopiedBy("EmployeeDependent", 44)
<1>1. CopiedBy("BenefitPlan", 34)
  <2>1. 34 \in Positions /\ Script[34].do = BenefitPlan
    <3>1. Script[33 + 1].do = Benefits[1]
      BY Places
    <3> QED BY <3>1, Places DEF Benefits, Positions
  <2> QED BY <2>1, StaysCopied DEF BenefitPlan, Insert, Deletes
<1>2. CopiedBy("OpenEnrollmentEmployeeElection", 41)
  <2>1. 41 \in Positions /\ Script[41].do = OpenEnrollmentEmployeeElection
    <3>1. Script[33 + 8].do = Benefits[8]
      BY Places
    <3> QED BY <3>1, Places DEF Benefits, Positions
  <2> QED BY <2>1, StaysCopied DEF OpenEnrollmentEmployeeElection, Insert, Deletes
<1>3. CopiedBy("EmployeeBenefit", 42)
  <2>1. 42 \in Positions /\ Script[42].do = EmployeeBenefit
    <3>1. Script[33 + 9].do = Benefits[9]
      BY Places
    <3> QED BY <3>1, Places DEF Benefits, Positions
  <2> QED BY <2>1, StaysCopied DEF EmployeeBenefit, Insert, Deletes
<1>4. CopiedBy("EmployeeBeneficiary", 43)
  <2>1. 43 \in Positions /\ Script[43].do = EmployeeBeneficiary
    <3>1. Script[33 + 10].do = Benefits[10]
      BY Places
    <3> QED BY <3>1, Places DEF Benefits, Positions
  <2> QED BY <2>1, StaysCopied DEF EmployeeBeneficiary, Insert, Deletes
<1>5. CopiedBy("EmployeeDependent", 44)
  <2>1. 44 \in Positions /\ Script[44].do = EmployeeDependent
    <3>1. Script[33 + 11].do = Benefits[11]
      BY Places
    <3> QED BY <3>1, Places DEF Benefits, Positions
  <2> QED BY <2>1, StaysCopied DEF EmployeeDependent, Insert, Deletes
<1> QED BY <1>1, <1>2, <1>3, <1>4, <1>5

LEMMA MultiTableTwoTierCopies ==
    /\ CopiedBy("EmployeeReview", 54)
    /\ CopiedBy("EmployeeSkill", 55)
    /\ CopiedBy("EmployeeLicense", 56)
    /\ CopiedBy("EmployeeAchievement", 57)
    /\ CopiedBy("EmployeeCertificate", 58)
    /\ CopiedBy("EmployeeEnrolledClass", 59)
    /\ CopiedBy("EsignatureMetadata", 63)
    /\ CopiedBy("FileMetadata", 64)
    /\ CopiedBy("EmployeePositionOrganization", 68)
<1>1. CopiedBy("EmployeeReview", 54)
  <2>1. 54 \in Positions /\ Script[54].do = EmployeeReview
    <3>1. Script[50 + 4].do = MultiTableTwoTier[4]
      BY Places
    <3> QED BY <3>1, Places DEF MultiTableTwoTier, Positions
  <2> QED BY <2>1, StaysCopied DEF EmployeeReview, Insert, Deletes
<1>2. CopiedBy("EmployeeSkill", 55)
  <2>1. 55 \in Positions /\ Script[55].do = EmployeeSkill
    <3>1. Script[50 + 5].do = MultiTableTwoTier[5]
      BY Places
    <3> QED BY <3>1, Places DEF MultiTableTwoTier, Positions
  <2> QED BY <2>1, StaysCopied DEF EmployeeSkill, Insert, Deletes
<1>3. CopiedBy("EmployeeLicense", 56)
  <2>1. 56 \in Positions /\ Script[56].do = EmployeeLicense
    <3>1. Script[50 + 6].do = MultiTableTwoTier[6]
      BY Places
    <3> QED BY <3>1, Places DEF MultiTableTwoTier, Positions
  <2> QED BY <2>1, StaysCopied DEF EmployeeLicense, Insert, Deletes
<1>4. CopiedBy("EmployeeAchievement", 57)
  <2>1. 57 \in Positions /\ Script[57].do = EmployeeAchievement
    <3>1. Script[50 + 7].do = MultiTableTwoTier[7]
      BY Places
    <3> QED BY <3>1, Places DEF MultiTableTwoTier, Positions
  <2> QED BY <2>1, StaysCopied DEF EmployeeAchievement, Insert, Deletes
<1>5. CopiedBy("EmployeeCertificate", 58)
  <2>1. 58 \in Positions /\ Script[58].do = EmployeeCertificate
    <3>1. Script[50 + 8].do = MultiTableTwoTier[8]
      BY Places
    <3> QED BY <3>1, Places DEF MultiTableTwoTier, Positions
  <2> QED BY <2>1, StaysCopied DEF EmployeeCertificate, Insert, Deletes
<1>6. CopiedBy("EmployeeEnrolledClass", 59)
  <2>1. 59 \in Positions /\ Script[59].do = EmployeeEnrolledClass
    <3>1. Script[50 + 9].do = MultiTableTwoTier[9]
      BY Places
    <3> QED BY <3>1, Places DEF MultiTableTwoTier, Positions
  <2> QED BY <2>1, StaysCopied DEF EmployeeEnrolledClass, Insert, Deletes
<1>7. CopiedBy("EsignatureMetadata", 63)
  <2>1. 63 \in Positions /\ Script[63].do = EsignatureMetadata
    <3>1. Script[50 + 13].do = MultiTableTwoTier[13]
      BY Places
    <3> QED BY <3>1, Places DEF MultiTableTwoTier, Positions
  <2> QED BY <2>1, StaysCopied DEF EsignatureMetadata, InsertKeyed, Deletes
<1>8. CopiedBy("FileMetadata", 64)
  <2>1. 64 \in Positions /\ Script[64].do = FileMetadata
    <3>1. Script[50 + 14].do = MultiTableTwoTier[14]
      BY Places
    <3> QED BY <3>1, Places DEF MultiTableTwoTier, Positions
  <2> QED BY <2>1, StaysCopied DEF FileMetadata, Insert, Deletes
<1>9. CopiedBy("EmployeePositionOrganization", 68)
  <2>1. 68 \in Positions /\ Script[68].do = EmployeePositionOrganization
    <3>1. Script[50 + 18].do = MultiTableTwoTier[18]
      BY Places
    <3> QED BY <3>1, Places DEF MultiTableTwoTier, Positions
  <2> QED BY <2>1, StaysCopied DEF EmployeePositionOrganization, Insert, Deletes
<1> QED BY <1>1, <1>2, <1>3, <1>4, <1>5, <1>6, <1>7, <1>8, <1>9

LEMMA SecDataSetCopies ==
    /\ CopiedBy("HRnextUser", 75)
    /\ CopiedBy("HRnextAudit", 78)
    /\ CopiedBy("SecEmployeeRecordFilter", 80)
    /\ CopiedBy("SecRole", 86)
    /\ CopiedBy("SecPermission", 87)
    /\ CopiedBy("SecPermissionRole", 89)
<1>1. CopiedBy("HRnextUser", 75)
  <2>1. 75 \in Positions /\ Script[75].do = HRnextUser
    <3>1. Script[74 + 1].do = SecDataSet[1]
      BY Places
    <3> QED BY <3>1, Places DEF SecDataSet, Positions
  <2> QED BY <2>1, StaysCopied DEF HRnextUser, InsertMissing, Deletes
<1>2. CopiedBy("HRnextAudit", 78)
  <2>1. 78 \in Positions /\ Script[78].do = HRnextAudit
    <3>1. Script[74 + 4].do = SecDataSet[4]
      BY Places
    <3> QED BY <3>1, Places DEF SecDataSet, Positions
  <2> QED BY <2>1, StaysCopied DEF HRnextAudit, Insert, Deletes
<1>3. CopiedBy("SecEmployeeRecordFilter", 80)
  <2>1. 80 \in Positions /\ Script[80].do = SecEmployeeRecordFilter
    <3>1. Script[74 + 6].do = SecDataSet[6]
      BY Places
    <3> QED BY <3>1, Places DEF SecDataSet, Positions
  <2> QED BY <2>1, StaysCopied DEF SecEmployeeRecordFilter, Insert, Deletes
<1>4. CopiedBy("SecRole", 86)
  <2>1. 86 \in Positions /\ Script[86].do = SecRole
    <3>1. Script[74 + 12].do = SecDataSet[12]
      BY Places
    <3> QED BY <3>1, Places DEF SecDataSet, Positions
  <2> QED BY <2>1, StaysCopied DEF SecRole, Insert, Deletes
<1>5. CopiedBy("SecPermission", 87)
  <2>1. 87 \in Positions /\ Script[87].do = SecPermission
    <3>1. Script[74 + 13].do = SecDataSet[13]
      BY Places
    <3> QED BY <3>1, Places DEF SecDataSet, Positions
  <2> QED BY <2>1, StaysCopied DEF SecPermission, Insert, Deletes
<1>6. CopiedBy("SecPermissionRole", 89)
  <2>1. 89 \in Positions /\ Script[89].do = SecPermissionRole
    <3>1. Script[74 + 15].do = SecDataSet[15]
      BY Places
    <3> QED BY <3>1, Places DEF SecDataSet, Positions
  <2> QED BY <2>1, StaysCopied DEF SecPermissionRole, Insert, Deletes
<1> QED BY <1>1, <1>2, <1>3, <1>4, <1>5, <1>6

LEMMA ApplTrackCopies ==
    /\ CopiedBy("ATJobPosting", 97)
    /\ CopiedBy("ATApplication", 98)
<1>1. CopiedBy("ATJobPosting", 97)
  <2>1. 97 \in Positions /\ Script[97].do = ATJobPosting
    <3>1. Script[96 + 1].do = ApplTrack[1]
      BY Places
    <3> QED BY <3>1, Places DEF ApplTrack, Positions
  <2> QED BY <2>1, StaysCopied DEF ATJobPosting, Insert, Deletes
<1>2. CopiedBy("ATApplication", 98)
  <2>1. 98 \in Positions /\ Script[98].do = ATApplication
    <3>1. Script[96 + 2].do = ApplTrack[2]
      BY Places
    <3> QED BY <3>1, Places DEF ApplTrack, Positions
  <2> QED BY <2>1, StaysCopied DEF ATApplication, Insert, Deletes
<1> QED BY <1>1, <1>2

LEMMA OnboardDataSetCopies ==
    /\ CopiedBy("EmployeeOnboard", 105)
<1>1. CopiedBy("EmployeeOnboard", 105)
  <2>1. 105 \in Positions /\ Script[105].do = EmployeeOnboard
    <3>1. Script[104 + 1].do = OnboardDataSet[1]
      BY Places
    <3> QED BY <3>1, Places DEF OnboardDataSet, Positions
  <2> QED BY <2>1, StaysCopied DEF EmployeeOnboard, Insert, Deletes
<1> QED BY <1>1

LEMMA DocumentsCopies ==
    /\ CopiedBy("Document", 106)
<1>1. CopiedBy("Document", 106)
  <2>1. 106 \in Positions /\ Script[106].do = CompanyDocument
    <3>1. Script[105 + 1].do = Documents[1]
      BY Places
    <3> QED BY <3>1, Places DEF Documents, Positions
  <2> QED BY <2>1, StaysCopied DEF CompanyDocument, Insert, Deletes
<1> QED BY <1>1

LEMMA WrapperFinds == \A p \in 1 .. 26 : p \in FindsRows
<1> SUFFICES ASSUME NEW p \in 1 .. 26
             PROVE  p \in FindsRows
  OBVIOUS
<1>1. p \in Positions /\ Script[p].do = CompanyWrapper[p]
  BY Places DEF Positions
<1>2. CompanyWrapper[p].refs = {}
  <2>1. CASE p \in 1 .. 24
    BY <2>1, WrapperPlaces DEF Insert
  <2>2. CASE p \in {25, 26}
    BY <2>2, WrapperPlaces DEF Insert, Delete
  <2> QED BY <2>1, <2>2
<1> QED BY <1>1, <1>2, FindsIf

LEMMA PositionTypeFinds == 27 \in FindsRows
<1>1. 27 \in Positions /\ Script[27].do = PositionType
  BY Places DEF Positions
<1>2. HoldsRows(27, "PayGradeType")
  BY <1>1, WrapperCopies DEF CopiedBy
<1> QED BY <1>1, <1>2, FindsIf DEF PositionType, Insert, Unfilled

LEMMA CompensationDataSetFinds == \A p \in 28 .. 33 : p \in FindsRows
<1>1. 28 \in FindsRows
  <2>1. 28 \in Positions /\ Script[28].do = I9Fields
    <3>1. Script[27 + 1].do = CompensationDataSet[1]
      BY Places
    <3> QED BY <3>1, Places DEF CompensationDataSet, Positions
  <2> QED BY <2>1, FindsIf DEF I9Fields, Update, Unfilled
<1>2. 29 \in FindsRows
  <2>1. 29 \in Positions /\ Script[29].do = PayrollCompensation
    <3>1. Script[27 + 2].do = CompensationDataSet[2]
      BY Places
    <3> QED BY <3>1, Places DEF CompensationDataSet, Positions
  <2> QED BY <2>1, FindsIf DEF PayrollCompensation, Delete
<1>3. 30 \in FindsRows
  <2>1. 30 \in Positions /\ Script[30].do = EmployeeCompensation
    <3>1. Script[27 + 3].do = CompensationDataSet[3]
      BY Places
    <3> QED BY <3>1, Places DEF CompensationDataSet, Positions
  <2>2. HoldsRows(30, "CompensationChangeReason")
    BY <2>1, WrapperCopies DEF CopiedBy
  <2> QED BY <2>1, <2>2, FindsIf DEF EmployeeCompensation, Insert, Unfilled
<1>4. 31 \in FindsRows
  <2>1. 31 \in Positions /\ Script[31].do = TimeClockFields
    <3>1. Script[27 + 4].do = CompensationDataSet[4]
      BY Places
    <3> QED BY <3>1, Places DEF CompensationDataSet, Positions
  <2> QED BY <2>1, FindsIf DEF TimeClockFields, Update, Unfilled
<1>5. 32 \in FindsRows
  <2>1. 32 \in Positions /\ Script[32].do = EmployeeAbsence
    <3>1. Script[27 + 5].do = CompensationDataSet[5]
      BY Places
    <3> QED BY <3>1, Places DEF CompensationDataSet, Positions
  <2> QED BY <2>1, FindsIf DEF EmployeeAbsence, Insert, Unfilled
<1>6. 33 \in FindsRows
  <2>1. 33 \in Positions /\ Script[33].do = EmployeeAbsenceDetail
    <3>1. Script[27 + 6].do = CompensationDataSet[6]
      BY Places
    <3> QED BY <3>1, Places DEF CompensationDataSet, Positions
  <2>2. HoldsRows(33, "EmployeeAbsence")
    BY <2>1, CompensationDataSetCopies DEF CopiedBy
  <2> QED BY <2>1, <2>2, FindsIf DEF EmployeeAbsenceDetail, Insert, Unfilled
<1> QED BY <1>1, <1>2, <1>3, <1>4, <1>5, <1>6

LEMMA BenefitsFinds == \A p \in 34 .. 50 : p \in FindsRows
<1>1. 34 \in FindsRows
  <2>1. 34 \in Positions /\ Script[34].do = BenefitPlan
    <3>1. Script[33 + 1].do = Benefits[1]
      BY Places
    <3> QED BY <3>1, Places DEF Benefits, Positions
  <2>2. /\ HoldsRows(34, "BenefitCarrier")
        /\ HoldsRows(34, "BenefitCoverageStartType")
        /\ HoldsRows(34, "BenefitGeneralAgent")
    BY <2>1, WrapperCopies DEF CopiedBy
  <2> QED BY <2>1, <2>2, FindsIf DEF BenefitPlan, Insert, Unfilled
<1>2. 35 \in FindsRows
  <2>1. 35 \in Positions /\ Script[35].do = RelatedPlan
    <3>1. Script[33 + 2].do = Benefits[2]
      BY Places
    <3> QED BY <3>1, Places DEF Benefits, Positions
  <2>2. HoldsRows(35, "BenefitPlan")
    BY <2>1, BenefitsCopies DEF CopiedBy
  <2> QED BY <2>1, <2>2, FindsIf DEF RelatedPlan, Update
<1>3. 36 \in FindsRows
  <2>1. 36 \in Positions /\ Script[36].do = BenefitPlanAgeBand
    <3>1. Script[33 + 3].do = Benefits[3]
      BY Places
    <3> QED BY <3>1, Places DEF Benefits, Positions
  <2>2. HoldsRows(36, "BenefitPlan")
    BY <2>1, BenefitsCopies DEF CopiedBy
  <2> QED BY <2>1, <2>2, FindsIf DEF BenefitPlanAgeBand, Insert
<1>4. 37 \in FindsRows
  <2>1. 37 \in Positions /\ Script[37].do = BenefitPlanRate
    <3>1. Script[33 + 4].do = Benefits[4]
      BY Places
    <3> QED BY <3>1, Places DEF Benefits, Positions
  <2>2. HoldsRows(37, "BenefitPlan")
    BY <2>1, BenefitsCopies DEF CopiedBy
  <2> QED BY <2>1, <2>2, FindsIf DEF BenefitPlanRate, Insert, Unfilled
<1>5. 38 \in FindsRows
  <2>1. 38 \in Positions /\ Script[38].do = BenefitPlanFrequencyOverride
    <3>1. Script[33 + 5].do = Benefits[5]
      BY Places
    <3> QED BY <3>1, Places DEF Benefits, Positions
  <2>2. HoldsRows(38, "BenefitPlan")
    BY <2>1, BenefitsCopies DEF CopiedBy
  <2> QED BY <2>1, <2>2, FindsIf DEF BenefitPlanFrequencyOverride, Insert
<1>6. 39 \in FindsRows
  <2>1. 39 \in Positions /\ Script[39].do = BenefitPlanClass
    <3>1. Script[33 + 6].do = Benefits[6]
      BY Places
    <3> QED BY <3>1, Places DEF Benefits, Positions
  <2>2. HoldsRows(39, "BenefitClass") /\ HoldsRows(39, "BenefitPlan")
    BY <2>1, BenefitsCopies, WrapperCopies DEF CopiedBy
  <2> QED BY <2>1, <2>2, FindsIf DEF BenefitPlanClass, Insert
<1>7. 40 \in FindsRows
  <2>1. 40 \in Positions /\ Script[40].do = BenefitPlanTieredCoverageAmount
    <3>1. Script[33 + 7].do = Benefits[7]
      BY Places
    <3> QED BY <3>1, Places DEF Benefits, Positions
  <2>2. HoldsRows(40, "BenefitPlan")
    BY <2>1, BenefitsCopies DEF CopiedBy
  <2> QED BY <2>1, <2>2, FindsIf DEF BenefitPlanTieredCoverageAmount, Insert
<1>8. 41 \in FindsRows
  <2>1. 41 \in Positions /\ Script[41].do = OpenEnrollmentEmployeeElection
    <3>1. Script[33 + 8].do = Benefits[8]
      BY Places
    <3> QED BY <3>1, Places DEF Benefits, Positions
  <2>2. HoldsRows(41, "BenefitPlan") /\ HoldsRows(41, "OpenEnrollment")
    BY <2>1, BenefitsCopies, WrapperCopies DEF CopiedBy
  <2> QED BY <2>1, <2>2, FindsIf DEF OpenEnrollmentEmployeeElection, Insert, Unfilled
<1>9. 42 \in FindsRows
  <2>1. 42 \in Positions /\ Script[42].do = EmployeeBenefit
    <3>1. Script[33 + 9].do = Benefits[9]
      BY Places
    <3> QED BY <3>1, Places DEF Benefits, Positions
  <2>2. HoldsRows(42, "BenefitPlan")
    BY <2>1, BenefitsCopies DEF CopiedBy
  <2> QED BY <2>1, <2>2, FindsIf DEF EmployeeBenefit, Insert, Unfilled
<1>10. 43 \in FindsRows
  <2>1. 43 \in Positions /\ Script[43].do = EmployeeBeneficiary
    <3>1. Script[33 + 10].do = Benefits[10]
      BY Places
    <3> QED BY <3>1, Places DEF Benefits, Positions
  <2> QED BY <2>1, FindsIf DEF EmployeeBeneficiary, Insert, Unfilled
<1>11. 44 \in FindsRows
  <2>1. 44 \in Positions /\ Script[44].do = EmployeeDependent
    <3>1. Script[33 + 11].do = Benefits[11]
      BY Places
    <3> QED BY <3>1, Places DEF Benefits, Positions
  <2> QED BY <2>1, FindsIf DEF EmployeeDependent, Insert, Unfilled
<1>12. 45 \in FindsRows
  <2>1. 45 \in Positions /\ Script[45].do = OpenEnrollmentBenefitPlan
    <3>1. Script[33 + 12].do = Benefits[12]
      BY Places
    <3> QED BY <3>1, Places DEF Benefits, Positions
  <2>2. HoldsRows(45, "BenefitPlan") /\ HoldsRows(45, "OpenEnrollment")
    BY <2>1, BenefitsCopies, WrapperCopies DEF CopiedBy
  <2> QED BY <2>1, <2>2, FindsIf DEF OpenEnrollmentBenefitPlan, Insert
<1>13. 46 \in FindsRows
  <2>1. 46 \in Positions /\ Script[46].do = OpenEnrollmentElectionCoveredBeneficiary
    <3>1. Script[33 + 13].do = Benefits[13]
      BY Places
    <3> QED BY <3>1, Places DEF Benefits, Positions
  <2>2. /\ HoldsRows(46, "EmployeeBeneficiary")
        /\ HoldsRows(46, "OpenEnrollment")
        /\ HoldsRows(46, "OpenEnrollmentEmployeeElection")
    BY <2>1, BenefitsCopies, WrapperCopies DEF CopiedBy
  <2> QED BY <2>1, <2>2, FindsIf DEF OpenEnrollmentElectionCoveredBeneficiary, Insert,
       Unfilled
<1>14. 47 \in FindsRows
  <2>1. 47 \in Positions /\ Script[47].do = OpenEnrollmentElectionCoveredDependent
    <3>1. Script[33 + 14].do = Benefits[14]
      BY Places
    <3> QED BY <3>1, Places DEF Benefits, Positions
  <2>2. /\ HoldsRows(47, "EmployeeDependent")
        /\ HoldsRows(47, "OpenEnrollment")
        /\ HoldsRows(47, "OpenEnrollmentEmployeeElection")
    BY <2>1, BenefitsCopies, WrapperCopies DEF CopiedBy
  <2> QED BY <2>1, <2>2, FindsIf DEF OpenEnrollmentElectionCoveredDependent, Insert,
       Unfilled
<1>15. 48 \in FindsRows
  <2>1. 48 \in Positions /\ Script[48].do = OpenEnrollmentEmployee
    <3>1. Script[33 + 15].do = Benefits[15]
      BY Places
    <3> QED BY <3>1, Places DEF Benefits, Positions
  <2>2. HoldsRows(48, "OpenEnrollment")
    BY <2>1, WrapperCopies DEF CopiedBy
  <2> QED BY <2>1, <2>2, FindsIf DEF OpenEnrollmentEmployee, Insert, Unfilled
<1>16. 49 \in FindsRows
  <2>1. 49 \in Positions /\ Script[49].do = CoveredDependent
    <3>1. Script[33 + 16].do = Benefits[16]
      BY Places
    <3> QED BY <3>1, Places DEF Benefits, Positions
  <2>2. /\ HoldsRows(49, "BenefitPlan")
        /\ HoldsRows(49, "EmployeeBenefit")
        /\ HoldsRows(49, "EmployeeDependent")
    BY <2>1, BenefitsCopies DEF CopiedBy
  <2> QED BY <2>1, <2>2, FindsIf DEF CoveredDependent, Insert, Unfilled
<1>17. 50 \in FindsRows
  <2>1. 50 \in Positions /\ Script[50].do = CoveredBeneficiary
    <3>1. Script[33 + 17].do = Benefits[17]
      BY Places
    <3> QED BY <3>1, Places DEF Benefits, Positions
  <2>2. /\ HoldsRows(50, "BenefitPlan")
        /\ HoldsRows(50, "EmployeeBeneficiary")
        /\ HoldsRows(50, "EmployeeBenefit")
    BY <2>1, BenefitsCopies DEF CopiedBy
  <2> QED BY <2>1, <2>2, FindsIf DEF CoveredBeneficiary, Insert, Unfilled
<1> QED BY <1>1, <1>2, <1>3, <1>4, <1>5, <1>6, <1>7, <1>8, <1>9, <1>10, <1>11, <1>12,
     <1>13, <1>14, <1>15, <1>16, <1>17

LEMMA MultiTableTwoTierFinds == \A p \in 51 .. 74 : p \in FindsRows
<1>1. 51 \in FindsRows
  <2>1. 51 \in Positions /\ Script[51].do = EmployeeEmergencyContact
    <3>1. Script[50 + 1].do = MultiTableTwoTier[1]
      BY Places
    <3> QED BY <3>1, Places DEF MultiTableTwoTier, Positions
  <2> QED BY <2>1, FindsIf DEF EmployeeEmergencyContact, Insert, Unfilled
<1>2. 52 \in FindsRows
  <2>1. 52 \in Positions /\ Script[52].do = EmployeeNote
    <3>1. Script[50 + 2].do = MultiTableTwoTier[2]
      BY Places
    <3> QED BY <3>1, Places DEF MultiTableTwoTier, Positions
  <2> QED BY <2>1, FindsIf DEF EmployeeNote, Insert, Unfilled
<1>3. 53 \in FindsRows
  <2>1. 53 \in Positions /\ Script[53].do = EmployeeEducationLevel
    <3>1. Script[50 + 3].do = MultiTableTwoTier[3]
      BY Places
    <3> QED BY <3>1, Places DEF MultiTableTwoTier, Positions
  <2> QED BY <2>1, FindsIf DEF EmployeeEducationLevel, Insert, Unfilled
<1>4. 54 \in FindsRows
  <2>1. 54 \in Positions /\ Script[54].do = EmployeeReview
    <3>1. Script[50 + 4].do = MultiTableTwoTier[4]
      BY Places
    <3> QED BY <3>1, Places DEF MultiTableTwoTier, Positions
  <2>2. HoldsRows(54, "ReviewType")
    BY <2>1, WrapperCopies DEF CopiedBy
  <2> QED BY <2>1, <2>2, FindsIf DEF EmployeeReview, Insert, Unfilled
<1>5. 55 \in FindsRows
  <2>1. 55 \in Positions /\ Script[55].do = EmployeeSkill
    <3>1. Script[50 + 5].do = MultiTableTwoTier[5]
      BY Places
    <3> QED BY <3>1, Places DEF MultiTableTwoTier, Positions
  <2>2. HoldsRows(55, "SkillType")
    BY <2>1, WrapperCopies DEF CopiedBy
  <2> QED BY <2>1, <2>2, FindsIf DEF EmployeeSkill, Insert, Unfilled
<1>6. 56 \in FindsRows
  <2>1. 56 \in Positions /\ Script[56].do = EmployeeLicense
    <3>1. Script[50 + 6].do = MultiTableTwoTier[6]
      BY Places
    <3> QED BY <3>1, Places DEF MultiTableTwoTier, Positions
  <2>2. HoldsRows(56, "LicenseType")
    BY <2>1, WrapperCopies DEF CopiedBy
  <2> QED BY <2>1, <2>2, FindsIf DEF EmployeeLicense, Insert, Unfilled
<1>7. 57 \in FindsRows
  <2>1. 57 \in Positions /\ Script[57].do = EmployeeAchievement
    <3>1. Script[50 + 7].do = MultiTableTwoTier[7]
      BY Places
    <3> QED BY <3>1, Places DEF MultiTableTwoTier, Positions
  <2>2. HoldsRows(57, "AchievementType")
    BY <2>1, WrapperCopies DEF CopiedBy
  <2> QED BY <2>1, <2>2, FindsIf DEF EmployeeAchievement, Insert, Unfilled
<1>8. 58 \in FindsRows
  <2>1. 58 \in Positions /\ Script[58].do = EmployeeCertificate
    <3>1. Script[50 + 8].do = MultiTableTwoTier[8]
      BY Places
    <3> QED BY <3>1, Places DEF MultiTableTwoTier, Positions
  <2>2. HoldsRows(58, "CertificateType")
    BY <2>1, WrapperCopies DEF CopiedBy
  <2> QED BY <2>1, <2>2, FindsIf DEF EmployeeCertificate, Insert, Unfilled
<1>9. 59 \in FindsRows
  <2>1. 59 \in Positions /\ Script[59].do = EmployeeEnrolledClass
    <3>1. Script[50 + 9].do = MultiTableTwoTier[9]
      BY Places
    <3> QED BY <3>1, Places DEF MultiTableTwoTier, Positions
  <2>2. HoldsRows(59, "HRnextClass")
    BY <2>1, WrapperCopies DEF CopiedBy
  <2> QED BY <2>1, <2>2, FindsIf DEF EmployeeEnrolledClass, Insert, Unfilled
<1>10. 60 \in FindsRows
  <2>1. 60 \in Positions /\ Script[60].do = OnboardingTaskStep
    <3>1. Script[50 + 10].do = MultiTableTwoTier[10]
      BY Places
    <3> QED BY <3>1, Places DEF MultiTableTwoTier, Positions
  <2>2. HoldsRows(60, "OnboardingTaskList")
    BY <2>1, WrapperCopies DEF CopiedBy
  <2> QED BY <2>1, <2>2, FindsIf DEF OnboardingTaskStep, Insert
<1>11. 61 \in FindsRows
  <2>1. 61 \in Positions /\ Script[61].do = OnboardingTaskListCustomQuestion
    <3>1. Script[50 + 11].do = MultiTableTwoTier[11]
      BY Places
    <3> QED BY <3>1, Places DEF MultiTableTwoTier, Positions
  <2>2. HoldsRows(61, "OBQuestionBank") /\ HoldsRows(61, "OnboardingTaskList")
    BY <2>1, WrapperCopies DEF CopiedBy
  <2> QED BY <2>1, <2>2, FindsIf DEF OnboardingTaskListCustomQuestion, Insert
<1>12. 62 \in FindsRows
  <2>1. 62 \in Positions /\ Script[62].do = OBQuestionBankMultipleChoiceAnswers
    <3>1. Script[50 + 12].do = MultiTableTwoTier[12]
      BY Places
    <3> QED BY <3>1, Places DEF MultiTableTwoTier, Positions
  <2>2. HoldsRows(62, "OBQuestionBank")
    BY <2>1, WrapperCopies DEF CopiedBy
  <2> QED BY <2>1, <2>2, FindsIf DEF OBQuestionBankMultipleChoiceAnswers, Insert
<1>13. 63 \in FindsRows
  <2>1. 63 \in Positions /\ Script[63].do = EsignatureMetadata
    <3>1. Script[50 + 13].do = MultiTableTwoTier[13]
      BY Places
    <3> QED BY <3>1, Places DEF MultiTableTwoTier, Positions
  <2> QED BY <2>1, FindsIf DEF EsignatureMetadata, InsertKeyed
<1>14. 64 \in FindsRows
  <2>1. 64 \in Positions /\ Script[64].do = FileMetadata
    <3>1. Script[50 + 14].do = MultiTableTwoTier[14]
      BY Places
    <3> QED BY <3>1, Places DEF MultiTableTwoTier, Positions
  <2> QED BY <2>1, FindsIf DEF FileMetadata, Insert
<1>15. 65 \in FindsRows
  <2>1. 65 \in Positions /\ Script[65].do = EsignatureFile
    <3>1. Script[50 + 15].do = MultiTableTwoTier[15]
      BY Places
    <3> QED BY <3>1, Places DEF MultiTableTwoTier, Positions
  <2>2. HoldsRows(65, "EsignatureMetadata") /\ HoldsRows(65, "FileMetadata")
    BY <2>1, MultiTableTwoTierCopies DEF CopiedBy
  <2> QED BY <2>1, <2>2, FindsIf DEF EsignatureFile, Update
<1>16. 66 \in FindsRows
  <2>1. 66 \in Positions /\ Script[66].do = PositionUnset
    <3>1. Script[50 + 16].do = MultiTableTwoTier[16]
      BY Places
    <3> QED BY <3>1, Places DEF MultiTableTwoTier, Positions
  <2> QED BY <2>1, FindsIf DEF PositionUnset, Update, Unfilled
<1>17. 67 \in FindsRows
  <2>1. 67 \in Positions /\ Script[67].do = PayrollPositions
    <3>1. Script[50 + 17].do = MultiTableTwoTier[17]
      BY Places
    <3> QED BY <3>1, Places DEF MultiTableTwoTier, Positions
  <2> QED BY <2>1, FindsIf DEF PayrollPositions, Delete
<1>18. 68 \in FindsRows
  <2>1. 68 \in Positions /\ Script[68].do = EmployeePositionOrganization
    <3>1. Script[50 + 18].do = MultiTableTwoTier[18]
      BY Places
    <3> QED BY <3>1, Places DEF MultiTableTwoTier, Positions
  <2>2. /\ HoldsRows(68, "BenefitClass")
        /\ HoldsRows(68, "PayGroupType")
        /\ HoldsRows(68, "PositionOrganizationChangeReason")
        /\ HoldsRows(68, "PositionType")
    BY <2>1, PositionTypeCopies, WrapperCopies DEF CopiedBy
  <2> QED BY <2>1, <2>2, FindsIf DEF EmployeePositionOrganization, Insert, Unfilled
<1>19. 69 \in FindsRows
  <2>1. 69 \in Positions /\ Script[69].do = PositionSet
    <3>1. Script[50 + 19].do = MultiTableTwoTier[19]
      BY Places
    <3> QED BY <3>1, Places DEF MultiTableTwoTier, Positions
  <2>2. HoldsRows(69, "EmployeePositionOrganization")
    BY <2>1, MultiTableTwoTierCopies DEF CopiedBy
  <2> QED BY <2>1, <2>2, FindsIf DEF PositionSet, Update, Unfilled
<1>20. 70 \in FindsRows
  <2>1. 70 \in Positions /\ Script[70].do = PayrollDirectDeposits
    <3>1. Script[50 + 20].do = MultiTableTwoTier[20]
      BY Places
    <3> QED BY <3>1, Places DEF MultiTableTwoTier, Positions
  <2> QED BY <2>1, FindsIf DEF PayrollDirectDeposits, Delete
<1>21. 71 \in FindsRows
  <2>1. 71 \in Positions /\ Script[71].do = EmployeeDirectDeposit
    <3>1. Script[50 + 21].do = MultiTableTwoTier[21]
      BY Places
    <3> QED BY <3>1, Places DEF MultiTableTwoTier, Positions
  <2> QED BY <2>1, FindsIf DEF EmployeeDirectDeposit, Insert, Unfilled
<1>22. 72 \in FindsRows
  <2>1. 72 \in Positions /\ Script[72].do = EmployeeFields
    <3>1. Script[50 + 22].do = MultiTableTwoTier[22]
      BY Places
    <3> QED BY <3>1, Places DEF MultiTableTwoTier, Positions
  <2>2. HoldsRows(72, "PositionType")
    BY <2>1, PositionTypeCopies DEF CopiedBy
  <2> QED BY <2>1, <2>2, FindsIf DEF EmployeeFields, Update, Unfilled
<1>23. 73 \in FindsRows
  <2>1. 73 \in Positions /\ Script[73].do = PayrollAlternateRates
    <3>1. Script[50 + 23].do = MultiTableTwoTier[23]
      BY Places
    <3> QED BY <3>1, Places DEF MultiTableTwoTier, Positions
  <2> QED BY <2>1, FindsIf DEF PayrollAlternateRates, Delete
<1>24. 74 \in FindsRows
  <2>1. 74 \in Positions /\ Script[74].do = EmployeeAlternateRate
    <3>1. Script[50 + 24].do = MultiTableTwoTier[24]
      BY Places
    <3> QED BY <3>1, Places DEF MultiTableTwoTier, Positions
  <2>2. HoldsRows(74, "PayGradeType") /\ HoldsRows(74, "PositionType")
    BY <2>1, PositionTypeCopies, WrapperCopies DEF CopiedBy
  <2> QED BY <2>1, <2>2, FindsIf DEF EmployeeAlternateRate, Insert, Unfilled
<1> QED BY <1>1, <1>2, <1>3, <1>4, <1>5, <1>6, <1>7, <1>8, <1>9, <1>10, <1>11, <1>12,
     <1>13, <1>14, <1>15, <1>16, <1>17, <1>18, <1>19, <1>20, <1>21, <1>22, <1>23,
     <1>24

\* The permissions and roles that the payroll brought are marked, and then deleted.
LEMMA PayrollsRights ==
    \A t \in {"SecPermission", "SecPermissionRole", "SecRole"} : PayrollRows(82, t)
<1>1. ASSUME NEW q \in 1 .. 81
      PROVE  Script[q].do.table \notin {"SecPermission", "SecPermissionRole", "SecRole"}
  <2>1. CASE q \in 1 .. 26
    <3>1. CASE q \in 1 .. 24
      <4>1. CompanyTables[q] \notin {"SecPermission", "SecPermissionRole", "SecRole"}
        BY <3>1 DEF CompanyTables
      <4> QED BY <3>1, <4>1, Places, WrapperPlaces DEF Insert
    <3>2. CASE q \in {25, 26}
      BY <3>2, Places, WrapperPlaces DEF Insert, Delete
    <3> QED BY <2>1, <3>1, <3>2
  <2>2. CASE q = 27
    BY <2>2, Places DEF PositionType, Insert
  <2>3. CASE q \in 28 .. 33
    <3>1. q - 27 \in 1 .. 6 /\ Script[q].do = CompensationDataSet[q - 27]
      <4>1. q - 27 \in 1 .. 6 /\ q = 27 + (q - 27)
        BY <2>3
      <4> QED BY <4>1, Places
    <3>2. \A k \in 1 .. 6 : CompensationDataSet[k].table \notin {"SecPermission", "SecPermissionRole", "SecRole"}
      BY DEF CompensationDataSet, I9Fields, PayrollCompensation, EmployeeCompensation,
         TimeClockFields, EmployeeAbsence, EmployeeAbsenceDetail, Delete, Insert,
         Update
    <3> QED BY <3>1, <3>2
  <2>4. CASE q \in 34 .. 50
    <3>1. q - 33 \in 1 .. 17 /\ Script[q].do = Benefits[q - 33]
      <4>1. q - 33 \in 1 .. 17 /\ q = 33 + (q - 33)
        BY <2>4
      <4> QED BY <4>1, Places
    <3>2. \A k \in 1 .. 17 : Benefits[k].table \notin {"SecPermission", "SecPermissionRole", "SecRole"}
      BY DEF Benefits, BenefitPlan, RelatedPlan, BenefitPlanAgeBand, BenefitPlanRate,
         BenefitPlanFrequencyOverride, BenefitPlanClass,
         BenefitPlanTieredCoverageAmount, OpenEnrollmentEmployeeElection,
         EmployeeBenefit, EmployeeBeneficiary, EmployeeDependent,
         OpenEnrollmentBenefitPlan, OpenEnrollmentElectionCoveredBeneficiary,
         OpenEnrollmentElectionCoveredDependent, OpenEnrollmentEmployee,
         CoveredDependent, CoveredBeneficiary, Insert, Update
    <3> QED BY <3>1, <3>2
  <2>5. CASE q \in 51 .. 74
    <3>1. q - 50 \in 1 .. 24 /\ Script[q].do = MultiTableTwoTier[q - 50]
      <4>1. q - 50 \in 1 .. 24 /\ q = 50 + (q - 50)
        BY <2>5
      <4> QED BY <4>1, Places
    <3>2. \A k \in 1 .. 24 : MultiTableTwoTier[k].table \notin {"SecPermission", "SecPermissionRole", "SecRole"}
      BY DEF MultiTableTwoTier, EmployeeEmergencyContact, EmployeeNote,
         EmployeeEducationLevel, EmployeeReview, EmployeeSkill, EmployeeLicense,
         EmployeeAchievement, EmployeeCertificate, EmployeeEnrolledClass,
         OnboardingTaskStep, OnboardingTaskListCustomQuestion,
         OBQuestionBankMultipleChoiceAnswers, EsignatureMetadata, FileMetadata,
         EsignatureFile, PositionUnset, PayrollPositions,
         EmployeePositionOrganization, PositionSet, PayrollDirectDeposits,
         EmployeeDirectDeposit, EmployeeFields, PayrollAlternateRates,
         EmployeeAlternateRate, Delete, Insert, InsertKeyed, Update
    <3> QED BY <3>1, <3>2
  <2>6. CASE q \in 75 .. 81
    <3>1. q - 74 \in 1 .. 7 /\ Script[q].do = SecDataSet[q - 74]
      <4>1. q - 74 \in 1 .. 7 /\ q = 74 + (q - 74)
        BY <2>6
      <4> QED BY <4>1, Places
    <3>2. \A k \in 1 .. 7 : SecDataSet[k].table \notin {"SecPermission", "SecPermissionRole", "SecRole"}
      BY DEF SecDataSet, HRnextUser, HRnextUserCompany, HRnextUserEmployee,
         HRnextAudit, HRnextAuditDetail, SecEmployeeRecordFilter,
         SecEmployeeRecordFilterValue, Insert, InsertMissing
    <3> QED BY <3>1, <3>2
  <2> QED BY <2>1, <2>2, <2>3, <2>4, <2>5, <2>6
<1>2. /\ Script[83].do = Delete("SecPermissionRole") /\ Script[84].do = Delete("SecPermission")
      /\ Script[85].do = Delete("SecRole")
  <2>1. /\ Script[74 + 9].do = SecDataSet[9] /\ Script[74 + 10].do = SecDataSet[10]
        /\ Script[74 + 11].do = SecDataSet[11]
    BY Places
  <2> QED BY <2>1 DEF SecDataSet, RolePermissionsDeleted, PermissionsDeleted,
       RolesDeleted
<1>3. 83 \in 83 .. Len(Script) /\ 84 \in 83 .. Len(Script) /\ 85 \in 83 .. Len(Script)
  BY Places
<1>4. \A q \in 1 .. 82 - 1 : q \in 1 .. 81
  OBVIOUS
<1>5. /\ PayrollRows(82, "SecPermission") /\ PayrollRows(82, "SecPermissionRole")
      /\ PayrollRows(82, "SecRole")
  <2>1. \A q \in 1 .. 82 - 1 : Script[q].do.table \notin {"SecPermission", "SecPermissionRole", "SecRole"}
    BY <1>1, <1>4
  <2>2. 83 \in 82 + 1 .. Len(Script) /\ 84 \in 82 + 1 .. Len(Script) /\ 85 \in 82 + 1 .. Len(Script)
    BY <1>3, Places
  <2>3. PayrollRows(82, "SecPermission")
    <3>1. \E r \in 82 + 1 .. Len(Script) : Script[r].do = Delete("SecPermission")
      BY <1>2, <2>2
    <3>2. \A q \in 1 .. 82 - 1 : Script[q].do.table # "SecPermission"
      BY <2>1
    <3> QED BY <3>1, <3>2 DEF PayrollRows
  <2>4. PayrollRows(82, "SecPermissionRole")
    <3>1. \E r \in 82 + 1 .. Len(Script) : Script[r].do = Delete("SecPermissionRole")
      BY <1>2, <2>2
    <3>2. \A q \in 1 .. 82 - 1 : Script[q].do.table # "SecPermissionRole"
      BY <2>1
    <3> QED BY <3>1, <3>2 DEF PayrollRows
  <2>5. PayrollRows(82, "SecRole")
    <3>1. \E r \in 82 + 1 .. Len(Script) : Script[r].do = Delete("SecRole")
      BY <1>2, <2>2
    <3>2. \A q \in 1 .. 82 - 1 : Script[q].do.table # "SecRole"
      BY <2>1
    <3> QED BY <3>1, <3>2 DEF PayrollRows
  <2> QED BY <2>3, <2>4, <2>5
<1> QED BY <1>5

LEMMA SecDataSetFinds == \A p \in 75 .. 94 : p \in FindsRows
<1>1. 75 \in FindsRows
  <2>1. 75 \in Positions /\ Script[75].do = HRnextUser
    <3>1. Script[74 + 1].do = SecDataSet[1]
      BY Places
    <3> QED BY <3>1, Places DEF SecDataSet, Positions
  <2> QED BY <2>1, FindsIf DEF HRnextUser, InsertMissing
<1>2. 76 \in FindsRows
  <2>1. 76 \in Positions /\ Script[76].do = HRnextUserCompany
    <3>1. Script[74 + 2].do = SecDataSet[2]
      BY Places
    <3> QED BY <3>1, Places DEF SecDataSet, Positions
  <2>2. HoldsRows(76, "HRnextUser")
    BY <2>1, SecDataSetCopies DEF CopiedBy
  <2> QED BY <2>1, <2>2, FindsIf DEF HRnextUserCompany, Insert
<1>3. 77 \in FindsRows
  <2>1. 77 \in Positions /\ Script[77].do = HRnextUserEmployee
    <3>1. Script[74 + 3].do = SecDataSet[3]
      BY Places
    <3> QED BY <3>1, Places DEF SecDataSet, Positions
  <2>2. HoldsRows(77, "HRnextUser")
    BY <2>1, SecDataSetCopies DEF CopiedBy
  <2> QED BY <2>1, <2>2, FindsIf DEF HRnextUserEmployee, Insert, Unfilled
<1>4. 78 \in FindsRows
  <2>1. 78 \in Positions /\ Script[78].do = HRnextAudit
    <3>1. Script[74 + 4].do = SecDataSet[4]
      BY Places
    <3> QED BY <3>1, Places DEF SecDataSet, Positions
  <2> QED BY <2>1, FindsIf DEF HRnextAudit, Insert
<1>5. 79 \in FindsRows
  <2>1. 79 \in Positions /\ Script[79].do = HRnextAuditDetail
    <3>1. Script[74 + 5].do = SecDataSet[5]
      BY Places
    <3> QED BY <3>1, Places DEF SecDataSet, Positions
  <2>2. HoldsRows(79, "HRnextAudit")
    BY <2>1, SecDataSetCopies DEF CopiedBy
  <2> QED BY <2>1, <2>2, FindsIf DEF HRnextAuditDetail, Insert
<1>6. 80 \in FindsRows
  <2>1. 80 \in Positions /\ Script[80].do = SecEmployeeRecordFilter
    <3>1. Script[74 + 6].do = SecDataSet[6]
      BY Places
    <3> QED BY <3>1, Places DEF SecDataSet, Positions
  <2> QED BY <2>1, FindsIf DEF SecEmployeeRecordFilter, Insert
<1>7. 81 \in FindsRows
  <2>1. 81 \in Positions /\ Script[81].do = SecEmployeeRecordFilterValue
    <3>1. Script[74 + 7].do = SecDataSet[7]
      BY Places
    <3> QED BY <3>1, Places DEF SecDataSet, Positions
  <2>2. HoldsRows(81, "PositionType") /\ HoldsRows(81, "SecEmployeeRecordFilter")
    BY <2>1, PositionTypeCopies, SecDataSetCopies DEF CopiedBy
  <2> QED BY <2>1, <2>2, FindsIf DEF SecEmployeeRecordFilterValue, Insert, Unfilled
<1>8. 82 \in FindsRows
  <2>1. 82 \in Positions /\ Script[82].do = PermissionsMarked
    <3>1. Script[74 + 8].do = SecDataSet[8]
      BY Places
    <3> QED BY <3>1, Places DEF SecDataSet, Positions
  <2>2. PayrollRows(82, "SecPermission")
    BY PayrollsRights DEF PayrollRows
  <2>3. PayrollRows(82, "SecPermissionRole")
    BY PayrollsRights DEF PayrollRows
  <2>4. PayrollRows(82, "SecRole")
    BY PayrollsRights DEF PayrollRows
  <2> QED BY <2>1, <2>2, <2>3, <2>4, FindsIf DEF PermissionsMarked, Update
<1>9. 83 \in FindsRows
  <2>1. 83 \in Positions /\ Script[83].do = RolePermissionsDeleted
    <3>1. Script[74 + 9].do = SecDataSet[9]
      BY Places
    <3> QED BY <3>1, Places DEF SecDataSet, Positions
  <2> QED BY <2>1, FindsIf DEF RolePermissionsDeleted, Delete
<1>10. 84 \in FindsRows
  <2>1. 84 \in Positions /\ Script[84].do = PermissionsDeleted
    <3>1. Script[74 + 10].do = SecDataSet[10]
      BY Places
    <3> QED BY <3>1, Places DEF SecDataSet, Positions
  <2> QED BY <2>1, FindsIf DEF PermissionsDeleted, Delete
<1>11. 85 \in FindsRows
  <2>1. 85 \in Positions /\ Script[85].do = RolesDeleted
    <3>1. Script[74 + 11].do = SecDataSet[11]
      BY Places
    <3> QED BY <3>1, Places DEF SecDataSet, Positions
  <2> QED BY <2>1, FindsIf DEF RolesDeleted, Delete
<1>12. 86 \in FindsRows
  <2>1. 86 \in Positions /\ Script[86].do = SecRole
    <3>1. Script[74 + 12].do = SecDataSet[12]
      BY Places
    <3> QED BY <3>1, Places DEF SecDataSet, Positions
  <2>2. HoldsRows(86, "SecEmployeeRecordFilter")
    BY <2>1, SecDataSetCopies DEF CopiedBy
  <2> QED BY <2>1, <2>2, FindsIf DEF SecRole, Insert, Unfilled
<1>13. 87 \in FindsRows
  <2>1. 87 \in Positions /\ Script[87].do = SecPermission
    <3>1. Script[74 + 13].do = SecDataSet[13]
      BY Places
    <3> QED BY <3>1, Places DEF SecDataSet, Positions
  <2> QED BY <2>1, FindsIf DEF SecPermission, Insert, Unfilled
<1>14. 88 \in FindsRows
  <2>1. 88 \in Positions /\ Script[88].do = UserPermission
    <3>1. Script[74 + 14].do = SecDataSet[14]
      BY Places
    <3> QED BY <3>1, Places DEF SecDataSet, Positions
  <2> QED BY <2>1, FindsIf DEF UserPermission, Insert, Unfilled
<1>15. 89 \in FindsRows
  <2>1. 89 \in Positions /\ Script[89].do = SecPermissionRole
    <3>1. Script[74 + 15].do = SecDataSet[15]
      BY Places
    <3> QED BY <3>1, Places DEF SecDataSet, Positions
  <2>2. HoldsRows(89, "SecPermission") /\ HoldsRows(89, "SecRole")
    BY <2>1, SecDataSetCopies DEF CopiedBy
  <2> QED BY <2>1, <2>2, FindsIf DEF SecPermissionRole, Insert, Unfilled
<1>16. 90 \in FindsRows
  <2>1. 90 \in Positions /\ Script[90].do = SecPermissionUser
    <3>1. Script[74 + 16].do = SecDataSet[16]
      BY Places
    <3> QED BY <3>1, Places DEF SecDataSet, Positions
  <2>2. HoldsRows(90, "HRnextUser") /\ HoldsRows(90, "SecPermission")
    BY <2>1, SecDataSetCopies DEF CopiedBy
  <2> QED BY <2>1, <2>2, FindsIf DEF SecPermissionUser, Insert
<1>17. 91 \in FindsRows
  <2>1. 91 \in Positions /\ Script[91].do = SecRoleUser
    <3>1. Script[74 + 17].do = SecDataSet[17]
      BY Places
    <3> QED BY <3>1, Places DEF SecDataSet, Positions
  <2>2. HoldsRows(91, "HRnextUser") /\ HoldsRows(91, "SecRole")
    BY <2>1, SecDataSetCopies DEF CopiedBy
  <2> QED BY <2>1, <2>2, FindsIf DEF SecRoleUser, Insert
<1>18. 92 \in FindsRows
  <2>1. 92 \in Positions /\ Script[92].do = RoleNames
    <3>1. Script[74 + 18].do = SecDataSet[18]
      BY Places
    <3> QED BY <3>1, Places DEF SecDataSet, Positions
  <2>2. HoldsRows(92, "SecRole")
    BY <2>1, SecDataSetCopies DEF CopiedBy
  <2> QED BY <2>1, <2>2, FindsIf DEF RoleNames, Update, Unfilled
<1>19. 93 \in FindsRows
  <2>1. 93 \in Positions /\ Script[93].do = UserCompanyTimeclockCredential
    <3>1. Script[74 + 19].do = SecDataSet[19]
      BY Places
    <3> QED BY <3>1, Places DEF SecDataSet, Positions
  <2>2. HoldsRows(93, "HRnextUser")
    BY <2>1, SecDataSetCopies DEF CopiedBy
  <2> QED BY <2>1, <2>2, FindsIf DEF UserCompanyTimeclockCredential, Insert
<1>20. 94 \in FindsRows
  <2>1. 94 \in Positions /\ Script[94].do = UsersInactivated
    <3>1. Script[74 + 20].do = SecDataSet[20]
      BY Places
    <3> QED BY <3>1, Places DEF SecDataSet, Positions
  <2> QED BY <2>1, FindsIf DEF UsersInactivated
<1> QED BY <1>1, <1>2, <1>3, <1>4, <1>5, <1>6, <1>7, <1>8, <1>9, <1>10, <1>11, <1>12,
     <1>13, <1>14, <1>15, <1>16, <1>17, <1>18, <1>19, <1>20

LEMMA AlertRecipientsFinds == 95 \in FindsRows
<1>1. 95 \in Positions /\ Script[95].do = AlertRecipients
  BY Places DEF Positions
<1>2. HoldsRows(95, "Alert") /\ HoldsRows(95, "HRnextUser")
  BY <1>1, SecDataSetCopies, WrapperCopies DEF CopiedBy
<1> QED BY <1>1, <1>2, FindsIf DEF AlertRecipients, Update, Unfilled

LEMMA QRWSavedReportFinds == 96 \in FindsRows
<1>1. 96 \in Positions /\ Script[96].do = QRWSavedReport
  BY Places DEF Positions
<1>2. HoldsRows(96, "HRnextUser")
  BY <1>1, SecDataSetCopies DEF CopiedBy
<1> QED BY <1>1, <1>2, FindsIf DEF QRWSavedReport, Insert

LEMMA ApplTrackFinds == \A p \in 97 .. 104 : p \in FindsRows
<1>1. 97 \in FindsRows
  <2>1. 97 \in Positions /\ Script[97].do = ATJobPosting
    <3>1. Script[96 + 1].do = ApplTrack[1]
      BY Places
    <3> QED BY <3>1, Places DEF ApplTrack, Positions
  <2>2. HoldsRows(97, "ATApplicationVersion") /\ HoldsRows(97, "PositionType")
    BY <2>1, PositionTypeCopies, WrapperCopies DEF CopiedBy
  <2> QED BY <2>1, <2>2, FindsIf DEF ATJobPosting, Insert, Unfilled
<1>2. 98 \in FindsRows
  <2>1. 98 \in Positions /\ Script[98].do = ATApplication
    <3>1. Script[96 + 2].do = ApplTrack[2]
      BY Places
    <3> QED BY <3>1, Places DEF ApplTrack, Positions
  <2>2. HoldsRows(98, "ATJobPosting") /\ HoldsRows(98, "ATSoftStatusType")
    BY <2>1, ApplTrackCopies, WrapperCopies DEF CopiedBy
  <2> QED BY <2>1, <2>2, FindsIf DEF ATApplication, Insert
<1>3. 99 \in FindsRows
  <2>1. 99 \in Positions /\ Script[99].do = ATApplicationNote
    <3>1. Script[96 + 3].do = ApplTrack[3]
      BY Places
    <3> QED BY <3>1, Places DEF ApplTrack, Positions
  <2>2. HoldsRows(99, "ATApplication")
    BY <2>1, ApplTrackCopies DEF CopiedBy
  <2> QED BY <2>1, <2>2, FindsIf DEF ATApplicationNote, Insert
<1>4. 100 \in FindsRows
  <2>1. 100 \in Positions /\ Script[100].do = ATApplicationStatusHistory
    <3>1. Script[96 + 4].do = ApplTrack[4]
      BY Places
    <3> QED BY <3>1, Places DEF ApplTrack, Positions
  <2>2. HoldsRows(100, "ATApplication") /\ HoldsRows(100, "ATJobPosting")
    BY <2>1, ApplTrackCopies DEF CopiedBy
  <2> QED BY <2>1, <2>2, FindsIf DEF ATApplicationStatusHistory, Insert
<1>5. 101 \in FindsRows
  <2>1. 101 \in Positions /\ Script[101].do = ATApplicationVersionCustomQuestion
    <3>1. Script[96 + 5].do = ApplTrack[5]
      BY Places
    <3> QED BY <3>1, Places DEF ApplTrack, Positions
  <2>2. HoldsRows(101, "ATApplicationVersion") /\ HoldsRows(101, "ATQuestionBank")
    BY <2>1, WrapperCopies DEF CopiedBy
  <2> QED BY <2>1, <2>2, FindsIf DEF ATApplicationVersionCustomQuestion, Insert
<1>6. 102 \in FindsRows
  <2>1. 102 \in Positions /\ Script[102].do = ATApplicationQuestionBankAnswer
    <3>1. Script[96 + 6].do = ApplTrack[6]
      BY Places
    <3> QED BY <3>1, Places DEF ApplTrack, Positions
  <2>2. HoldsRows(102, "ATApplication")
    BY <2>1, ApplTrackCopies DEF CopiedBy
  <2> QED BY <2>1, <2>2, FindsIf DEF ATApplicationQuestionBankAnswer, Insert
<1>7. 103 \in FindsRows
  <2>1. 103 \in Positions /\ Script[103].do = ATJobPostingResponsibleUser
    <3>1. Script[96 + 7].do = ApplTrack[7]
      BY Places
    <3> QED BY <3>1, Places DEF ApplTrack, Positions
  <2>2. HoldsRows(103, "ATJobPosting") /\ HoldsRows(103, "HRnextUser")
    BY <2>1, ApplTrackCopies, SecDataSetCopies DEF CopiedBy
  <2> QED BY <2>1, <2>2, FindsIf DEF ATJobPostingResponsibleUser, Insert
<1>8. 104 \in FindsRows
  <2>1. 104 \in Positions /\ Script[104].do = ATQuestionBankMultipleChoiceAnswers
    <3>1. Script[96 + 8].do = ApplTrack[8]
      BY Places
    <3> QED BY <3>1, Places DEF ApplTrack, Positions
  <2>2. HoldsRows(104, "ATQuestionBank")
    BY <2>1, WrapperCopies DEF CopiedBy
  <2> QED BY <2>1, <2>2, FindsIf DEF ATQuestionBankMultipleChoiceAnswers, Insert
<1> QED BY <1>1, <1>2, <1>3, <1>4, <1>5, <1>6, <1>7, <1>8

LEMMA OnboardDataSetFinds == \A p \in 105 .. 105 : p \in FindsRows
<1>1. 105 \in FindsRows
  <2>1. 105 \in Positions /\ Script[105].do = EmployeeOnboard
    <3>1. Script[104 + 1].do = OnboardDataSet[1]
      BY Places
    <3> QED BY <3>1, Places DEF OnboardDataSet, Positions
  <2>2. /\ HoldsRows(105, "ATApplication")
        /\ HoldsRows(105, "BenefitClass")
        /\ HoldsRows(105, "CompensationChangeReason")
        /\ HoldsRows(105, "HRnextUser")
        /\ HoldsRows(105, "OnboardingTaskList")
        /\ HoldsRows(105, "PayGroupType")
        /\ HoldsRows(105, "PositionOrganizationChangeReason")
        /\ HoldsRows(105, "PositionType")
    BY <2>1, ApplTrackCopies, PositionTypeCopies, SecDataSetCopies, WrapperCopies DEF CopiedBy
  <2> QED BY <2>1, <2>2, FindsIf DEF EmployeeOnboard, Insert, Unfilled
<1> QED BY <1>1

LEMMA DocumentsFinds == \A p \in 106 .. 125 : p \in FindsRows
<1>1. 106 \in FindsRows
  <2>1. 106 \in Positions /\ Script[106].do = CompanyDocument
    <3>1. Script[105 + 1].do = Documents[1]
      BY Places
    <3> QED BY <3>1, Places DEF Documents, Positions
  <2> QED BY <2>1, FindsIf DEF CompanyDocument, Insert
<1>2. 107 \in FindsRows
  <2>1. 107 \in Positions /\ Script[107].do = EmployeeDocument
    <3>1. Script[105 + 2].do = Documents[2]
      BY Places
    <3> QED BY <3>1, Places DEF Documents, Positions
  <2>2. HoldsRows(107, "EmployeeOnboard")
    BY <2>1, OnboardDataSetCopies DEF CopiedBy
  <2> QED BY <2>1, <2>2, FindsIf DEF EmployeeDocument, Insert, Unfilled
<1>3. 108 \in FindsRows
  <2>1. 108 \in Positions /\ Script[108].do = AnnouncementDocument
    <3>1. Script[105 + 3].do = Documents[3]
      BY Places
    <3> QED BY <3>1, Places DEF Documents, Positions
  <2>2. HoldsRows(108, "Announcement") /\ HoldsRows(108, "Document")
    BY <2>1, DocumentsCopies, WrapperCopies DEF CopiedBy
  <2> QED BY <2>1, <2>2, FindsIf DEF AnnouncementDocument, Insert
<1>4. 109 \in FindsRows
  <2>1. 109 \in Positions /\ Script[109].do = BenefitPlanDocument
    <3>1. Script[105 + 4].do = Documents[4]
      BY Places
    <3> QED BY <3>1, Places DEF Documents, Positions
  <2>2. HoldsRows(109, "BenefitPlan") /\ HoldsRows(109, "Document")
    BY <2>1, BenefitsCopies, DocumentsCopies DEF CopiedBy
  <2> QED BY <2>1, <2>2, FindsIf DEF BenefitPlanDocument, Insert
<1>5. 110 \in FindsRows
  <2>1. 110 \in Positions /\ Script[110].do = EmployeeI9Document
    <3>1. Script[105 + 5].do = Documents[5]
      BY Places
    <3> QED BY <3>1, Places DEF Documents, Positions
  <2>2. HoldsRows(110, "Document")
    BY <2>1, DocumentsCopies DEF CopiedBy
  <2> QED BY <2>1, <2>2, FindsIf DEF EmployeeI9Document, Insert, Unfilled
<1>6. 111 \in FindsRows
  <2>1. 111 \in Positions /\ Script[111].do = EmployeeBCDocument
    <3>1. Script[105 + 6].do = Documents[6]
      BY Places
    <3> QED BY <3>1, Places DEF Documents, Positions
  <2>2. HoldsRows(111, "Document")
    BY <2>1, DocumentsCopies DEF CopiedBy
  <2> QED BY <2>1, <2>2, FindsIf DEF EmployeeBCDocument, Insert, Unfilled
<1>7. 112 \in FindsRows
  <2>1. 112 \in Positions /\ Script[112].do = EmployeeEsignCompanyDocument
    <3>1. Script[105 + 7].do = Documents[7]
      BY Places
    <3> QED BY <3>1, Places DEF Documents, Positions
  <2>2. HoldsRows(112, "Document")
    BY <2>1, DocumentsCopies DEF CopiedBy
  <2> QED BY <2>1, <2>2, FindsIf DEF EmployeeEsignCompanyDocument, Insert, Unfilled
<1>8. 113 \in FindsRows
  <2>1. 113 \in Positions /\ Script[113].do = EmployeePhotoDocument
    <3>1. Script[105 + 8].do = Documents[8]
      BY Places
    <3> QED BY <3>1, Places DEF Documents, Positions
  <2>2. HoldsRows(113, "Document")
    BY <2>1, DocumentsCopies DEF CopiedBy
  <2> QED BY <2>1, <2>2, FindsIf DEF EmployeePhotoDocument, Insert, Unfilled
<1>9. 114 \in FindsRows
  <2>1. 114 \in Positions /\ Script[114].do = EmployeeW4
    <3>1. Script[105 + 9].do = Documents[9]
      BY Places
    <3> QED BY <3>1, Places DEF Documents, Positions
  <2>2. HoldsRows(114, "Document") /\ HoldsRows(114, "HRnextUser")
    BY <2>1, DocumentsCopies, SecDataSetCopies DEF CopiedBy
  <2> QED BY <2>1, <2>2, FindsIf DEF EmployeeW4, Insert, Unfilled
<1>10. 115 \in FindsRows
  <2>1. 115 \in Positions /\ Script[115].do = EmployeeAbsenceDocument
    <3>1. Script[105 + 10].do = Documents[10]
      BY Places
    <3> QED BY <3>1, Places DEF Documents, Positions
  <2>2. HoldsRows(115, "Document") /\ HoldsRows(115, "EmployeeAbsence")
    BY <2>1, CompensationDataSetCopies, DocumentsCopies DEF CopiedBy
  <2> QED BY <2>1, <2>2, FindsIf DEF EmployeeAbsenceDocument, Insert, Unfilled
<1>11. 116 \in FindsRows
  <2>1. 116 \in Positions /\ Script[116].do = EmployeeAchievementDocument
    <3>1. Script[105 + 11].do = Documents[11]
      BY Places
    <3> QED BY <3>1, Places DEF Documents, Positions
  <2>2. /\ HoldsRows(116, "AchievementType")
        /\ HoldsRows(116, "Document")
        /\ HoldsRows(116, "EmployeeAchievement")
    BY <2>1, DocumentsCopies, MultiTableTwoTierCopies, WrapperCopies DEF CopiedBy
  <2> QED BY <2>1, <2>2, FindsIf DEF EmployeeAchievementDocument, Insert, Unfilled
<1>12. 117 \in FindsRows
  <2>1. 117 \in Positions /\ Script[117].do = EmployeeBenefitDocument
    <3>1. Script[105 + 12].do = Documents[12]
      BY Places
    <3> QED BY <3>1, Places DEF Documents, Positions
  <2>2. /\ HoldsRows(117, "BenefitPlan")
        /\ HoldsRows(117, "Document")
        /\ HoldsRows(117, "EmployeeBenefit")
    BY <2>1, BenefitsCopies, DocumentsCopies DEF CopiedBy
  <2> QED BY <2>1, <2>2, FindsIf DEF EmployeeBenefitDocument, Insert, Unfilled
<1>13. 118 \in FindsRows
  <2>1. 118 \in Positions /\ Script[118].do = EmployeeCertificateDocument
    <3>1. Script[105 + 13].do = Documents[13]
      BY Places
    <3> QED BY <3>1, Places DEF Documents, Positions
  <2>2. /\ HoldsRows(118, "CertificateType")
        /\ HoldsRows(118, "Document")
        /\ HoldsRows(118, "EmployeeCertificate")
    BY <2>1, DocumentsCopies, MultiTableTwoTierCopies, WrapperCopies DEF CopiedBy
  <2> QED BY <2>1, <2>2, FindsIf DEF EmployeeCertificateDocument, Insert, Unfilled
<1>14. 119 \in FindsRows
  <2>1. 119 \in Positions /\ Script[119].do = EmployeeEnrolledClassDocument
    <3>1. Script[105 + 14].do = Documents[14]
      BY Places
    <3> QED BY <3>1, Places DEF Documents, Positions
  <2>2. /\ HoldsRows(119, "Document")
        /\ HoldsRows(119, "EmployeeEnrolledClass")
        /\ HoldsRows(119, "HRnextClass")
    BY <2>1, DocumentsCopies, MultiTableTwoTierCopies, WrapperCopies DEF CopiedBy
  <2> QED BY <2>1, <2>2, FindsIf DEF EmployeeEnrolledClassDocument, Insert, Unfilled
<1>15. 120 \in FindsRows
  <2>1. 120 \in Positions /\ Script[120].do = EmployeeLicenseDocument
    <3>1. Script[105 + 15].do = Documents[15]
      BY Places
    <3> QED BY <3>1, Places DEF Documents, Positions
  <2>2. /\ HoldsRows(120, "Document")
        /\ HoldsRows(120, "EmployeeLicense")
        /\ HoldsRows(120, "LicenseType")
    BY <2>1, DocumentsCopies, MultiTableTwoTierCopies, WrapperCopies DEF CopiedBy
  <2> QED BY <2>1, <2>2, FindsIf DEF EmployeeLicenseDocument, Insert, Unfilled
<1>16. 121 \in FindsRows
  <2>1. 121 \in Positions /\ Script[121].do = EmployeeOnboardDocument
    <3>1. Script[105 + 16].do = Documents[16]
      BY Places
    <3> QED BY <3>1, Places DEF Documents, Positions
  <2>2. HoldsRows(121, "Document") /\ HoldsRows(121, "EmployeeOnboard")
    BY <2>1, DocumentsCopies, OnboardDataSetCopies DEF CopiedBy
  <2> QED BY <2>1, <2>2, FindsIf DEF EmployeeOnboardDocument, Insert, Unfilled
<1>17. 122 \in FindsRows
  <2>1. 122 \in Positions /\ Script[122].do = EmployeeReviewDocument
    <3>1. Script[105 + 17].do = Documents[17]
      BY Places
    <3> QED BY <3>1, Places DEF Documents, Positions
  <2>2. /\ HoldsRows(122, "Document")
        /\ HoldsRows(122, "EmployeeReview")
        /\ HoldsRows(122, "ReviewType")
    BY <2>1, DocumentsCopies, MultiTableTwoTierCopies, WrapperCopies DEF CopiedBy
  <2> QED BY <2>1, <2>2, FindsIf DEF EmployeeReviewDocument, Insert, Unfilled
<1>18. 123 \in FindsRows
  <2>1. 123 \in Positions /\ Script[123].do = EmployeeSkillDocument
    <3>1. Script[105 + 18].do = Documents[18]
      BY Places
    <3> QED BY <3>1, Places DEF Documents, Positions
  <2>2. /\ HoldsRows(123, "Document")
        /\ HoldsRows(123, "EmployeeSkill")
        /\ HoldsRows(123, "SkillType")
    BY <2>1, DocumentsCopies, MultiTableTwoTierCopies, WrapperCopies DEF CopiedBy
  <2> QED BY <2>1, <2>2, FindsIf DEF EmployeeSkillDocument, Insert, Unfilled
<1>19. 124 \in FindsRows
  <2>1. 124 \in Positions /\ Script[124].do = CompanyLogoDocument
    <3>1. Script[105 + 19].do = Documents[19]
      BY Places
    <3> QED BY <3>1, Places DEF Documents, Positions
  <2>2. HoldsRows(124, "Document")
    BY <2>1, DocumentsCopies DEF CopiedBy
  <2> QED BY <2>1, <2>2, FindsIf DEF CompanyLogoDocument, Insert
<1>20. 125 \in FindsRows
  <2>1. 125 \in Positions /\ Script[125].do = ApplicantDocument
    <3>1. Script[105 + 20].do = Documents[20]
      BY Places
    <3> QED BY <3>1, Places DEF Documents, Positions
  <2>2. HoldsRows(125, "ATApplication")
    BY <2>1, ApplTrackCopies DEF CopiedBy
  <2> QED BY <2>1, <2>2, FindsIf DEF ApplicantDocument, Insert
<1> QED BY <1>1, <1>2, <1>3, <1>4, <1>5, <1>6, <1>7, <1>8, <1>9, <1>10, <1>11, <1>12,
     <1>13, <1>14, <1>15, <1>16, <1>17, <1>18, <1>19, <1>20

LEMMA CompanyDefaultsFinds == 126 \in FindsRows
<1>1. 126 \in Positions /\ Script[126].do = CompanyDefaults
  BY Places DEF Positions
<1>2. /\ HoldsRows(126, "CompensationChangeReason")
      /\ HoldsRows(126, "PositionOrganizationChangeReason")
      /\ HoldsRows(126, "SecRole")
  BY <1>1, SecDataSetCopies, WrapperCopies DEF CopiedBy
<1> QED BY <1>1, <1>2, FindsIf DEF CompanyDefaults, Update, Unfilled

LEMMA AllFindRows == \A p \in Positions : p \in FindsRows
<1> SUFFICES ASSUME NEW p \in 1 .. 126
             PROVE  p \in FindsRows
  BY Places DEF Positions
<1> QED BY WrapperFinds, PositionTypeFinds, CompensationDataSetFinds, BenefitsFinds,
     MultiTableTwoTierFinds, SecDataSetFinds, AlertRecipientsFinds,
     QRWSavedReportFinds, ApplTrackFinds, OnboardDataSetFinds, DocumentsFinds,
     CompanyDefaultsFinds
-----------------------------------------------------------------------------
(* The migrations and the sessions of their scripts                               *)

\* What a migration has done by the time it is at each of its steps: its script is not
\* sent before that step, a session that ended without an error was complete, and so was
\* the script of a migration that is about to be, or is, marked as done.
Course(m) ==
    /\ m \in asked => run[m].pc \in {"await", "succeed", "fail", "unlink", "ended"}
    /\ session[m] # 0 => m \in asked
    /\ run[m].pc # "idle" => to[m] \in Recipients
    /\ m \in missed => m \in erred
    /\ session[m] = Len(Script) + 1 /\ m \notin erred => m \in complete
    /\ run[m].pc = "succeed" => m \in complete \cup swallowed
    /\ item[m] = "Success" => m \in complete \cup swallowed

\* As long as no session passed over a statement, one that has copied the users left
\* them at its recipient,
Copied(m) ==
    missed = {} /\ InSession(m) =>
        \A p \in 1 .. session[m] - 1 :
            Script[p].do.kind = "missing" => activeAt[to[m]] # "none"

\* and they are active there, unless they were copied after they were locked out.
CopiedActive == \A r \in Recipients : activeAt[r] = "inactive" => ~ donorActive

IInv ==
    /\ TypeOK
    /\ \A m \in Migrations : Course(m)
    /\ \A m \in Migrations : Copied(m)
    /\ CopiedActive
    /\ UsersKept
    /\ TriggerRestored

LEMMA TwelveScripts == Len(Scripts) = 12 /\ DOMAIN Scripts = 1 .. 12
BY DEF Scripts

RunRecord == [pc : Steps, script : 1 .. 12, second : BOOLEAN]
Typed(function) == function \in [Migrations -> RunRecord]

\* The function of m takes a step, and the other functions do not.
Stepped(m, pc) ==
    /\ Typed(run')
    /\ \A n \in Migrations : run'[n].pc = IF n = m THEN pc ELSE run[n].pc

LEMMA SetStep ==
    ASSUME TypeOK, NEW m \in Migrations, NEW x \in RunRecord,
           run' = [run EXCEPT ![m] = x]
    PROVE  Stepped(m, x.pc)
BY TwelveScripts DEF TypeOK, Typed, Stepped, RunRecord

LEMMA Steppings ==
    ASSUME TypeOK, NEW m \in Migrations, NEW pc \in Steps,
           Goto(m, pc) \/ Leave(m, pc)
    PROVE  Stepped(m, pc)
<1>1. Typed(run)
  BY TwelveScripts DEF TypeOK, Typed, RunRecord
<1>2. CASE Goto(m, pc)
  BY <1>1, <1>2 DEF Typed, Stepped, Goto, RunRecord
<1>3. CASE Leave(m, pc)
  <2>1. At(pc) \in RunRecord /\ At(pc).pc = pc
    BY DEF At, RunRecord
  <2> QED BY <1>3, <2>1, SetStep DEF Leave
<1> QED BY <1>2, <1>3

\* The function goes on with the same script, with the next one, or after the last one.
LEMMA Installing ==
    ASSUME TypeOK, NEW m \in Migrations
    PROVE  /\ NextScript(m) \in RunRecord /\ NextScript(m).pc \in {"clear", "disable"}
           /\ AfterInstall(m) \in RunRecord /\ AfterInstall(m).pc \in {"clear", "disable"}
           /\ Fails(m) \in RunRecord /\ Fails(m).pc = "fail"
<1>1. run[m] \in RunRecord
  BY TwelveScripts DEF TypeOK, RunRecord
<1>2. NextScript(m) \in RunRecord /\ NextScript(m).pc \in {"clear", "disable"}
  BY <1>1, TwelveScripts DEF NextScript, RunRecord, Steps
<1>3. AfterInstall(m) \in RunRecord /\ AfterInstall(m).pc \in {"clear", "disable"}
  BY <1>1, <1>2 DEF AfterInstall, RunRecord, Steps
<1> QED BY <1>2, <1>3 DEF Fails, At, Steps, RunRecord

LEMMA InitInv == Init => IInv
<1> SUFFICES ASSUME Init
             PROVE  IInv
  OBVIOUS
<1>1. TypeOK
  BY Scripted, TwelveScripts DEF Init, TypeOK, At, Steps
<1>2. \A m \in Migrations : Course(m)
  BY Scripted DEF Init, Course, At
<1>3. \A m \in Migrations : Copied(m)
  BY DEF Init, Copied, InSession, Positions
<1>4. CopiedActive /\ UsersKept /\ TriggerRestored
  BY DEF Init, CopiedActive, UsersKept, TriggerRestored
<1> QED BY <1>1, <1>2, <1>3, <1>4 DEF IInv

\* The users are not concerned by a step that no session takes.
LEMMA UsersApart ==
    ASSUME IInv, UNCHANGED <<session, data, missed>>,
           \A m \in Migrations : session[m] # 0 => to'[m] = to[m]
    PROVE  (\A m \in Migrations : Copied(m)') /\ CopiedActive' /\ UsersKept'
<1>1. ASSUME NEW m \in Migrations
      PROVE  Copied(m)'
  <2>1. InSession(m) => session[m] # 0
    BY Scripted DEF InSession, Positions
  <2> QED BY <2>1 DEF IInv, Copied, InSession, data
<1>2. CopiedActive' /\ UsersKept'
  BY DEF IInv, CopiedActive, UsersKept, data
<1> QED BY <1>1, <1>2

\* Nor is the trigger by a step that neither begins nor ends the making of the job.
LEMMA TriggerApart ==
    ASSUME IInv, UNCHANGED <<agent, stuck>>,
           \A m \in Migrations : run[m].pc = "schedule" =>
               run'[m].pc = "schedule" /\ to'[m] = to[m]
    PROVE  TriggerRestored'
BY DEF IInv, TriggerRestored, agent

LEMMA RunCompanyMigrationStep ==
    ASSUME IInv, NEW m \in Migrations, NEW r \in Recipients, RunCompanyMigration(m, r)
    PROVE  IInv'
<1>0. Stepped(m, "link")
  BY Steppings DEF IInv, Steps, RunCompanyMigration, InOrder
<1>1. TypeOK'
  <2>1. Typed(run')
    BY <1>0 DEF Stepped
  <2>2. item' \in [Migrations -> {"none", "Pending", "Success", "Failed"}]
        /\ to' \in [Migrations -> Recipients \cup {None}]
    BY DEF IInv, TypeOK, RunCompanyMigration, InOrder, data, agent, history, marks, Wrong
  <2>3. session' \in [Migrations -> 0 .. Len(Script) + 1]
    BY Scripted DEF IInv, TypeOK, Positions, InSession, RunCompanyMigration,
       InOrder, data, agent, history, marks, Wrong
  <2>4. (links \cup erred \cup asked \cup complete \cup missed \cup swallowed \cup killed
            \cup unsettled)' \subseteq Migrations
    BY DEF IInv, TypeOK, RunCompanyMigration, InOrder, data, agent, history, marks, Wrong
  <2>5. (keyed \cup stuck)' \subseteq Recipients /\ donorActive' \in BOOLEAN
        /\ activeAt' \in [Recipients -> {"none", "active", "inactive"}]
        /\ trigger' \in [Recipients -> {"on", "off"}] /\ job' \in [Recipients -> BOOLEAN]
    BY DEF IInv, TypeOK, Course, RunCompanyMigration, InOrder, data, agent, history,
       marks, Wrong
  <2> QED BY <2>1, <2>2, <2>3, <2>4, <2>5, TwelveScripts DEF TypeOK, Typed, RunRecord
<1>2. \A n \in Migrations : Course(n)'
  BY <1>0, Scripted DEF IInv, TypeOK, Course, Stepped, RunCompanyMigration, InOrder,
     data, agent, history, marks, Wrong
<1>3. (\A n \in Migrations : Copied(n)') /\ CopiedActive' /\ UsersKept'
  BY UsersApart DEF IInv, TypeOK, Course, RunCompanyMigration, InOrder, data, history
<1>4. TriggerRestored'
  BY <1>0, TriggerApart DEF Stepped, RunCompanyMigration, InOrder, agent, marks
<1> QED BY <1>1, <1>2, <1>3, <1>4 DEF IInv

LEMMA StartFailsStep ==
    ASSUME IInv, NEW m \in Migrations, NEW r \in Recipients, StartFails(m, r)
    PROVE  IInv'
<1>0. Stepped(m, "ended")
  BY Steppings DEF IInv, Steps, StartFails, InOrder
<1>1. TypeOK'
  <2>1. Typed(run')
    BY <1>0 DEF Stepped
  <2>2. item' \in [Migrations -> {"none", "Pending", "Success", "Failed"}]
        /\ to' \in [Migrations -> Recipients \cup {None}]
    BY DEF IInv, TypeOK, StartFails, InOrder, data, agent, history, marks, Wrong
  <2>3. session' \in [Migrations -> 0 .. Len(Script) + 1]
    BY Scripted DEF IInv, TypeOK, Positions, InSession, StartFails, InOrder, data,
       agent, history, marks, Wrong
  <2>4. (links \cup erred \cup asked \cup complete \cup missed \cup swallowed \cup killed
            \cup unsettled)' \subseteq Migrations
    BY DEF IInv, TypeOK, StartFails, InOrder, data, agent, history, marks, Wrong
  <2>5. (keyed \cup stuck)' \subseteq Recipients /\ donorActive' \in BOOLEAN
        /\ activeAt' \in [Recipients -> {"none", "active", "inactive"}]
        /\ trigger' \in [Recipients -> {"on", "off"}] /\ job' \in [Recipients -> BOOLEAN]
    BY DEF IInv, TypeOK, Course, StartFails, InOrder, data, agent, history, marks, Wrong
  <2> QED BY <2>1, <2>2, <2>3, <2>4, <2>5, TwelveScripts DEF TypeOK, Typed, RunRecord
<1>2. \A n \in Migrations : Course(n)'
  BY <1>0, Scripted DEF IInv, TypeOK, Course, Stepped, StartFails, InOrder, data,
     agent, history, marks, Wrong
<1>3. (\A n \in Migrations : Copied(n)') /\ CopiedActive' /\ UsersKept'
  BY UsersApart DEF IInv, TypeOK, Course, StartFails, InOrder, data, history
<1>4. TriggerRestored'
  BY <1>0, TriggerApart DEF Stepped, StartFails, InOrder, agent, marks
<1> QED BY <1>1, <1>2, <1>3, <1>4 DEF IInv

LEMMA CreateLinkedServerStep ==
    ASSUME IInv, NEW m \in Migrations, CreateLinkedServer(m)
    PROVE  IInv'
<1>0. Stepped(m, "clear")
  BY Steppings DEF IInv, Steps, CreateLinkedServer
<1>1. TypeOK'
  <2>1. Typed(run')
    BY <1>0 DEF Stepped
  <2>2. item' \in [Migrations -> {"none", "Pending", "Success", "Failed"}]
        /\ to' \in [Migrations -> Recipients \cup {None}]
    BY DEF IInv, TypeOK, CreateLinkedServer, data, agent, history, marks, Wrong
  <2>3. session' \in [Migrations -> 0 .. Len(Script) + 1]
    BY Scripted DEF IInv, TypeOK, Positions, InSession, CreateLinkedServer, data,
       agent, history, marks, Wrong
  <2>4. (links \cup erred \cup asked \cup complete \cup missed \cup swallowed \cup killed
            \cup unsettled)' \subseteq Migrations
    BY DEF IInv, TypeOK, CreateLinkedServer, data, agent, history, marks, Wrong
  <2>5. (keyed \cup stuck)' \subseteq Recipients /\ donorActive' \in BOOLEAN
        /\ activeAt' \in [Recipients -> {"none", "active", "inactive"}]
        /\ trigger' \in [Recipients -> {"on", "off"}] /\ job' \in [Recipients -> BOOLEAN]
    BY DEF IInv, TypeOK, Course, CreateLinkedServer, data, agent, history, marks, Wrong
  <2> QED BY <2>1, <2>2, <2>3, <2>4, <2>5, TwelveScripts DEF TypeOK, Typed, RunRecord
<1>2. \A n \in Migrations : Course(n)'
  BY <1>0, Scripted DEF IInv, TypeOK, Course, Stepped, CreateLinkedServer, data,
     agent, history, marks, Wrong
<1>3. (\A n \in Migrations : Copied(n)') /\ CopiedActive' /\ UsersKept'
  BY UsersApart DEF IInv, TypeOK, Course, CreateLinkedServer, data, history
<1>4. TriggerRestored'
  BY <1>0, TriggerApart DEF Stepped, CreateLinkedServer, agent, marks
<1> QED BY <1>1, <1>2, <1>3, <1>4 DEF IInv

LEMMA DropProcedureStep ==
    ASSUME IInv, NEW m \in Migrations, DropProcedure(m)
    PROVE  IInv'
<1>0. Stepped(m, "create")
  BY Steppings DEF IInv, Steps, DropProcedure
<1>1. TypeOK'
  <2>1. Typed(run')
    BY <1>0 DEF Stepped
  <2>2. item' \in [Migrations -> {"none", "Pending", "Success", "Failed"}]
        /\ to' \in [Migrations -> Recipients \cup {None}]
    BY DEF IInv, TypeOK, DropProcedure, data, agent, history, marks, Wrong
  <2>3. session' \in [Migrations -> 0 .. Len(Script) + 1]
    BY Scripted DEF IInv, TypeOK, Positions, InSession, DropProcedure, data, agent,
       history, marks, Wrong
  <2>4. (links \cup erred \cup asked \cup complete \cup missed \cup swallowed \cup killed
            \cup unsettled)' \subseteq Migrations
    BY DEF IInv, TypeOK, DropProcedure, data, agent, history, marks, Wrong
  <2>5. (keyed \cup stuck)' \subseteq Recipients /\ donorActive' \in BOOLEAN
        /\ activeAt' \in [Recipients -> {"none", "active", "inactive"}]
        /\ trigger' \in [Recipients -> {"on", "off"}] /\ job' \in [Recipients -> BOOLEAN]
    BY DEF IInv, TypeOK, Course, DropProcedure, data, agent, history, marks, Wrong
  <2> QED BY <2>1, <2>2, <2>3, <2>4, <2>5, TwelveScripts DEF TypeOK, Typed, RunRecord
<1>2. \A n \in Migrations : Course(n)'
  BY <1>0, Scripted DEF IInv, TypeOK, Course, Stepped, DropProcedure, data, agent,
     history, marks, Wrong
<1>3. (\A n \in Migrations : Copied(n)') /\ CopiedActive' /\ UsersKept'
  BY UsersApart DEF IInv, TypeOK, Course, DropProcedure, data, history
<1>4. TriggerRestored'
  BY <1>0, TriggerApart DEF Stepped, DropProcedure, agent, marks
<1> QED BY <1>1, <1>2, <1>3, <1>4 DEF IInv

LEMMA CreateProcedureStep ==
    ASSUME IInv, NEW m \in Migrations, CreateProcedure(m)
    PROVE  IInv'
<1>0. Stepped(m, "clear") \/ Stepped(m, "disable") \/ Stepped(m, "fail")
  <2>1. CASE run' = [run EXCEPT ![m] = Fails(m)]
    BY <2>1, Installing, SetStep DEF IInv
  <2>2. CASE run' = [run EXCEPT ![m] = AfterInstall(m)]
    <3>1. Stepped(m, AfterInstall(m).pc)
      BY <2>2, Installing, SetStep DEF IInv
    <3> QED BY <3>1, Installing DEF IInv
  <2> QED BY <2>1, <2>2 DEF CreateProcedure
<1>1. TypeOK'
  <2>1. Typed(run')
    BY <1>0 DEF Stepped
  <2>2. item' \in [Migrations -> {"none", "Pending", "Success", "Failed"}]
        /\ to' \in [Migrations -> Recipients \cup {None}]
    BY DEF IInv, TypeOK, CreateProcedure, data, agent, history, marks, Wrong
  <2>3. session' \in [Migrations -> 0 .. Len(Script) + 1]
    BY Scripted DEF IInv, TypeOK, Positions, InSession, CreateProcedure, data,
       agent, history, marks, Wrong
  <2>4. (links \cup erred \cup asked \cup complete \cup missed \cup swallowed \cup killed
            \cup unsettled)' \subseteq Migrations
    BY DEF IInv, TypeOK, CreateProcedure, data, agent, history, marks, Wrong
  <2>5. (keyed \cup stuck)' \subseteq Recipients /\ donorActive' \in BOOLEAN
        /\ activeAt' \in [Recipients -> {"none", "active", "inactive"}]
        /\ trigger' \in [Recipients -> {"on", "off"}] /\ job' \in [Recipients -> BOOLEAN]
    BY DEF IInv, TypeOK, Course, CreateProcedure, data, agent, history, marks, Wrong
  <2> QED BY <2>1, <2>2, <2>3, <2>4, <2>5, TwelveScripts DEF TypeOK, Typed, RunRecord
<1>2. \A n \in Migrations : Course(n)'
  BY <1>0, Scripted DEF IInv, TypeOK, Course, Stepped, CreateProcedure, data, agent,
     history, marks, Wrong
<1>3. (\A n \in Migrations : Copied(n)') /\ CopiedActive' /\ UsersKept'
  BY UsersApart DEF IInv, TypeOK, Course, CreateProcedure, data, history
<1>4. TriggerRestored'
  BY <1>0, TriggerApart DEF Stepped, CreateProcedure, agent, marks
<1> QED BY <1>1, <1>2, <1>3, <1>4 DEF IInv

LEMMA DisableTriggerStep ==
    ASSUME IInv, NEW m \in Migrations, DisableTrigger(m)
    PROVE  IInv'
<1>0. Stepped(m, "schedule") \/ Stepped(m, "fail")
  BY Steppings DEF IInv, Steps, DisableTrigger
<1>1. TypeOK'
  <2>1. Typed(run')
    BY <1>0 DEF Stepped
  <2>2. item' \in [Migrations -> {"none", "Pending", "Success", "Failed"}]
        /\ to' \in [Migrations -> Recipients \cup {None}]
    BY DEF IInv, TypeOK, DisableTrigger, data, agent, history, marks, Wrong
  <2>3. session' \in [Migrations -> 0 .. Len(Script) + 1]
    BY Scripted DEF IInv, TypeOK, Positions, InSession, DisableTrigger, data, agent,
       history, marks, Wrong
  <2>4. (links \cup erred \cup asked \cup complete \cup missed \cup swallowed \cup killed
            \cup unsettled)' \subseteq Migrations
    BY DEF IInv, TypeOK, DisableTrigger, data, agent, history, marks, Wrong
  <2>5. (keyed \cup stuck)' \subseteq Recipients /\ donorActive' \in BOOLEAN
        /\ activeAt' \in [Recipients -> {"none", "active", "inactive"}]
        /\ trigger' \in [Recipients -> {"on", "off"}] /\ job' \in [Recipients -> BOOLEAN]
    BY DEF IInv, TypeOK, Course, DisableTrigger, data, agent, history, marks, Wrong
  <2> QED BY <2>1, <2>2, <2>3, <2>4, <2>5, TwelveScripts DEF TypeOK, Typed, RunRecord
<1>2. \A n \in Migrations : Course(n)'
  BY <1>0, Scripted DEF IInv, TypeOK, Course, Stepped, DisableTrigger, data, agent,
     history, marks, Wrong
<1>3. (\A n \in Migrations : Copied(n)') /\ CopiedActive' /\ UsersKept'
  BY UsersApart DEF IInv, TypeOK, Course, DisableTrigger, data, history
<1>4. TriggerRestored'
  <2>1. CASE <<to[m], "AuditOutboxTrigger">> \in procs
    <3>1. Stepped(m, "schedule")
      BY <2>1, Steppings DEF IInv, DisableTrigger, Steps
    <3>2. \A r \in Recipients : r # to[m] => trigger'[r] = trigger[r]
      BY <2>1 DEF IInv, TypeOK, DisableTrigger
    <3>3. \A n \in Migrations : run[n].pc = "schedule" => run'[n].pc = "schedule"
      BY <3>1 DEF Stepped, DisableTrigger
    <3>4. run'[m].pc = "schedule"
      BY <3>1 DEF Stepped
    <3> QED BY <3>2, <3>3, <3>4 DEF IInv, TriggerRestored, DisableTrigger, marks
  <2>2. CASE <<to[m], "AuditOutboxTrigger">> \notin procs
    BY <1>0, <2>2, TriggerApart DEF DisableTrigger, Stepped, agent, marks
  <2> QED BY <2>1, <2>2
<1> QED BY <1>1, <1>2, <1>3, <1>4 DEF IInv

LEMMA ScheduleJobStep ==
    ASSUME IInv, NEW m \in Migrations, ScheduleJob(m)
    PROVE  IInv'
<1>0. Stepped(m, "execute")
  BY Steppings DEF IInv, Steps, ScheduleJob
<1>1. TypeOK'
  <2>1. Typed(run')
    BY <1>0 DEF Stepped
  <2>2. item' \in [Migrations -> {"none", "Pending", "Success", "Failed"}]
        /\ to' \in [Migrations -> Recipients \cup {None}]
    BY DEF IInv, TypeOK, ScheduleJob, data, agent, history, marks, Wrong
  <2>3. session' \in [Migrations -> 0 .. Len(Script) + 1]
    BY Scripted DEF IInv, TypeOK, Positions, InSession, ScheduleJob, data, agent,
       history, marks, Wrong
  <2>4. (links \cup erred \cup asked \cup complete \cup missed \cup swallowed \cup killed
            \cup unsettled)' \subseteq Migrations
    BY DEF IInv, TypeOK, ScheduleJob, data, agent, history, marks, Wrong
  <2>5. (keyed \cup stuck)' \subseteq Recipients /\ donorActive' \in BOOLEAN
        /\ activeAt' \in [Recipients -> {"none", "active", "inactive"}]
        /\ trigger' \in [Recipients -> {"on", "off"}] /\ job' \in [Recipients -> BOOLEAN]
    BY DEF IInv, TypeOK, Course, ScheduleJob, data, agent, history, marks, Wrong
  <2> QED BY <2>1, <2>2, <2>3, <2>4, <2>5, TwelveScripts DEF TypeOK, Typed, RunRecord
<1>2. \A n \in Migrations : Course(n)'
  BY <1>0, Scripted DEF IInv, TypeOK, Course, Stepped, ScheduleJob, data, agent,
     history, marks, Wrong
<1>3. (\A n \in Migrations : Copied(n)') /\ CopiedActive' /\ UsersKept'
  BY UsersApart DEF IInv, TypeOK, Course, ScheduleJob, data, history
<1>4. TriggerRestored'
  BY <1>0 DEF IInv, TypeOK, Course, Stepped, TriggerRestored, ScheduleJob, agent,
     marks, Wrong
<1> QED BY <1>1, <1>2, <1>3, <1>4 DEF IInv

LEMMA EnableTriggerStep ==
    ASSUME IInv, NEW r \in Recipients, EnableTrigger(r)
    PROVE  IInv'
<1>0. run' = run /\ Typed(run)
  <2>1. run' = run
    BY DEF EnableTrigger
  <2> QED BY <2>1, TwelveScripts DEF IInv, TypeOK, Typed, RunRecord
<1>1. TypeOK'
  <2>1. Typed(run')
    BY <1>0 DEF Stepped
  <2>2. item' \in [Migrations -> {"none", "Pending", "Success", "Failed"}]
        /\ to' \in [Migrations -> Recipients \cup {None}]
    BY DEF IInv, TypeOK, EnableTrigger, data, agent, history, marks, Wrong
  <2>3. session' \in [Migrations -> 0 .. Len(Script) + 1]
    BY Scripted DEF IInv, TypeOK, Positions, InSession, EnableTrigger, data, agent,
       history, marks, Wrong
  <2>4. (links \cup erred \cup asked \cup complete \cup missed \cup swallowed \cup killed
            \cup unsettled)' \subseteq Migrations
    BY DEF IInv, TypeOK, EnableTrigger, data, agent, history, marks, Wrong
  <2>5. (keyed \cup stuck)' \subseteq Recipients /\ donorActive' \in BOOLEAN
        /\ activeAt' \in [Recipients -> {"none", "active", "inactive"}]
        /\ trigger' \in [Recipients -> {"on", "off"}] /\ job' \in [Recipients -> BOOLEAN]
    BY DEF IInv, TypeOK, Course, EnableTrigger, data, agent, history, marks, Wrong
  <2> QED BY <2>1, <2>2, <2>3, <2>4, <2>5, TwelveScripts DEF TypeOK, Typed, RunRecord
<1>2. \A n \in Migrations : Course(n)'
  BY <1>0, Scripted DEF IInv, TypeOK, Course, Stepped, EnableTrigger, data, agent,
     history, marks, Wrong
<1>3. (\A n \in Migrations : Copied(n)') /\ CopiedActive' /\ UsersKept'
  BY UsersApart DEF IInv, TypeOK, Course, EnableTrigger, data, history
<1>4. TriggerRestored'
  BY <1>0 DEF IInv, TypeOK, Course, Stepped, TriggerRestored, EnableTrigger, agent,
     marks, Wrong
<1> QED BY <1>1, <1>2, <1>3, <1>4 DEF IInv

LEMMA ExecuteStep ==
    ASSUME IInv, NEW m \in Migrations, Execute(m)
    PROVE  IInv'
<1>0. Stepped(m, "await")
  BY Steppings DEF IInv, Steps, Execute
<1>1. TypeOK'
  <2>1. Typed(run')
    BY <1>0 DEF Stepped
  <2>2. item' \in [Migrations -> {"none", "Pending", "Success", "Failed"}]
        /\ to' \in [Migrations -> Recipients \cup {None}]
    BY DEF IInv, TypeOK, Execute, data, agent, history, marks, Wrong
  <2>3. session' \in [Migrations -> 0 .. Len(Script) + 1]
    BY Scripted DEF IInv, TypeOK, Positions, InSession, Execute, data, agent,
       history, marks, Wrong
  <2>4. (links \cup erred \cup asked \cup complete \cup missed \cup swallowed \cup killed
            \cup unsettled)' \subseteq Migrations
    BY DEF IInv, TypeOK, Execute, data, agent, history, marks, Wrong
  <2>5. (keyed \cup stuck)' \subseteq Recipients /\ donorActive' \in BOOLEAN
        /\ activeAt' \in [Recipients -> {"none", "active", "inactive"}]
        /\ trigger' \in [Recipients -> {"on", "off"}] /\ job' \in [Recipients -> BOOLEAN]
    BY DEF IInv, TypeOK, Course, Execute, data, agent, history, marks, Wrong
  <2> QED BY <2>1, <2>2, <2>3, <2>4, <2>5, TwelveScripts DEF TypeOK, Typed, RunRecord
<1>2. \A n \in Migrations : Course(n)'
  BY <1>0, Scripted DEF IInv, TypeOK, Course, Stepped, Execute, data, agent, history,
     marks, Wrong
<1>3. (\A n \in Migrations : Copied(n)') /\ CopiedActive' /\ UsersKept'
  <2>1. CopiedActive' /\ UsersKept'
    BY DEF IInv, CopiedActive, UsersKept, Execute, data
  <2>2. \A n \in Migrations : Copied(n)'
    BY Scripted DEF IInv, TypeOK, Copied, InSession, Positions, Execute, data
  <2> QED BY <2>1, <2>2
<1>4. TriggerRestored'
  BY <1>0, TriggerApart DEF Stepped, Execute, agent, marks
<1> QED BY <1>1, <1>2, <1>3, <1>4 DEF IInv

LEMMA PassOverStep ==
    ASSUME IInv, NEW m \in Migrations, PassOver(m)
    PROVE  IInv'
<1>0. run' = run /\ Typed(run)
  <2>1. run' = run
    BY DEF PassOver
  <2> QED BY <2>1, TwelveScripts DEF IInv, TypeOK, Typed, RunRecord
<1>1. TypeOK'
  <2>1. Typed(run')
    BY <1>0 DEF Stepped
  <2>2. item' \in [Migrations -> {"none", "Pending", "Success", "Failed"}]
        /\ to' \in [Migrations -> Recipients \cup {None}]
    BY DEF IInv, TypeOK, PassOver, data, agent, history, marks, Wrong
  <2>3. session' \in [Migrations -> 0 .. Len(Script) + 1]
    BY Scripted DEF IInv, TypeOK, Positions, InSession, PassOver, data, agent,
       history, marks, Wrong
  <2>4. (links \cup erred \cup asked \cup complete \cup missed \cup swallowed \cup killed
            \cup unsettled)' \subseteq Migrations
    BY DEF IInv, TypeOK, PassOver, data, agent, history, marks, Wrong
  <2>5. (keyed \cup stuck)' \subseteq Recipients /\ donorActive' \in BOOLEAN
        /\ activeAt' \in [Recipients -> {"none", "active", "inactive"}]
        /\ trigger' \in [Recipients -> {"on", "off"}] /\ job' \in [Recipients -> BOOLEAN]
    BY DEF IInv, TypeOK, Course, PassOver, data, agent, history, marks, Wrong
  <2> QED BY <2>1, <2>2, <2>3, <2>4, <2>5, TwelveScripts DEF TypeOK, Typed, RunRecord
<1>2. \A n \in Migrations : Course(n)'
  <2>1. session[m] # 0 /\ m \in erred'
    BY Scripted DEF PassOver, InSession, Positions
  <2>2. \A n \in Migrations \ {m} : session'[n] = session[n] /\ (n \in erred' <=> n \in erred) /\ (n \in missed' <=> n \in missed)
    BY DEF PassOver, IInv, TypeOK, history
  <2>3. to' = to /\ item' = item /\ asked' = asked /\ complete' = complete /\ swallowed' = swallowed
    BY DEF PassOver, history, marks
  <2> QED BY <1>0, <2>1, <2>2, <2>3 DEF IInv, Course
<1>3. (\A n \in Migrations : Copied(n)') /\ CopiedActive' /\ UsersKept'
  <2>1. CopiedActive' /\ UsersKept'
    BY DEF IInv, CopiedActive, UsersKept, PassOver, data, history
  <2>2. \A n \in Migrations : Copied(n)'
    BY Scripted DEF IInv, TypeOK, Copied, InSession, Positions, PassOver, data, history
  <2> QED BY <2>1, <2>2
<1>4. TriggerRestored'
  BY <1>0, TriggerApart DEF Stepped, PassOver, agent, marks
<1> QED BY <1>1, <1>2, <1>3, <1>4 DEF IInv

LEMMA LinkMissingStep ==
    ASSUME IInv, NEW m \in Migrations, LinkMissing(m)
    PROVE  IInv'
<1>0. run' = run /\ Typed(run)
  <2>1. run' = run
    BY DEF LinkMissing
  <2> QED BY <2>1, TwelveScripts DEF IInv, TypeOK, Typed, RunRecord
<1>1. TypeOK'
  <2>1. Typed(run')
    BY <1>0 DEF Stepped
  <2>2. item' \in [Migrations -> {"none", "Pending", "Success", "Failed"}]
        /\ to' \in [Migrations -> Recipients \cup {None}]
    BY DEF IInv, TypeOK, LinkMissing, data, agent, history, marks, Wrong
  <2>3. session' \in [Migrations -> 0 .. Len(Script) + 1]
    BY Scripted DEF IInv, TypeOK, Positions, InSession, LinkMissing, data, agent,
       history, marks, Wrong
  <2>4. (links \cup erred \cup asked \cup complete \cup missed \cup swallowed \cup killed
            \cup unsettled)' \subseteq Migrations
    BY DEF IInv, TypeOK, LinkMissing, data, agent, history, marks, Wrong
  <2>5. (keyed \cup stuck)' \subseteq Recipients /\ donorActive' \in BOOLEAN
        /\ activeAt' \in [Recipients -> {"none", "active", "inactive"}]
        /\ trigger' \in [Recipients -> {"on", "off"}] /\ job' \in [Recipients -> BOOLEAN]
    BY DEF IInv, TypeOK, Course, LinkMissing, data, agent, history, marks, Wrong
  <2> QED BY <2>1, <2>2, <2>3, <2>4, <2>5, TwelveScripts DEF TypeOK, Typed, RunRecord
<1>2. \A n \in Migrations : Course(n)'
  <2>1. session[m] # 0 /\ m \in erred'
    BY Scripted DEF LinkMissing, InSession, Positions
  <2>2. \A n \in Migrations \ {m} : session'[n] = session[n] /\ (n \in erred' <=> n \in erred) /\ (n \in missed' <=> n \in missed)
    BY DEF LinkMissing, IInv, TypeOK, history
  <2>3. to' = to /\ item' = item /\ asked' = asked /\ complete' = complete /\ swallowed' = swallowed
    BY DEF LinkMissing, history, marks
  <2> QED BY <1>0, <2>1, <2>2, <2>3 DEF IInv, Course
<1>3. (\A n \in Migrations : Copied(n)') /\ CopiedActive' /\ UsersKept'
  <2>1. CopiedActive' /\ UsersKept'
    BY DEF IInv, CopiedActive, UsersKept, LinkMissing, data, history
  <2>2. \A n \in Migrations : Copied(n)'
    BY Scripted DEF IInv, TypeOK, Copied, InSession, Positions, LinkMissing, data, history
  <2> QED BY <2>1, <2>2
<1>4. TriggerRestored'
  BY <1>0, TriggerApart DEF Stepped, LinkMissing, agent, marks
<1> QED BY <1>1, <1>2, <1>3, <1>4 DEF IInv

LEMMA StatementFailsStep ==
    ASSUME IInv, NEW m \in Migrations, StatementFails(m)
    PROVE  IInv'
<1>0. run' = run /\ Typed(run)
  <2>1. run' = run
    BY DEF StatementFails
  <2> QED BY <2>1, TwelveScripts DEF IInv, TypeOK, Typed, RunRecord
<1>1. TypeOK'
  <2>1. Typed(run')
    BY <1>0 DEF Stepped
  <2>2. item' \in [Migrations -> {"none", "Pending", "Success", "Failed"}]
        /\ to' \in [Migrations -> Recipients \cup {None}]
    BY DEF IInv, TypeOK, StatementFails, data, agent, history, marks, Wrong
  <2>3. session' \in [Migrations -> 0 .. Len(Script) + 1]
    BY Scripted DEF IInv, TypeOK, Positions, InSession, StatementFails, data, agent,
       history, marks, Wrong
  <2>4. (links \cup erred \cup asked \cup complete \cup missed \cup swallowed \cup killed
            \cup unsettled)' \subseteq Migrations
    BY DEF IInv, TypeOK, StatementFails, data, agent, history, marks, Wrong
  <2>5. (keyed \cup stuck)' \subseteq Recipients /\ donorActive' \in BOOLEAN
        /\ activeAt' \in [Recipients -> {"none", "active", "inactive"}]
        /\ trigger' \in [Recipients -> {"on", "off"}] /\ job' \in [Recipients -> BOOLEAN]
    BY DEF IInv, TypeOK, Course, StatementFails, data, agent, history, marks, Wrong
  <2> QED BY <2>1, <2>2, <2>3, <2>4, <2>5, TwelveScripts DEF TypeOK, Typed, RunRecord
<1>2. \A n \in Migrations : Course(n)'
  <2>1. session[m] # 0 /\ m \in erred'
    BY Scripted DEF StatementFails, InSession, Positions
  <2>2. \A n \in Migrations \ {m} : session'[n] = session[n] /\ (n \in erred' <=> n \in erred) /\ (n \in missed' <=> n \in missed)
    BY DEF StatementFails, IInv, TypeOK, history
  <2>3. to' = to /\ item' = item /\ asked' = asked /\ complete' = complete /\ swallowed' = swallowed
    BY DEF StatementFails, history, marks
  <2> QED BY <1>0, <2>1, <2>2, <2>3 DEF IInv, Course
<1>3. (\A n \in Migrations : Copied(n)') /\ CopiedActive' /\ UsersKept'
  <2>1. CopiedActive' /\ UsersKept'
    BY DEF IInv, CopiedActive, UsersKept, StatementFails, data, history
  <2>2. \A n \in Migrations : Copied(n)'
    BY Scripted DEF IInv, TypeOK, Copied, InSession, Positions, StatementFails,
       data, history
  <2> QED BY <2>1, <2>2
<1>4. TriggerRestored'
  BY <1>0, TriggerApart DEF Stepped, StatementFails, agent, marks
<1> QED BY <1>1, <1>2, <1>3, <1>4 DEF IInv

LEMMA AnswerStep ==
    ASSUME IInv, NEW m \in Migrations, Answer(m)
    PROVE  IInv'
<1>0. \/ run' = run /\ Typed(run)
      \/ m \in erred /\ run[m].pc = "await" /\ Stepped(m, "fail")
      \/ m \notin erred /\ run[m].pc = "await" /\ Stepped(m, "succeed")
  <2>1. CASE run[m].pc # "await"
    BY <2>1, TwelveScripts DEF Answer, IInv, TypeOK, Typed, RunRecord
  <2>2. CASE run[m].pc = "await" /\ m \in erred
    BY <2>2, Steppings DEF Answer, Goto, IInv, Steps
  <2>3. CASE run[m].pc = "await" /\ m \notin erred
    BY <2>3, Steppings DEF Answer, Goto, IInv, Steps
  <2> QED BY <2>1, <2>2, <2>3
<1>1. TypeOK'
  <2>1. Typed(run')
    BY <1>0 DEF Stepped
  <2> QED BY <2>1, Scripted, TwelveScripts DEF IInv, TypeOK, Typed, RunRecord, Answer,
       data, agent, history, marks
<1>2. \A n \in Migrations : Course(n)'
  BY <1>0, Scripted DEF IInv, TypeOK, Course, Stepped, Answer, history, marks
<1>3. (\A n \in Migrations : Copied(n)') /\ CopiedActive' /\ UsersKept'
  <2>1. CopiedActive' /\ UsersKept'
    BY DEF IInv, CopiedActive, UsersKept, Answer, data, history
  <2>2. \A n \in Migrations : Copied(n)'
    BY Scripted DEF IInv, TypeOK, Copied, InSession, Positions, Answer, data, history
  <2> QED BY <2>1, <2>2
<1>4. TriggerRestored'
  BY <1>0, TriggerApart DEF Stepped, Answer, agent, marks
<1> QED BY <1>1, <1>2, <1>3, <1>4 DEF IInv

LEMMA RunStatementStep ==
    ASSUME IInv, NEW m \in Migrations, RunStatement(m)
    PROVE  IInv'
<1> DEFINE st == Statement(m).do
           r == to[m]
<1>0. run' = run /\ Typed(run)
  <2>1. run' = run
    BY DEF RunStatement
  <2> QED BY <2>1, TwelveScripts DEF IInv, TypeOK, Typed, RunRecord
<1>a. /\ session[m] \in 1 .. Len(Script) /\ Script[session[m]].do = st
      /\ session' = [session EXCEPT ![m] = session[m] + 1]
  BY DEF RunStatement, InSession, Positions, Statement
<1>b. r \in Recipients
  BY <1>a, Scripted DEF IInv, Course
<1>c. /\ missed' = missed /\ to' = to
      /\ activeAt' = IF st.kind = "missing" /\ activeAt[r] = "none"
                     THEN [activeAt EXCEPT ![r] = IF donorActive THEN "active" ELSE "inactive"]
                     ELSE activeAt
      /\ donorActive' = (donorActive /\ st.kind # "inactivate")
  BY DEF RunStatement
<1>d. /\ \A q \in Recipients : q # r => activeAt'[q] = activeAt[q]
      /\ activeAt[r] # "none" => activeAt'[r] = activeAt[r]
      /\ st.kind = "missing" => activeAt'[r] # "none"
      /\ activeAt[r] = "none" => \/ activeAt'[r] = "none" \/ (donorActive /\ activeAt'[r] = "active")
                                \/ (~ donorActive /\ activeAt'[r] = "inactive")
  <2> HIDE DEF st, r
  <2>1. CASE st.kind = "missing" /\ activeAt[r] = "none"
    BY <1>b, <1>c, <2>1 DEF IInv, TypeOK
  <2>2. CASE ~ (st.kind = "missing" /\ activeAt[r] = "none")
    BY <1>c, <2>2
  <2> QED BY <2>1, <2>2
<1>1. TypeOK'
  <2>1. session' \in [Migrations -> 0 .. Len(Script) + 1]
    BY <1>a, Scripted DEF IInv, TypeOK
  <2>2. donorActive' \in BOOLEAN
    BY <1>c DEF IInv, TypeOK
  <2>3. activeAt' \in [Recipients -> {"none", "active", "inactive"}]
    BY <1>b, <1>c DEF IInv, TypeOK
  <2>4. keyed' \cup stuck' \subseteq Recipients
    BY <1>b DEF RunStatement, IInv, TypeOK, marks
  <2>5. (links \cup erred \cup asked \cup complete \cup missed \cup swallowed \cup killed
            \cup unsettled)' \subseteq Migrations
    BY DEF RunStatement, IInv, TypeOK, marks
  <2> QED BY <1>0, <2>1, <2>2, <2>3, <2>4, <2>5 DEF IInv, TypeOK, RunStatement, agent
<1>2. \A n \in Migrations : Course(n)'
  <2>1. /\ asked' = asked /\ erred' = erred /\ swallowed' = swallowed /\ item' = item
        /\ complete' = IF session[m] = Len(Script) /\ m \notin missed
                       THEN complete \cup {m} ELSE complete
    BY DEF RunStatement, marks
  <2>2. \A n \in Migrations \ {m} : Course(n)'
    BY <1>0, <1>a, <1>c, <2>1 DEF IInv, Course
  <2>3. Course(m)'
    BY <1>0, <1>a, <1>c, <2>1, Scripted DEF IInv, TypeOK, Course
  <2> QED BY <2>2, <2>3
<1>3. (\A n \in Migrations : Copied(n)') /\ CopiedActive' /\ UsersKept'
  <2>1. CopiedActive'
    BY <1>b, <1>c, <1>d DEF IInv, CopiedActive
  <2>2. ASSUME NEW n \in Migrations, missed = {}, InSession(n)',
               NEW p \in 1 .. session'[n] - 1, Script[p].do.kind = "missing"
        PROVE  activeAt'[to[n]] # "none"
    <3>1. CASE n # m
      <4>1. session'[n] = session[n] /\ InSession(n)
        BY <1>a, <2>2, <3>1 DEF IInv, TypeOK, InSession
      <4>2. activeAt[to[n]] # "none"
        BY <2>2, <4>1 DEF IInv, Copied
      <4>3. to[n] \in Recipients
        BY <4>1, Scripted DEF IInv, Course, InSession, Positions
      <4> QED BY <1>d, <4>2, <4>3
    <3>2. CASE n = m /\ p = session[m]
      BY <1>a, <1>d, <2>2, <3>2
    <3>3. CASE n = m /\ p # session[m]
      <4>1. session'[m] = session[m] + 1
        BY <1>a DEF IInv, TypeOK
      <4>2. p \in 1 .. session[m] - 1
        BY <1>a, <2>2, <3>3, <4>1
      <4>3. activeAt[r] # "none"
        BY <1>a, <2>2, <3>3, <4>2 DEF IInv, Copied, InSession, Positions
      <4> QED BY <1>d, <3>3, <4>3
    <3> QED BY <3>1, <3>2, <3>3
  <2>3. \A n \in Migrations : Copied(n)'
    BY <1>c, <2>2 DEF Copied
  <2>4. UsersKept'
    <3>1. CASE ~ donorActive
      BY <1>b, <1>c, <1>d, <3>1 DEF IInv, UsersKept
    <3>2. CASE donorActive /\ st.kind # "inactivate"
      BY <1>c, <3>2 DEF UsersKept
    <3>3. CASE donorActive /\ st.kind = "inactivate"
      <4>1. PICK p \in 1 .. session[m] - 1 : Script[p].do.kind = "missing"
        BY <1>a, <3>3, ScriptGuarded DEF Guarded
      <4>2. missed = {} => activeAt[r] # "none"
        BY <1>a, <4>1 DEF IInv, Copied, InSession, Positions
      <4>3. missed = {} => activeAt[r] = "active"
        BY <1>b, <3>3, <4>2 DEF IInv, TypeOK, CopiedActive
      <4> QED BY <1>b, <1>c, <1>d, <4>3 DEF UsersKept
    <3> QED BY <3>1, <3>2, <3>3
  <2> QED BY <2>1, <2>3, <2>4
<1>4. TriggerRestored'
  BY <1>0, TriggerApart DEF RunStatement, agent, marks
<1> QED BY <1>1, <1>2, <1>3, <1>4 DEF IInv

LEMMA SetSuccessStep ==
    ASSUME IInv, NEW m \in Migrations, SetSuccess(m)
    PROVE  IInv'
<1>0. Stepped(m, "unlink")
  BY Steppings DEF IInv, Steps, SetSuccess
<1>1. TypeOK'
  <2>1. Typed(run')
    BY <1>0 DEF Stepped
  <2>2. item' \in [Migrations -> {"none", "Pending", "Success", "Failed"}]
        /\ to' \in [Migrations -> Recipients \cup {None}]
    BY DEF IInv, TypeOK, SetSuccess, data, agent, history, marks, Wrong
  <2>3. session' \in [Migrations -> 0 .. Len(Script) + 1]
    BY Scripted DEF IInv, TypeOK, Positions, InSession, SetSuccess, data, agent,
       history, marks, Wrong
  <2>4. (links \cup erred \cup asked \cup complete \cup missed \cup swallowed \cup killed
            \cup unsettled)' \subseteq Migrations
    BY DEF IInv, TypeOK, SetSuccess, data, agent, history, marks, Wrong
  <2>5. (keyed \cup stuck)' \subseteq Recipients /\ donorActive' \in BOOLEAN
        /\ activeAt' \in [Recipients -> {"none", "active", "inactive"}]
        /\ trigger' \in [Recipients -> {"on", "off"}] /\ job' \in [Recipients -> BOOLEAN]
    BY DEF IInv, TypeOK, Course, SetSuccess, data, agent, history, marks, Wrong
  <2> QED BY <2>1, <2>2, <2>3, <2>4, <2>5, TwelveScripts DEF TypeOK, Typed, RunRecord
<1>2. \A n \in Migrations : Course(n)'
  BY <1>0, Scripted DEF IInv, TypeOK, Course, Stepped, SetSuccess, data, agent,
     history, marks, Wrong
<1>3. (\A n \in Migrations : Copied(n)') /\ CopiedActive' /\ UsersKept'
  BY UsersApart DEF IInv, TypeOK, Course, SetSuccess, data, history
<1>4. TriggerRestored'
  BY <1>0, TriggerApart DEF Stepped, SetSuccess, agent, marks
<1> QED BY <1>1, <1>2, <1>3, <1>4 DEF IInv

LEMMA SetFailedStep ==
    ASSUME IInv, NEW m \in Migrations, SetFailed(m)
    PROVE  IInv'
<1>0. Stepped(m, "unlink")
  BY Steppings DEF IInv, Steps, SetFailed
<1>1. TypeOK'
  <2>1. Typed(run')
    BY <1>0 DEF Stepped
  <2>2. item' \in [Migrations -> {"none", "Pending", "Success", "Failed"}]
        /\ to' \in [Migrations -> Recipients \cup {None}]
    BY DEF IInv, TypeOK, SetFailed, data, agent, history, marks, Wrong
  <2>3. session' \in [Migrations -> 0 .. Len(Script) + 1]
    BY Scripted DEF IInv, TypeOK, Positions, InSession, SetFailed, data, agent,
       history, marks, Wrong
  <2>4. (links \cup erred \cup asked \cup complete \cup missed \cup swallowed \cup killed
            \cup unsettled)' \subseteq Migrations
    BY DEF IInv, TypeOK, SetFailed, data, agent, history, marks, Wrong
  <2>5. (keyed \cup stuck)' \subseteq Recipients /\ donorActive' \in BOOLEAN
        /\ activeAt' \in [Recipients -> {"none", "active", "inactive"}]
        /\ trigger' \in [Recipients -> {"on", "off"}] /\ job' \in [Recipients -> BOOLEAN]
    BY DEF IInv, TypeOK, Course, SetFailed, data, agent, history, marks, Wrong
  <2> QED BY <2>1, <2>2, <2>3, <2>4, <2>5, TwelveScripts DEF TypeOK, Typed, RunRecord
<1>2. \A n \in Migrations : Course(n)'
  BY <1>0, Scripted DEF IInv, TypeOK, Course, Stepped, SetFailed, data, agent,
     history, marks, Wrong
<1>3. (\A n \in Migrations : Copied(n)') /\ CopiedActive' /\ UsersKept'
  BY UsersApart DEF IInv, TypeOK, Course, SetFailed, data, history
<1>4. TriggerRestored'
  BY <1>0, TriggerApart DEF Stepped, SetFailed, agent, marks
<1> QED BY <1>1, <1>2, <1>3, <1>4 DEF IInv

LEMMA DropLinkedServerStep ==
    ASSUME IInv, NEW m \in Migrations, DropLinkedServer(m)
    PROVE  IInv'
<1>0. Stepped(m, "ended")
  BY Steppings DEF IInv, Steps, DropLinkedServer
<1>1. TypeOK'
  <2>1. Typed(run')
    BY <1>0 DEF Stepped
  <2>2. item' \in [Migrations -> {"none", "Pending", "Success", "Failed"}]
        /\ to' \in [Migrations -> Recipients \cup {None}]
    BY DEF IInv, TypeOK, DropLinkedServer, data, agent, history, marks, Wrong
  <2>3. session' \in [Migrations -> 0 .. Len(Script) + 1]
    BY Scripted DEF IInv, TypeOK, Positions, InSession, DropLinkedServer, data,
       agent, history, marks, Wrong
  <2>4. (links \cup erred \cup asked \cup complete \cup missed \cup swallowed \cup killed
            \cup unsettled)' \subseteq Migrations
    BY DEF IInv, TypeOK, DropLinkedServer, data, agent, history, marks, Wrong
  <2>5. (keyed \cup stuck)' \subseteq Recipients /\ donorActive' \in BOOLEAN
        /\ activeAt' \in [Recipients -> {"none", "active", "inactive"}]
        /\ trigger' \in [Recipients -> {"on", "off"}] /\ job' \in [Recipients -> BOOLEAN]
    BY DEF IInv, TypeOK, Course, DropLinkedServer, data, agent, history, marks, Wrong
  <2> QED BY <2>1, <2>2, <2>3, <2>4, <2>5, TwelveScripts DEF TypeOK, Typed, RunRecord
<1>2. \A n \in Migrations : Course(n)'
  BY <1>0, Scripted DEF IInv, TypeOK, Course, Stepped, DropLinkedServer, data, agent,
     history, marks, Wrong
<1>3. (\A n \in Migrations : Copied(n)') /\ CopiedActive' /\ UsersKept'
  BY UsersApart DEF IInv, TypeOK, Course, DropLinkedServer, data, history
<1>4. TriggerRestored'
  BY <1>0, TriggerApart DEF Stepped, DropLinkedServer, agent, marks
<1> QED BY <1>1, <1>2, <1>3, <1>4 DEF IInv

LEMMA AnswerLostStep ==
    ASSUME IInv, NEW m \in Migrations, AnswerLost(m)
    PROVE  IInv'
<1>0. Stepped(m, "fail")
  BY Steppings DEF IInv, Steps, AnswerLost
<1>1. TypeOK'
  <2>1. Typed(run')
    BY <1>0 DEF Stepped
  <2>2. item' \in [Migrations -> {"none", "Pending", "Success", "Failed"}]
        /\ to' \in [Migrations -> Recipients \cup {None}]
    BY DEF IInv, TypeOK, AnswerLost, data, agent, history, marks, Wrong
  <2>3. session' \in [Migrations -> 0 .. Len(Script) + 1]
    BY Scripted DEF IInv, TypeOK, Positions, InSession, AnswerLost, data, agent,
       history, marks, Wrong
  <2>4. (links \cup erred \cup asked \cup complete \cup missed \cup swallowed \cup killed
            \cup unsettled)' \subseteq Migrations
    BY DEF IInv, TypeOK, AnswerLost, data, agent, history, marks, Wrong
  <2>5. (keyed \cup stuck)' \subseteq Recipients /\ donorActive' \in BOOLEAN
        /\ activeAt' \in [Recipients -> {"none", "active", "inactive"}]
        /\ trigger' \in [Recipients -> {"on", "off"}] /\ job' \in [Recipients -> BOOLEAN]
    BY DEF IInv, TypeOK, Course, AnswerLost, data, agent, history, marks, Wrong
  <2> QED BY <2>1, <2>2, <2>3, <2>4, <2>5, TwelveScripts DEF TypeOK, Typed, RunRecord
<1>2. \A n \in Migrations : Course(n)'
  BY <1>0, Scripted DEF IInv, TypeOK, Course, Stepped, AnswerLost, data, agent,
     history, marks, Wrong
<1>3. (\A n \in Migrations : Copied(n)') /\ CopiedActive' /\ UsersKept'
  BY UsersApart DEF IInv, TypeOK, Course, AnswerLost, data, history
<1>4. TriggerRestored'
  BY <1>0, TriggerApart DEF Stepped, AnswerLost, agent, marks
<1> QED BY <1>1, <1>2, <1>3, <1>4 DEF IInv

LEMMA UnlinkFailsStep ==
    ASSUME IInv, NEW m \in Migrations, UnlinkFails(m)
    PROVE  IInv'
<1>0. Stepped(m, "ended")
  BY Steppings DEF IInv, Steps, UnlinkFails
<1>1. TypeOK'
  <2>1. Typed(run')
    BY <1>0 DEF Stepped
  <2>2. item' \in [Migrations -> {"none", "Pending", "Success", "Failed"}]
        /\ to' \in [Migrations -> Recipients \cup {None}]
    BY DEF IInv, TypeOK, UnlinkFails, data, agent, history, marks, Wrong
  <2>3. session' \in [Migrations -> 0 .. Len(Script) + 1]
    BY Scripted DEF IInv, TypeOK, Positions, InSession, UnlinkFails, data, agent,
       history, marks, Wrong
  <2>4. (links \cup erred \cup asked \cup complete \cup missed \cup swallowed \cup killed
            \cup unsettled)' \subseteq Migrations
    BY DEF IInv, TypeOK, UnlinkFails, data, agent, history, marks, Wrong
  <2>5. (keyed \cup stuck)' \subseteq Recipients /\ donorActive' \in BOOLEAN
        /\ activeAt' \in [Recipients -> {"none", "active", "inactive"}]
        /\ trigger' \in [Recipients -> {"on", "off"}] /\ job' \in [Recipients -> BOOLEAN]
    BY DEF IInv, TypeOK, Course, UnlinkFails, data, agent, history, marks, Wrong
  <2> QED BY <2>1, <2>2, <2>3, <2>4, <2>5, TwelveScripts DEF TypeOK, Typed, RunRecord
<1>2. \A n \in Migrations : Course(n)'
  BY <1>0, Scripted DEF IInv, TypeOK, Course, Stepped, UnlinkFails, data, agent,
     history, marks, Wrong
<1>3. (\A n \in Migrations : Copied(n)') /\ CopiedActive' /\ UsersKept'
  BY UsersApart DEF IInv, TypeOK, Course, UnlinkFails, data, history
<1>4. TriggerRestored'
  BY <1>0, TriggerApart DEF Stepped, UnlinkFails, agent, marks
<1> QED BY <1>1, <1>2, <1>3, <1>4 DEF IInv

LEMMA StatusFailsStep ==
    ASSUME IInv, NEW m \in Migrations, StatusFails(m)
    PROVE  IInv'
<1>0. Stepped(m, "fail") \/ Stepped(m, "unlink")
  BY Steppings DEF IInv, Steps, StatusFails
<1>1. TypeOK'
  <2>1. Typed(run')
    BY <1>0 DEF Stepped
  <2>2. item' \in [Migrations -> {"none", "Pending", "Success", "Failed"}]
        /\ to' \in [Migrations -> Recipients \cup {None}]
    BY DEF IInv, TypeOK, StatusFails, data, agent, history, marks, Wrong
  <2>3. session' \in [Migrations -> 0 .. Len(Script) + 1]
    BY Scripted DEF IInv, TypeOK, Positions, InSession, StatusFails, data, agent,
       history, marks, Wrong
  <2>4. (links \cup erred \cup asked \cup complete \cup missed \cup swallowed \cup killed
            \cup unsettled)' \subseteq Migrations
    BY DEF IInv, TypeOK, StatusFails, data, agent, history, marks, Wrong
  <2>5. (keyed \cup stuck)' \subseteq Recipients /\ donorActive' \in BOOLEAN
        /\ activeAt' \in [Recipients -> {"none", "active", "inactive"}]
        /\ trigger' \in [Recipients -> {"on", "off"}] /\ job' \in [Recipients -> BOOLEAN]
    BY DEF IInv, TypeOK, Course, StatusFails, data, agent, history, marks, Wrong
  <2> QED BY <2>1, <2>2, <2>3, <2>4, <2>5, TwelveScripts DEF TypeOK, Typed, RunRecord
<1>2. \A n \in Migrations : Course(n)'
  BY <1>0, Scripted DEF IInv, TypeOK, Course, Stepped, StatusFails, data, agent,
     history, marks, Wrong
<1>3. (\A n \in Migrations : Copied(n)') /\ CopiedActive' /\ UsersKept'
  BY UsersApart DEF IInv, TypeOK, Course, StatusFails, data, history
<1>4. TriggerRestored'
  BY <1>0, TriggerApart DEF Stepped, StatusFails, agent, marks
<1> QED BY <1>1, <1>2, <1>3, <1>4 DEF IInv

LEMMA ErrorAnsweredStep ==
    ASSUME IInv, NEW m \in Migrations, ErrorAnswered(m)
    PROVE  IInv'
<1>0. Stepped(m, "clear") \/ Stepped(m, "disable") \/ Stepped(m, "execute") \/ Stepped(m, "succeed")
  <2>1. CASE run' = [run EXCEPT ![m] = NextScript(m)]
    <3>1. Stepped(m, NextScript(m).pc)
      BY <2>1, Installing, SetStep DEF IInv
    <3> QED BY <3>1, Installing DEF IInv
  <2>2. CASE run' # [run EXCEPT ![m] = NextScript(m)]
    BY <2>2, Steppings DEF ErrorAnswered, IInv, Steps
  <2> QED BY <2>1, <2>2
<1>1. TypeOK'
  <2>1. Typed(run')
    BY <1>0 DEF Stepped
  <2>2. item' \in [Migrations -> {"none", "Pending", "Success", "Failed"}]
        /\ to' \in [Migrations -> Recipients \cup {None}]
    BY DEF IInv, TypeOK, ErrorAnswered, data, agent, history, marks, Wrong
  <2>3. session' \in [Migrations -> 0 .. Len(Script) + 1]
    BY Scripted DEF IInv, TypeOK, Positions, InSession, ErrorAnswered, data, agent,
       history, marks, Wrong
  <2>4. (links \cup erred \cup asked \cup complete \cup missed \cup swallowed \cup killed
            \cup unsettled)' \subseteq Migrations
    BY DEF IInv, TypeOK, ErrorAnswered, data, agent, history, marks, Wrong
  <2>5. (keyed \cup stuck)' \subseteq Recipients /\ donorActive' \in BOOLEAN
        /\ activeAt' \in [Recipients -> {"none", "active", "inactive"}]
        /\ trigger' \in [Recipients -> {"on", "off"}] /\ job' \in [Recipients -> BOOLEAN]
    BY DEF IInv, TypeOK, Course, ErrorAnswered, data, agent, history, marks, Wrong
  <2> QED BY <2>1, <2>2, <2>3, <2>4, <2>5, TwelveScripts DEF TypeOK, Typed, RunRecord
<1>2. \A n \in Migrations : Course(n)'
  BY <1>0, Scripted DEF IInv, TypeOK, Course, Stepped, ErrorAnswered, data, agent,
     history, marks, Wrong
<1>3. (\A n \in Migrations : Copied(n)') /\ CopiedActive' /\ UsersKept'
  BY UsersApart DEF IInv, TypeOK, Course, ErrorAnswered, data, history
<1>4. TriggerRestored'
  BY <1>0, TriggerApart DEF Stepped, ErrorAnswered, agent, marks
<1> QED BY <1>1, <1>2, <1>3, <1>4 DEF IInv

LEMMA CallFailsStep ==
    ASSUME IInv, NEW m \in Migrations, CallFails(m)
    PROVE  IInv'
<1>0. Stepped(m, "fail") \/ Stepped(m, "clear") \/ Stepped(m, "disable")
  <2>1. CASE run' = [run EXCEPT ![m] = Fails(m)]
    BY <2>1, Installing, SetStep DEF IInv
  <2>2. CASE run' = [run EXCEPT ![m] = AfterInstall(m)]
    <3>1. Stepped(m, AfterInstall(m).pc)
      BY <2>2, Installing, SetStep DEF IInv
    <3> QED BY <3>1, Installing DEF IInv
  <2> QED BY <2>1, <2>2 DEF CallFails
<1>1. TypeOK'
  <2>1. Typed(run')
    BY <1>0 DEF Stepped
  <2>2. item' \in [Migrations -> {"none", "Pending", "Success", "Failed"}]
        /\ to' \in [Migrations -> Recipients \cup {None}]
    BY DEF IInv, TypeOK, CallFails, data, agent, history, marks, Wrong
  <2>3. session' \in [Migrations -> 0 .. Len(Script) + 1]
    BY Scripted DEF IInv, TypeOK, Positions, InSession, CallFails, data, agent,
       history, marks, Wrong
  <2>4. (links \cup erred \cup asked \cup complete \cup missed \cup swallowed \cup killed
            \cup unsettled)' \subseteq Migrations
    BY DEF IInv, TypeOK, CallFails, data, agent, history, marks, Wrong
  <2>5. (keyed \cup stuck)' \subseteq Recipients /\ donorActive' \in BOOLEAN
        /\ activeAt' \in [Recipients -> {"none", "active", "inactive"}]
        /\ trigger' \in [Recipients -> {"on", "off"}] /\ job' \in [Recipients -> BOOLEAN]
    BY DEF IInv, TypeOK, Course, CallFails, data, agent, history, marks, Wrong
  <2> QED BY <2>1, <2>2, <2>3, <2>4, <2>5, TwelveScripts DEF TypeOK, Typed, RunRecord
<1>2. \A n \in Migrations : Course(n)'
  BY <1>0, Scripted DEF IInv, TypeOK, Course, Stepped, CallFails, data, agent,
     history, marks, Wrong
<1>3. (\A n \in Migrations : Copied(n)') /\ CopiedActive' /\ UsersKept'
  BY UsersApart DEF IInv, TypeOK, Course, CallFails, data, history
<1>4. TriggerRestored'
  BY <1>0 DEF IInv, TypeOK, Course, Stepped, TriggerRestored, CallFails, agent, marks,
     Wrong
<1> QED BY <1>1, <1>2, <1>3, <1>4 DEF IInv

LEMMA KillStep ==
    ASSUME IInv, NEW m \in Migrations, Kill(m)
    PROVE  IInv'
<1>0. Stepped(m, "ended")
  BY Steppings DEF IInv, Steps, Kill
<1>1. TypeOK'
  <2>1. Typed(run')
    BY <1>0 DEF Stepped
  <2>2. item' \in [Migrations -> {"none", "Pending", "Success", "Failed"}]
        /\ to' \in [Migrations -> Recipients \cup {None}]
    BY DEF IInv, TypeOK, Kill, data, agent, history, marks, Wrong
  <2>3. session' \in [Migrations -> 0 .. Len(Script) + 1]
    BY Scripted DEF IInv, TypeOK, Positions, InSession, Kill, data, agent, history,
       marks, Wrong
  <2>4. (links \cup erred \cup asked \cup complete \cup missed \cup swallowed \cup killed
            \cup unsettled)' \subseteq Migrations
    BY DEF IInv, TypeOK, Kill, data, agent, history, marks, Wrong
  <2>5. (keyed \cup stuck)' \subseteq Recipients /\ donorActive' \in BOOLEAN
        /\ activeAt' \in [Recipients -> {"none", "active", "inactive"}]
        /\ trigger' \in [Recipients -> {"on", "off"}] /\ job' \in [Recipients -> BOOLEAN]
    BY DEF IInv, TypeOK, Course, Kill, data, agent, history, marks, Wrong
  <2> QED BY <2>1, <2>2, <2>3, <2>4, <2>5, TwelveScripts DEF TypeOK, Typed, RunRecord
<1>2. \A n \in Migrations : Course(n)'
  BY <1>0, Scripted DEF IInv, TypeOK, Course, Stepped, Kill, data, agent, history,
     marks, Wrong
<1>3. (\A n \in Migrations : Copied(n)') /\ CopiedActive' /\ UsersKept'
  BY UsersApart DEF IInv, TypeOK, Course, Kill, data, history
<1>4. TriggerRestored'
  <2>1. CASE run[m].pc = "schedule"
    BY <1>0, <2>1 DEF IInv, TriggerRestored, Stepped, Kill, agent
  <2>2. CASE run[m].pc # "schedule"
    BY <1>0, <2>2, TriggerApart DEF Kill, Stepped, agent
  <2> QED BY <2>1, <2>2
<1> QED BY <1>1, <1>2, <1>3, <1>4 DEF IInv

LEMMA Inductive == IInv /\ [Next]_vars => IInv'
<1> SUFFICES ASSUME IInv, [Next]_vars
             PROVE  IInv'
  OBVIOUS
<1>1. CASE UNCHANGED vars
  <2>1. TypeOK' /\ \A m \in Migrations : Course(m)'
    BY <1>1 DEF vars, data, agent, history, marks, IInv, TypeOK, Course
  <2>2. (\A m \in Migrations : Copied(m)') /\ CopiedActive' /\ UsersKept'
    BY <1>1, UsersApart DEF vars, data, history
  <2>3. TriggerRestored'
    BY <1>1, TriggerApart DEF vars, agent, marks
  <2> QED BY <2>1, <2>2, <2>3 DEF IInv
<1>2. ASSUME NEW m \in Migrations, NEW r \in Recipients, RunCompanyMigration(m, r) \/ StartFails(m, r)
      PROVE  IInv'
  BY <1>2, RunCompanyMigrationStep, StartFailsStep
<1>3. ASSUME NEW m \in Migrations, Migrate(m) \/ Copying(m) \/ Trouble(m)
      PROVE  IInv'
  BY <1>3, CreateLinkedServerStep, DropProcedureStep, CreateProcedureStep,
     DisableTriggerStep, ScheduleJobStep, ExecuteStep, SetSuccessStep,
     SetFailedStep, DropLinkedServerStep, PassOverStep, LinkMissingStep,
     RunStatementStep, StatementFailsStep, AnswerStep, CallFailsStep,
     ErrorAnsweredStep, AnswerLostStep, KillStep, StatusFailsStep, UnlinkFailsStep
     DEF Migrate, Copying, Trouble
<1>4. ASSUME NEW r \in Recipients, EnableTrigger(r)
      PROVE  IInv'
  BY <1>4, EnableTriggerStep
<1> QED BY <1>1, <1>2, <1>3, <1>4 DEF Next

\* Only Execute begins a session, and it comes once.
LEMMA BeginsOnce ==
    ASSUME IInv, [Next]_vars, NEW n \in Migrations, session'[n] = 1, session[n] # 1
    PROVE  n \notin asked
<1>1. ASSUME NEW m \in Migrations, Execute(m)
      PROVE  n \notin asked
  <2>1. run[m].pc = "execute" /\ session' = [session EXCEPT ![m] = 1]
    BY <1>1 DEF Execute
  <2>2. n = m
    BY <2>1 DEF IInv, TypeOK
  <2> QED BY <2>1, <2>2 DEF IInv, Course
<1>2. ASSUME NEW m \in Migrations, Copying(m)
      PROVE  FALSE
  <2>1. /\ Len(Script) \in Nat \ {0} /\ session \in [Migrations -> 0 .. Len(Script) + 1]
        /\ \A p \in 1 .. Len(Script) : NextCall[p] \in p + 1 .. Len(Script) + 1
    BY Scripted DEF IInv, TypeOK, Positions
  <2>2. CASE PassOver(m)
    BY <2>1, <2>2 DEF PassOver, InSession, Positions
  <2>3. CASE LinkMissing(m)
    BY <2>1, <2>3 DEF LinkMissing, InSession, Positions
  <2>4. CASE RunStatement(m)
    BY <2>1, <2>4 DEF RunStatement, InSession, Positions
  <2>5. CASE StatementFails(m)
    BY <2>1, <2>5 DEF StatementFails, InSession, Positions
  <2>6. CASE Answer(m)
    BY <2>1, <2>6 DEF Answer
  <2> QED BY <1>2, <2>2, <2>3, <2>4, <2>5, <2>6 DEF Copying
<1>3. CASE session' = session
  BY <1>3
<1>4. ASSUME NEW m \in Migrations, Migrate(m), ~ Execute(m)
      PROVE  session' = session
  BY <1>4 DEF Migrate, CreateLinkedServer, DropProcedure, CreateProcedure, DisableTrigger,
     ScheduleJob, SetSuccess, SetFailed, DropLinkedServer
<1>5. ASSUME NEW m \in Migrations, Trouble(m)
      PROVE  session' = session
  BY <1>5 DEF Trouble, CallFails, ErrorAnswered, AnswerLost, Kill, StatusFails,
     UnlinkFails
<1>6. ASSUME NEW m \in Migrations, NEW r \in Recipients,
             RunCompanyMigration(m, r) \/ StartFails(m, r)
      PROVE  session' = session
  BY <1>6 DEF RunCompanyMigration, StartFails
<1>7. ASSUME NEW r \in Recipients, EnableTrigger(r)
      PROVE  session' = session
  BY <1>7 DEF EnableTrigger
<1>8. CASE UNCHANGED vars
  BY <1>3, <1>8 DEF vars
<1> QED BY <1>1, <1>2, <1>3, <1>4, <1>5, <1>6, <1>7, <1>8 DEF Next

-----------------------------------------------------------------------------
(* The theorems *)

\* The inductive invariant holds in every reachable state, for any number of migrations
\* and failures (company.service.ts, runCompanyMigration and createCompanyMigration).
THEOREM Invariant == Spec => []IInv
BY InitInv, Inductive, PTL DEF Spec

\* Every reachable state of the migrations is well typed (company.service.ts,
\* runCompanyMigration and createCompanyMigration).
THEOREM TypeCorrect == Spec => []TypeOK
<1>1. IInv => TypeOK
  BY DEF IInv
<1> QED BY <1>1, Invariant, PTL

\* A migration is marked 'Success' only when every statement of its script ran, however
\* many migrations drop each other's procedures and whatever fails, except after an
\* error that was taken for an answer (company.service.ts:1216, createCompanyMigration).
THEOREM SuccessMeansCopied == Spec => []SuccessIsComplete
<1>1. IInv => SuccessIsComplete
  BY DEF IInv, Course, SuccessIsComplete
<1> QED BY <1>1, Invariant, PTL

\* Unless a session passed over a statement, the donor's users are locked out only when a
\* recipient has them as active users (usp_EIN_Cons_HRNext_Sec_DataSet_V1.sql).
THEOREM NobodyLockedOut == Spec => []UsersKept
<1>1. IInv => UsersKept
  BY DEF IInv
<1> QED BY <1>1, Invariant, PTL

\* A disabled audit trigger has a job that enables it, or a call that is about to make
\* one or did not reach the schedule (createAuditOutboxTriggerScheduledTask.sql).
THEOREM TriggerComesBack == Spec => []TriggerRestored
<1>1. IInv => TriggerRestored
  BY DEF IInv
<1> QED BY <1>1, Invariant, PTL

\* Every statement of the script finds, in each table that it looks into, the rows that
\* the migration copied, or those of the payroll that it means to change: no statement
\* comes before the one whose rows its own rows point to
\* (createCompanyMigration.sql, and the scripts in companyMigrationScripts).
THEOREM ReferencesAreFound == Spec => []ReferencesFound
<1>1. ReferencesFound
  BY AllFindRows DEF ReferencesFound, InSession
<1> QED BY <1>1, PTL

\* The script of a migration is sent at most once, whatever becomes of its answer
\* (company.service.ts:1231, where the retries are set to 0).
THEOREM ScriptSentOnce == Spec => CopiedOnce
<1>1. IInv /\ [Next]_vars => [\A m \in Migrations : session'[m] = 1 /\ session[m] # 1 => m \notin asked]_vars
  BY BeginsOnce
<1> QED BY <1>1, Invariant, PTL DEF Spec, CopiedOnce
=============================================================================
