------------------------- MODULE EmployeeImportProofs -------------------------
(* For any file, any number of rows served at once and any calls that go       *)
(* wrong: the status of an import tells the truth, an entry that carries a key *)
(* of payroll is in payroll, and a row that failed leaves nothing that payroll *)
(* does not know; one row at a time, the entries of an employee are in order.  *)
EXTENDS EmployeeImport, WellFoundedInduction, FiniteSetTheorems, TLAPS

Types ==
    /\ kind \in {"employee", "compensation", "alternateRate"}
    /\ step \in [Rows -> Steps]
    /\ status \in [Rows -> RowStatuses]
    /\ patch \in [Rows -> SUBSET ({0} \cup Rows)]
    /\ evo \in [wage : SUBSET ({0} \cup Rows), employee : SUBSET ({0} \cup Rows)]
    /\ failures \in [FaultKinds -> Nat]

\* An entry, of which only the row's number needs to have a type.
IsEntry(x) ==
    /\ x = [id |-> x.id, row |-> x.row, employee |-> x.employee, number |-> x.number,
            start |-> x.start, end |-> x.end, linked |-> x.linked]
    /\ x.row \in {0} \cup Rows

HrInv == (\A x \in hr : IsEntry(x)) /\ LinkedMeansInEvo

-----------------------------------------------------------------------------
(* What the function of a row has done by the time it is at each of its steps. *)

\* The entry of r, as other rows see it: its end and its link may change.
Entered(r) ==
    \E x \in hr : x.row = r /\ x.employee = content[r].employee /\ x.number = content[r].number

\* Employees have no entries, and only they are changed as a whole.
OfItsKind(r) ==
    /\ kind = "employee" =>
         step[r] \notin {"insert", "readHr", "postWage", "putWage", "patchWage",
                         "patchEmployee", "link", "markProcessed"}
    /\ kind # "employee" => step[r] \notin {"changeEmployee", "updateHr"}

InStores(r) ==
    /\ kind # "employee" /\ step[r] \in {"readEvo", "readHr", "postWage", "putWage", "patchWage",
                                         "patchEmployee", "link", "markProcessed"} => Entered(r)
    /\ step[r] \in {"postWage", "putWage", "patchWage", "patchEmployee"} => r \in patch[r]
    /\ step[r] = "patchEmployee" => kind = "compensation" /\ r \in evo.wage
    /\ step[r] = "link" => InEvo(r)
    /\ step[r] = "markProcessed" => InEvo(r) \/ r \in skipped
    /\ kind = "alternateRate" /\ step[r] \in {"readEvo", "readHr"} => status[r] = "Processed"
    /\ step[r] = "updateHr" => r \in evo.employee

\* The status that a row is answered with, unless a write missed its database.
Truthful(r) ==
    failures["missed"] = 0 /\ step[r] = "answered" =>
        \/ status[r] = "Failed"
        \/ status[r] = "Processed" /\ Done(r)

RowInv(r) ==
    /\ step[r] # "waiting" => status[r] # "none"
    /\ OfItsKind(r) /\ InStores(r) /\ Truthful(r)

-----------------------------------------------------------------------------
(* The final status is derived when every row has been answered, and from then *)
(* on no row changes.                                                          *)

Derived == {"Processed", "Partially Processed", "Failed"}

Answered == \A r \in Imported : step[r] = "answered"

MachineInv ==
    /\ machine = "idle" => ending = "none" /\ event = "none" /\ \A r \in Rows : step[r] = "waiting"
    /\ machine = "completing" \/ ending = "summarise" => Answered
    /\ ending \in Derived => Answered /\ ending = FinalStatus
    /\ event \in Derived => Answered /\ event = FinalStatus

IInv == Types /\ HrInv /\ (\A r \in Rows : RowInv(r)) /\ MachineInv

LEMMA InitInv == Init => IInv
<1> SUFFICES ASSUME Init
             PROVE  IInv
  OBVIOUS
<1>1. Types
  BY ConstantsAssumption DEF Init, Types, Steps, RowStatuses
<1>2. \A x \in hr : IsEntry(x) /\ x.row = 0
  BY DEF Init, Earlier, IsEntry
<1>3. HrInv
  BY <1>2 DEF HrInv, LinkedMeansInEvo
<1>4. \A r \in Rows : step[r] = "waiting"
  BY DEF Init
<1>5. \A r \in Rows : RowInv(r)
  BY <1>4 DEF RowInv, OfItsKind, InStores, Truthful
<1>6. MachineInv
  BY <1>4 DEF Init, MachineInv, Derived
<1> QED BY <1>1, <1>3, <1>5, <1>6 DEF IInv

-----------------------------------------------------------------------------
(* What a step of one row leaves alone.                                        *)

\* Stores only grow, but for the entry of r.
Kept(r) ==
    /\ evo.wage \subseteq evo.wage' /\ evo.employee \subseteq evo.employee'
    /\ updated \subseteq updated' /\ skipped \subseteq skipped'
    /\ \A x \in hr : x.row # r =>
          \E y \in hr' : y.row = x.row /\ y.employee = x.employee /\ y.number = x.number

Others(r) == \A q \in Rows \ {r} : UNCHANGED <<step[q], status[q], patch[q]>>

\* The counters never fall: a write that missed its database is never forgotten.
Counted == failures["missed"]' = 0 => failures["missed"] = 0

LEMMA Counting ==
    ASSUME failures \in [FaultKinds -> Nat],
           UNCHANGED failures \/ \E fault \in FaultKinds : GoesWrong(fault)
    PROVE  failures' \in [FaultKinds -> Nat] /\ Counted
BY DEF Counted, GoesWrong, FaultKinds

LEMMA OthersKeep ==
    ASSUME IInv, NEW r \in Rows, Kept(r), Others(r), Counted,
           UNCHANGED <<kind, integrated, content>>
    PROVE  \A q \in Rows \ {r} : RowInv(q)'
<1> SUFFICES ASSUME NEW q \in Rows \ {r}
             PROVE  RowInv(q)'
  OBVIOUS
<1>1. RowInv(q) /\ UNCHANGED <<step[q], status[q], patch[q]>>
  BY DEF IInv, Others
<1>2. Entered(q) => Entered(q)'
  BY DEF Kept, Entered
<1>3. InHr(q) => InHr(q)'
  BY DEF Kept, InHr
<1>4. InEvo(q) => InEvo(q)'
  BY DEF Kept, InEvo
<1>5. OfItsKind(q)'
  BY <1>1 DEF RowInv, OfItsKind
<1>6. InStores(q)'
  BY <1>1, <1>2, <1>4 DEF RowInv, InStores, Kept
<1>7. Truthful(q)'
  BY <1>1, <1>3, <1>4 DEF RowInv, Truthful, Counted, Done, Kept
<1> QED BY <1>1, <1>5, <1>6, <1>7 DEF RowInv

\* A step of the function of r keeps the invariant if it does so for r: while it
\* runs, nothing has been derived from the statuses.
LEMMA FunctionKeeps ==
    ASSUME IInv, NEW r \in Rows, step[r] \notin Idle, Kept(r), Others(r),
           UNCHANGED rest, Counted, Types', HrInv', RowInv(r)'
    PROVE  IInv'
<1>1. \A q \in Rows : RowInv(q)'
  BY OthersKeep DEF rest, setting
<1>2. step[r] # "waiting" /\ step[r] # "answered" /\ r \in Imported
  BY DEF IInv, RowInv, Imported, Idle
<1>3. MachineInv'
  BY <1>2 DEF IInv, MachineInv, Answered, rest
<1> QED BY <1>1, <1>3 DEF IInv

-----------------------------------------------------------------------------
(* The steps of the function of a row.                                         *)

Aside == {"rollback", "markFailed", "markInBulk", "thrown", "dead"}

\* A function that has failed owes nothing but a report.
LEMMA AsideInv ==
    ASSUME NEW r \in Rows, step'[r] \in Aside, status'[r] # "none"
    PROVE  RowInv(r)'
BY DEF RowInv, Aside, OfItsKind, InStores, Truthful

LEMMA Faulty ==
    ASSUME IInv, UNCHANGED failures \/ \E fault \in FaultKinds : GoesWrong(fault)
    PROVE  failures' \in [FaultKinds -> Nat] /\ Counted
BY Counting DEF IInv, Types

\* Evolution learns the data of rows.
Learns ==
    /\ evo' \in [wage : SUBSET ({0} \cup Rows), employee : SUBSET ({0} \cup Rows)]
    /\ evo.wage \subseteq evo'.wage /\ evo.employee \subseteq evo'.employee

\* A step that leaves the stores of HR alone.
LEMMA StoresStay ==
    ASSUME IInv, NEW r \in Rows, UNCHANGED <<rest, hr, updated>>, UNCHANGED evo \/ Learns,
           skipped \subseteq skipped'
    PROVE  HrInv' /\ Kept(r)
<1>0. evo.wage \subseteq evo.wage' /\ evo.employee \subseteq evo.employee'
  BY DEF Learns
<1>1. HrInv'
  <2>1. \A q \in Rows : InEvo(q) => InEvo(q)'
    BY <1>0 DEF InEvo, rest, setting
  <2> QED BY <2>1 DEF IInv, HrInv, IsEntry, LinkedMeansInEvo
<1> QED BY <1>0, <1>1 DEF Kept

LEMMA InvalidKeeps ==
    ASSUME IInv, NEW r \in Rows, step[r] = "validate", Invalid(r), UNCHANGED <<rest, locals, stores>>
    PROVE  IInv'
<1>1. /\ UNCHANGED <<rest, patch, skipped, hr, updated, evo>>
      /\ UNCHANGED failures \/ \E fault \in FaultKinds : GoesWrong(fault)
      /\ \/ Goto(r, "answered") /\ Report(r, "Failed")
         \/ Goto(r, "markFailed") /\ (UNCHANGED status \/ Report(r, "Failed"))
  BY DEF Invalid, Call, locals, stores, FaultKinds
<1>2. failures' \in [FaultKinds -> Nat] /\ Counted
  BY <1>1, Faulty
<1>3. Types' /\ Others(r)
  BY <1>1, <1>2 DEF IInv, Types, Goto, Report, Others, rest, setting, Steps, RowStatuses
<1>4. HrInv' /\ Kept(r)
  BY <1>1, StoresStay
<1>5. status[r] # "none"
  BY DEF IInv, RowInv
<1>6. RowInv(r)'
  <2>1. CASE Goto(r, "markFailed")
    BY <1>1, <1>5, <2>1, AsideInv DEF IInv, Types, Goto, Report, Aside
  <2>2. CASE Goto(r, "answered") /\ Report(r, "Failed")
    <3>1. step'[r] = "answered" /\ status'[r] = "Failed"
      BY <2>2 DEF IInv, Types, Goto, Report
    <3> QED BY <3>1 DEF RowInv, OfItsKind, InStores, Truthful
  <2> QED BY <1>1, <2>1, <2>2
<1> QED BY <1>1, <1>2, <1>3, <1>4, <1>6, FunctionKeeps DEF Idle

\* A valid row goes on to a step that owes nothing yet.
LEMMA PassedKeeps ==
    ASSUME IInv, NEW r \in Rows, step[r] = "validate", UNCHANGED <<rest, locals, stores>>,
           Call(r, Report(r, "Passed"), UNCHANGED status,
                IF kind = "employee" THEN "readEvo" ELSE "insert", "markFailed")
    PROVE  IInv'
<1> DEFINE next == IF kind = "employee" THEN "readEvo" ELSE "insert"
<1>1. /\ UNCHANGED <<rest, patch, skipped, hr, updated, evo>>
      /\ UNCHANGED failures \/ \E fault \in FaultKinds : GoesWrong(fault)
      /\ \/ Goto(r, next) /\ Report(r, "Passed")
         \/ Goto(r, "markFailed") /\ (UNCHANGED status \/ Report(r, "Passed"))
  BY DEF Call, locals, stores, FaultKinds
<1>2. failures' \in [FaultKinds -> Nat] /\ Counted
  BY <1>1, Faulty
<1>3. next \in {"readEvo", "insert"}
  OBVIOUS
<1>4. Types' /\ Others(r)
  BY <1>1, <1>2, <1>3 DEF IInv, Types, Goto, Report, Others, rest, setting, Steps, RowStatuses
<1>5. HrInv' /\ Kept(r)
  BY <1>1, StoresStay
<1>6. RowInv(r)'
  <2>1. status[r] # "none"
    BY DEF IInv, RowInv
  <2>2. CASE Goto(r, "markFailed")
    BY <1>1, <2>1, <2>2, AsideInv DEF IInv, Types, Goto, Report, Aside
  <2>3. CASE Goto(r, next) /\ Report(r, "Passed")
    <3>1. step'[r] = next /\ status'[r] = "Passed"
      BY <1>3, <2>3 DEF IInv, Types, Goto, Report
    <3> QED BY <1>1, <3>1 DEF RowInv, OfItsKind, InStores, Truthful, rest, setting
  <2> QED BY <1>1, <2>2, <2>3
<1> QED BY <1>1, <1>2, <1>4, <1>5, <1>6, FunctionKeeps DEF Idle

LEMMA ValidateEmployeeKeeps ==
    ASSUME IInv, NEW r \in Rows, ValidateEmployee(r)
    PROVE  IInv'
BY InvalidKeeps, PassedKeeps DEF ValidateEmployee

LEMMA ValidateAlternateRateKeeps ==
    ASSUME IInv, NEW r \in Rows, ValidateAlternateRate(r)
    PROVE  IInv'
BY InvalidKeeps, PassedKeeps DEF ValidateAlternateRate

\* The end of an entry is all that a later one changes.
LEMMA EndedEntries ==
    ASSUME \A x \in hr : IsEntry(x), NEW r \in Rows
    PROVE  /\ \A y \in Ended(r) : /\ IsEntry(y)
                                  /\ \E x \in hr : y.row = x.row /\ y.linked = x.linked
           /\ \A x \in hr : \E y \in Ended(r) :
                 y.row = x.row /\ y.employee = x.employee /\ y.number = x.number
<1> DEFINE end == content[r].start - 1
           to(x) == IF x \in Own(r) /\ x.id = LastId(Own(r)) THEN [x EXCEPT !.end = end] ELSE x
<1>1. ASSUME NEW x \in hr
      PROVE  /\ IsEntry(to(x)) /\ to(x).row = x.row /\ to(x).linked = x.linked
             /\ to(x).employee = x.employee /\ to(x).number = x.number
  BY <1>1 DEF IsEntry
<1>2. Ended(r) = {to(x) : x \in hr}
  BY DEF Ended
<1> HIDE DEF to
<1> QED BY <1>1, <1>2

LEMMA InsertKeeps ==
    ASSUME IInv, NEW r \in Rows, NEW before, Insert(r, before),
           \A y \in before : IsEntry(y) /\ \E x \in hr : y.row = x.row /\ y.linked = x.linked,
           \A x \in hr : \E y \in before :
              y.row = x.row /\ y.employee = x.employee /\ y.number = x.number
    PROVE  IInv'
<1> DEFINE inserted == hr' = before \cup {NewEntry(r)} /\ Report(r, "Processed")
<1>1. /\ step[r] = "insert" /\ UNCHANGED <<rest, patch, skipped, updated, evo>>
      /\ UNCHANGED failures \/ \E fault \in FaultKinds : GoesWrong(fault)
      /\ \/ Goto(r, "readEvo") /\ inserted
         \/ Goto(r, "markFailed") /\ (inserted \/ UNCHANGED <<hr, status>>)
  BY DEF Insert, Call, locals, FaultKinds
<1>2. failures' \in [FaultKinds -> Nat] /\ Counted
  BY <1>1, Faulty
<1>3. Types' /\ Others(r)
  BY <1>1, <1>2 DEF IInv, Types, Goto, Report, Others, rest, setting, Steps, RowStatuses
<1>4. kind # "employee" /\ status[r] # "none"
  BY <1>1 DEF IInv, RowInv, OfItsKind
<1>5. CASE Goto(r, "markFailed") /\ UNCHANGED <<hr, status>>
  <2>1. RowInv(r)'
    BY <1>1, <1>4, <1>5, AsideInv DEF IInv, Types, Goto, Report, Aside
  <2>2. HrInv' /\ Kept(r)
    BY <1>1, <1>5, StoresStay
  <2> QED BY <1>1, <1>2, <1>3, <2>1, <2>2, FunctionKeeps DEF Idle
<1>6. CASE inserted
  <2>2. /\ IsEntry(NewEntry(r)) /\ NewEntry(r).row = r /\ NewEntry(r).linked = FALSE
        /\ NewEntry(r).employee = content[r].employee /\ NewEntry(r).number = content[r].number
    BY DEF NewEntry, IsEntry
  <2>3. UNCHANGED <<kind, integrated, content, evo, updated, skipped>>
    BY <1>1 DEF rest, setting
  <2>4. HrInv'
    <3>1. \A y \in hr' : IsEntry(y)
      BY <1>6, <2>2
    <3>2. LinkedMeansInEvo'
      BY <1>6, <2>2, <2>3 DEF IInv, HrInv, LinkedMeansInEvo, InEvo
    <3> QED BY <3>1, <3>2 DEF HrInv, IsEntry
  <2>5. Kept(r)
    BY <1>6, <2>3 DEF Kept
  <2>6. Entered(r)'
    BY <1>6, <2>2, <2>3 DEF Entered
  <2>7. status'[r] = "Processed" /\ step'[r] \in {"readEvo", "markFailed"}
    BY <1>1, <1>6 DEF IInv, Types, Goto, Report
  <2>8. RowInv(r)'
    BY <1>4, <2>3, <2>6, <2>7 DEF RowInv, OfItsKind, InStores, Truthful
  <2> QED BY <1>1, <1>2, <1>3, <2>4, <2>5, <2>8, FunctionKeeps DEF Idle
<1> QED BY <1>1, <1>5, <1>6

LEMMA InsertAlternateRateKeeps ==
    ASSUME IInv, NEW r \in Rows, InsertAlternateRate(r)
    PROVE  IInv'
BY InsertKeeps, EndedEntries DEF InsertAlternateRate, IInv, HrInv

LEMMA InsertCompensationKeeps ==
    ASSUME IInv, NEW r \in Rows, InsertCompensation(r)
    PROVE  IInv'
BY InsertKeeps DEF InsertCompensation, IInv, HrInv

\* A step that writes no status and nothing of HR keeps the invariant if the next
\* step owes no more than this one has established.
LEMMA QuietKeeps ==
    ASSUME IInv, NEW r \in Rows, step[r] \notin Idle, NEW label \in Steps, Goto(r, label),
           UNCHANGED <<rest, status, hr, updated, patch>>, UNCHANGED evo \/ Learns,
           skipped \subseteq skipped',
           UNCHANGED failures \/ \E fault \in FaultKinds : GoesWrong(fault),
           label \in Aside \/ (OfItsKind(r)' /\ InStores(r)'), label # "answered"
    PROVE  IInv'
<1>1. failures' \in [FaultKinds -> Nat] /\ Counted
  BY Faulty
<1>2. Types' /\ Others(r) /\ step'[r] = label /\ status'[r] # "none"
  BY <1>1 DEF IInv, Types, RowInv, Goto, Others, rest, setting, Idle, Learns
<1>3. HrInv' /\ Kept(r)
  BY StoresStay
<1>4. RowInv(r)'
  <2>1. CASE label \in Aside
    BY <1>2, <2>1, AsideInv
  <2>2. CASE OfItsKind(r)' /\ InStores(r)'
    BY <1>2, <2>2 DEF RowInv, Truthful
  <2> QED BY <2>1, <2>2
<1> QED BY <1>1, <1>2, <1>3, <1>4, FunctionKeeps

\* A step to the catch of the function, which owes nothing.
LEMMA AsideKeeps ==
    ASSUME IInv, NEW r \in Rows, step[r] \notin Idle, NEW label \in Aside, Goto(r, label),
           UNCHANGED <<rest, status, hr, updated, patch>>, UNCHANGED evo \/ Learns,
           skipped \subseteq skipped',
           UNCHANGED failures \/ \E fault \in FaultKinds : GoesWrong(fault)
    PROVE  IInv'
<1>1. label \in Steps /\ label # "answered"
  BY DEF Aside, Steps
<1> QED BY <1>1, QuietKeeps

LEMMA ValidateCompensationKeeps ==
    ASSUME IInv, NEW r \in Rows, ValidateCompensation(r)
    PROVE  IInv'
<1>1. /\ kind = "compensation" /\ step[r] = "validate" /\ UNCHANGED <<rest, locals, stores>>
      /\ \/ Call(r, UNCHANGED status, UNCHANGED status, "insert", "markFailed")
         \/ Invalid(r)
  BY DEF ValidateCompensation
<1>2. CASE Invalid(r)
  BY <1>1, <1>2, InvalidKeeps
<1>3. CASE Call(r, UNCHANGED status, UNCHANGED status, "insert", "markFailed")
  <2>1. /\ Goto(r, "insert") \/ Goto(r, "markFailed")
        /\ UNCHANGED <<rest, status, hr, updated, evo, patch, skipped>>
        /\ UNCHANGED failures \/ \E fault \in FaultKinds : GoesWrong(fault)
    BY <1>1, <1>3 DEF Call, locals, stores, FaultKinds
  <2>2. CASE Goto(r, "markFailed")
    BY <1>1, <2>1, <2>2, AsideKeeps DEF Idle, Aside
  <2>3. CASE Goto(r, "insert")
    <3>1. step'[r] = "insert" /\ kind' = "compensation"
      BY <1>1, <2>1, <2>3 DEF IInv, Types, Goto, rest, setting
    <3>2. OfItsKind(r)' /\ InStores(r)'
      BY <3>1 DEF OfItsKind, InStores
    <3> QED BY <1>1, <2>1, <2>3, <3>2, QuietKeeps DEF Idle, Steps
  <2> QED BY <2>1, <2>2, <2>3
<1> QED BY <1>1, <1>2, <1>3

LEMMA FindCompanyKeeps ==
    ASSUME IInv, NEW r \in Rows, FindCompany(r)
    PROVE  IInv'
<1>1. /\ step[r] = "findCompany" /\ UNCHANGED <<rest, status, hr, updated, evo, patch, skipped>>
      /\ UNCHANGED failures \/ \E fault \in FaultKinds : GoesWrong(fault)
      /\ Goto(r, "validate") \/ Goto(r, "markInBulk")
  BY DEF FindCompany, Call, locals, stores, FaultKinds
<1>2. CASE Goto(r, "markInBulk")
  BY <1>1, <1>2, AsideKeeps DEF Idle, Aside
<1>3. CASE Goto(r, "validate")
  <2>1. step'[r] = "validate"
    BY <1>3 DEF IInv, Types, Goto
  <2>2. OfItsKind(r)' /\ InStores(r)'
    BY <2>1 DEF OfItsKind, InStores
  <2> QED BY <1>1, <1>3, <2>2, QuietKeeps DEF Idle, Steps
<1> QED BY <1>1, <1>2, <1>3

LEMMA ReadEmployeeKeeps ==
    ASSUME IInv, NEW r \in Rows, ReadEmployee(r)
    PROVE  IInv'
<1>1. /\ kind = "employee" /\ step[r] = "readEvo"
      /\ UNCHANGED <<rest, status, hr, updated, evo, patch, skipped>>
      /\ UNCHANGED failures \/ \E fault \in FaultKinds : GoesWrong(fault)
      /\ Goto(r, "changeEmployee") \/ Goto(r, "markFailed")
  BY DEF ReadEmployee, Call, locals, stores, FaultKinds
<1>2. CASE Goto(r, "markFailed")
  BY <1>1, <1>2, AsideKeeps DEF Idle, Aside
<1>3. CASE Goto(r, "changeEmployee")
  <2>1. step'[r] = "changeEmployee" /\ kind' = "employee"
    BY <1>1, <1>3 DEF IInv, Types, Goto, rest, setting
  <2>2. OfItsKind(r)' /\ InStores(r)'
    BY <2>1 DEF OfItsKind, InStores
  <2> QED BY <1>1, <1>3, <2>2, QuietKeeps DEF Idle, Steps
<1> QED BY <1>1, <1>2, <1>3

\* A row whose entry HR holds goes on to what HR holds.
LEMMA EnteredKeeps ==
    ASSUME IInv, NEW r \in Rows, kind # "employee", step[r] = "readEvo",
           NEW label \in {"readHr", "markProcessed"}, Goto(r, label),
           label = "markProcessed" => (~integrated /\ kind = "alternateRate") \/ r \in skipped',
           UNCHANGED <<rest, status, hr, updated, evo, patch>>, skipped \subseteq skipped',
           UNCHANGED failures \/ \E fault \in FaultKinds : GoesWrong(fault)
    PROVE  IInv'
<1>1. step'[r] = label /\ UNCHANGED <<kind, integrated, content, hr>>
  BY DEF IInv, Types, Goto, rest, setting
<1>2. OfItsKind(r)' /\ InStores(r)'
  BY <1>1 DEF IInv, RowInv, OfItsKind, InStores, Entered, InEvo
<1> QED BY <1>2, QuietKeeps DEF Idle, Steps

LEMMA ReadWagesKeeps ==
    ASSUME IInv, NEW r \in Rows, ReadWages(r)
    PROVE  IInv'
<1>1. /\ kind = "compensation" /\ step[r] = "readEvo"
      /\ UNCHANGED <<rest, status, hr, updated, evo, patch>> /\ skipped \subseteq skipped'
      /\ UNCHANGED failures \/ \E fault \in FaultKinds : GoesWrong(fault)
      /\ \/ Goto(r, "readHr") \/ Goto(r, "rollback")
         \/ r \in skipped' /\ Goto(r, "markProcessed")
  BY DEF ReadWages, Skip, Call, Handler, locals, stores, FaultKinds
<1> QED BY <1>1, AsideKeeps, EnteredKeeps DEF Idle, Aside

LEMMA ReadRatesKeeps ==
    ASSUME IInv, NEW r \in Rows, ReadRates(r)
    PROVE  IInv'
<1>1. /\ kind = "alternateRate" /\ step[r] = "readEvo"
      /\ UNCHANGED <<rest, status, hr, updated, evo, patch>> /\ skipped \subseteq skipped'
      /\ UNCHANGED failures \/ \E fault \in FaultKinds : GoesWrong(fault)
      /\ \/ Goto(r, "readHr") \/ Goto(r, "rollback")
         \/ (~integrated \/ r \in skipped') /\ Goto(r, "markProcessed")
  BY DEF ReadRates, Skip, Call, Handler, locals, stores, FaultKinds
<1> QED BY <1>1, AsideKeeps, EnteredKeeps DEF Idle, Aside

LEMMA FindNoRatesKeeps ==
    ASSUME IInv, NEW r \in Rows, FindNoRates(r)
    PROVE  IInv'
<1>1. /\ kind = "alternateRate" /\ step[r] = "readHr" /\ Goto(r, "answered")
      /\ UNCHANGED <<rest, status, hr, updated, evo, patch, failures>>
      /\ skipped' = skipped \cup {r}
  BY DEF FindNoRates, Skip, stores
<1>2. failures' \in [FaultKinds -> Nat] /\ Counted
  BY <1>1, Faulty
<1>3. Types' /\ Others(r) /\ step'[r] = "answered"
  BY <1>1, <1>2 DEF IInv, Types, Goto, Others, rest, setting, Steps
<1>4. HrInv' /\ Kept(r)
  BY <1>1, StoresStay
<1>5. status'[r] = "Processed" /\ Entered(r)
  BY <1>1 DEF IInv, RowInv, InStores
<1>6. Done(r)' /\ OfItsKind(r)'
  BY <1>1, <1>3, <1>5 DEF Done, InHr, Entered, OfItsKind, rest, setting
<1>7. RowInv(r)'
  BY <1>3, <1>5, <1>6 DEF RowInv, InStores, Truthful
<1> QED BY <1>1, <1>2, <1>3, <1>4, <1>7, FunctionKeeps DEF Idle

LEMMA ReadHrKeeps ==
    ASSUME IInv, NEW r \in Rows,
           NEW next \in {"postWage", "putWage", "patchWage"}, ReadHr(r, next)
    PROVE  IInv'
<1> DEFINE mine == SameNumber(r)
<1>1. /\ step[r] = "readHr" /\ UNCHANGED <<rest, status, hr, updated, evo, skipped>>
      /\ UNCHANGED failures \/ \E fault \in FaultKinds : GoesWrong(fault)
      /\ \/ Goto(r, next) /\ patch' = [patch EXCEPT ![r] = mine]
         \/ Goto(r, "rollback") /\ (patch' = [patch EXCEPT ![r] = mine] \/ UNCHANGED patch)
  BY DEF ReadHr, Call, Handler, stores, FaultKinds
<1>2. mine \subseteq {0} \cup Rows
  BY DEF IInv, HrInv, IsEntry, Own, SameNumber
<1>3. kind # "employee" /\ r \in mine /\ status[r] # "none"
  BY <1>1 DEF IInv, RowInv, OfItsKind, InStores, Entered, Own, SameNumber
<1>4. failures' \in [FaultKinds -> Nat] /\ Counted
  BY <1>1, Faulty
<1> HIDE DEF mine
<1>6. Types' /\ Others(r)
  BY <1>1, <1>2, <1>4 DEF IInv, Types, Goto, Others, rest, setting, Steps
<1>7. HrInv' /\ Kept(r)
  BY <1>1, StoresStay
<1>8. RowInv(r)'
  <2>1. CASE Goto(r, "rollback")
    BY <1>1, <1>3, <2>1, AsideInv DEF IInv, Types, Goto, Aside
  <2>2. CASE Goto(r, next) /\ patch' = [patch EXCEPT ![r] = mine]
    <3>1. step'[r] = next /\ patch'[r] = mine
      BY <2>2 DEF IInv, Types, Goto
    <3>2. Entered(r)'
      BY <1>1, <1>3 DEF IInv, RowInv, InStores, Entered, rest, setting
    <3> QED BY <1>1, <1>3, <3>1, <3>2
            DEF RowInv, OfItsKind, InStores, Truthful, rest, setting
  <2> QED BY <1>1, <2>1, <2>2
<1> QED BY <1>1, <1>4, <1>6, <1>7, <1>8, FunctionKeeps DEF Idle

LEMMA GetCompensationsKeeps ==
    ASSUME IInv, NEW r \in Rows, GetCompensations(r) \/ GetAlternateRates(r)
    PROVE  IInv'
BY ReadHrKeeps DEF GetCompensations, GetAlternateRates

LEMMA PostWageKeeps ==
    ASSUME IInv, NEW r \in Rows, PostWage(r)
    PROVE  IInv'
<1>1. /\ step[r] = "postWage" /\ UNCHANGED <<rest, status, hr, updated, evo, patch, skipped>>
      /\ UNCHANGED failures \/ \E fault \in FaultKinds : GoesWrong(fault)
      /\ Goto(r, "putWage") \/ Goto(r, "rollback")
  BY DEF PostWage, Call, Handler, locals, FaultKinds
<1>2. CASE Goto(r, "rollback")
  BY <1>1, <1>2, QuietKeeps DEF Idle, Steps, Aside
<1>3. CASE Goto(r, "putWage")
  <2>1. step'[r] = "putWage"
    BY <1>3 DEF IInv, Types, Goto
  <2>2. OfItsKind(r)' /\ InStores(r)'
    BY <1>1, <2>1 DEF IInv, RowInv, OfItsKind, InStores, Entered, rest, setting
  <2> QED BY <1>1, <1>3, <2>2, QuietKeeps DEF Idle, Steps
<1> QED BY <1>1, <1>2, <1>3

LEMMA PutWageKeeps ==
    ASSUME IInv, NEW r \in Rows, PutWage(r)
    PROVE  IInv'
<1>1. /\ step[r] = "putWage" /\ UNCHANGED <<rest, status, hr, updated, patch, skipped>>
      /\ UNCHANGED failures \/ \E fault \in FaultKinds : GoesWrong(fault)
      /\ UNCHANGED evo \/ evo' = [evo EXCEPT !.wage = @ \cup {r}]
      /\ Goto(r, "patchWage") \/ Goto(r, "rollback")
  BY DEF PutWage, Call, Handler, locals, FaultKinds
<1>2. UNCHANGED evo \/ Learns
  BY <1>1 DEF IInv, Types, Learns
<1>3. CASE Goto(r, "rollback")
  BY <1>1, <1>2, <1>3, QuietKeeps DEF Idle, Steps, Aside
<1>4. CASE Goto(r, "patchWage")
  <2>1. step'[r] = "patchWage"
    BY <1>4 DEF IInv, Types, Goto
  <2>2. OfItsKind(r)' /\ InStores(r)'
    BY <1>1, <2>1 DEF IInv, RowInv, OfItsKind, InStores, Entered, rest, setting
  <2> QED BY <1>1, <1>2, <1>4, <2>2, QuietKeeps DEF Idle, Steps
<1> QED BY <1>1, <1>3, <1>4

LEMMA PatchWageKeeps ==
    ASSUME IInv, NEW r \in Rows, PatchWage(r) \/ PatchRate(r)
    PROVE  IInv'
<1> DEFINE next == IF kind = "compensation" THEN "patchEmployee" ELSE "link"
<1>1. /\ step[r] = "patchWage" /\ UNCHANGED <<rest, status, hr, updated, patch, skipped>>
      /\ UNCHANGED failures \/ \E fault \in FaultKinds : GoesWrong(fault)
      /\ \/ Goto(r, next) /\ PatchedWage(r)
         \/ Goto(r, "rollback") /\ (UNCHANGED evo \/ PatchedWage(r))
  BY DEF PatchWage, PatchRate, Call, Handler, locals, FaultKinds
<1>2. kind # "employee" /\ r \in patch[r] /\ Entered(r)
  BY <1>1 DEF IInv, RowInv, OfItsKind, InStores
<1>3. PatchedWage(r) => Learns /\ r \in evo'.wage
  BY <1>2 DEF IInv, Types, Learns, PatchedWage
<1>4. CASE Goto(r, "rollback")
  BY <1>1, <1>3, <1>4, QuietKeeps DEF Idle, Steps, Aside
<1>5. CASE Goto(r, next) /\ PatchedWage(r)
  <2>1. /\ step'[r] = next /\ UNCHANGED <<kind, integrated, content, hr, patch, skipped>>
        /\ r \in evo'.wage
    BY <1>1, <1>3, <1>5 DEF IInv, Types, Goto, rest, setting
  <2>2. kind \in {"compensation", "alternateRate"}
    BY <1>2 DEF IInv, Types
  <2>3. OfItsKind(r)' /\ InStores(r)'
    BY <1>2, <2>1, <2>2 DEF OfItsKind, InStores, Entered, InEvo
  <2>4. next \in Steps \ {"answered"}
    BY DEF Steps
  <2> QED BY <1>1, <1>3, <1>5, <2>3, <2>4, QuietKeeps DEF Idle
<1> QED BY <1>1, <1>4, <1>5

LEMMA PatchPromiseKeeps ==
    ASSUME IInv, NEW r \in Rows, PatchPromise(r)
    PROVE  IInv'
<1>1. /\ step[r] = "patchWage" /\ UNCHANGED <<rest, status, hr, updated, patch, skipped, evo, failures>>
      /\ Goto(r, "rollback") \/ Goto(r, "dead")
  BY DEF PatchPromise, Handler, locals, stores
<1> QED BY <1>1, QuietKeeps DEF Idle, Steps, Aside

LEMMA PatchEmployeeKeeps ==
    ASSUME IInv, NEW r \in Rows, PatchEmployee(r)
    PROVE  IInv'
<1> DEFINE patched == PatchedEmployee(r)
<1>1. /\ step[r] = "patchEmployee" /\ UNCHANGED <<rest, status, hr, updated, patch, skipped>>
      /\ UNCHANGED failures \/ \E fault \in FaultKinds : GoesWrong(fault)
      /\ \/ Goto(r, "link") /\ patched
         \/ Goto(r, "rollback") /\ (UNCHANGED evo \/ patched)
  BY DEF PatchEmployee, Call, Handler, locals, FaultKinds
<1>2. kind = "compensation" /\ r \in patch[r] /\ Entered(r) /\ r \in evo.wage
  BY <1>1 DEF IInv, RowInv, InStores
<1>3. patched => Learns /\ r \in evo'.employee /\ r \in evo'.wage
  BY <1>2 DEF IInv, Types, Learns, PatchedEmployee
<1> HIDE DEF patched
<1>4. CASE Goto(r, "rollback")
  BY <1>1, <1>3, <1>4, QuietKeeps DEF Idle, Steps, Aside
<1>5. CASE Goto(r, "link") /\ patched
  <2>1. /\ step'[r] = "link" /\ UNCHANGED <<kind, integrated, content, hr>>
        /\ r \in evo'.employee /\ r \in evo'.wage
    BY <1>1, <1>3, <1>5 DEF IInv, Types, Goto, rest, setting
  <2>2. OfItsKind(r)' /\ InStores(r)'
    BY <1>2, <2>1 DEF OfItsKind, InStores, Entered, InEvo
  <2> QED BY <1>1, <1>3, <1>5, <2>2, QuietKeeps DEF Idle, Steps
<1> QED BY <1>1, <1>4, <1>5

LEMMA ChangeEmployeeKeeps ==
    ASSUME IInv, NEW r \in Rows, ChangeEmployee(r)
    PROVE  IInv'
<1> DEFINE changed == evo' = [evo EXCEPT !.employee = @ \cup {r}]
<1>1. /\ step[r] = "changeEmployee" /\ UNCHANGED <<rest, status, hr, updated, patch, skipped>>
      /\ UNCHANGED failures \/ \E fault \in FaultKinds : GoesWrong(fault)
      /\ \/ Goto(r, "updateHr") /\ changed
         \/ Goto(r, "markFailed") /\ (UNCHANGED evo \/ changed)
  BY DEF ChangeEmployee, Call, locals, FaultKinds
<1>2. changed => Learns /\ r \in evo'.employee
  BY DEF IInv, Types, Learns
<1> HIDE DEF changed
<1>3. CASE Goto(r, "markFailed")
  BY <1>1, <1>2, <1>3, QuietKeeps DEF Idle, Steps, Aside
<1>4. CASE Goto(r, "updateHr") /\ changed
  <2>1. step'[r] = "updateHr" /\ UNCHANGED kind /\ r \in evo'.employee
    BY <1>1, <1>2, <1>4 DEF IInv, Types, Goto, rest, setting
  <2>2. OfItsKind(r)' /\ InStores(r)'
    BY <1>1, <2>1 DEF IInv, RowInv, OfItsKind, InStores
  <2> QED BY <1>1, <1>2, <1>4, <2>2, QuietKeeps DEF Idle, Steps
<1> QED BY <1>1, <1>3, <1>4

LEMMA LinkKeeps ==
    ASSUME IInv, NEW r \in Rows, Link(r)
    PROVE  IInv'
<1>1. /\ step[r] = "link" /\ UNCHANGED <<rest, status, updated, evo, patch, skipped>>
      /\ UNCHANGED failures \/ \E fault \in FaultKinds : GoesWrong(fault)
      /\ Goto(r, "markProcessed") \/ Goto(r, "rollback")
      /\ hr' = Linked(r) \/ UNCHANGED hr
  BY DEF Link, Call, Handler, Missed, locals, FaultKinds
<1>2. failures' \in [FaultKinds -> Nat] /\ Counted
  BY <1>1, Faulty
<1>3. Types' /\ Others(r) /\ step'[r] \in {"markProcessed", "rollback"}
  BY <1>1, <1>2 DEF IInv, Types, Goto, Others, rest, setting, Steps
<1>4. InEvo(r) /\ status[r] # "none" /\ OfItsKind(r) /\ (kind # "employee" => Entered(r))
  BY <1>1 DEF IInv, RowInv, InStores
<1> DEFINE to(x) == IF x.row = r THEN [x EXCEPT !.linked = TRUE] ELSE x
<1>5. ASSUME NEW x \in hr
      PROVE  /\ IsEntry(to(x)) /\ to(x).row = x.row /\ to(x).employee = x.employee
             /\ to(x).number = x.number /\ (x.row # r => to(x).linked = x.linked)
  <2>1. IsEntry(x)
    BY <1>5 DEF IInv, HrInv
  <2> QED BY <2>1 DEF IsEntry
<1>6. hr' = {to(x) : x \in hr} \/ hr' = hr
  BY <1>1 DEF Linked
<1> HIDE DEF to
<1>7. /\ \A y \in hr' : IsEntry(y) /\ \E x \in hr : y.row = x.row /\ (y.row # r => y.linked = x.linked)
      /\ \A x \in hr : \E y \in hr' :
            y.row = x.row /\ y.employee = x.employee /\ y.number = x.number
  <2>1. CASE hr' = {to(x) : x \in hr}
    BY <1>5, <2>1
  <2>2. CASE hr' = hr
    BY <2>2 DEF IInv, HrInv
  <2> QED BY <1>6, <2>1, <2>2
<1>8. HrInv' /\ Kept(r)
  <2>1. LinkedMeansInEvo'
    BY <1>1, <1>4, <1>7 DEF IInv, HrInv, LinkedMeansInEvo, InEvo, rest, setting
  <2> QED BY <1>1, <1>7, <2>1 DEF HrInv, IsEntry, Kept
<1>9. RowInv(r)'
  <2>1. CASE step'[r] = "rollback"
    BY <1>1, <1>4, <2>1, AsideInv DEF Aside
  <2>2. CASE step'[r] = "markProcessed"
    <3>1. (kind # "employee" => Entered(r)') /\ InEvo(r)'
      BY <1>1, <1>4, <1>7 DEF Entered, InEvo, rest, setting
    <3>2. OfItsKind(r)' /\ InStores(r)'
      BY <1>1, <1>4, <2>2, <3>1 DEF OfItsKind, InStores, rest, setting
    <3> QED BY <1>1, <1>4, <2>2, <3>2 DEF RowInv, Truthful
  <2> QED BY <1>3, <2>1, <2>2
<1> QED BY <1>1, <1>2, <1>3, <1>8, <1>9, FunctionKeeps DEF Idle

LEMMA MarkProcessedKeeps ==
    ASSUME IInv, NEW r \in Rows, MarkProcessed(r)
    PROVE  IInv'
<1>1. /\ step[r] = "markProcessed" /\ UNCHANGED <<rest, hr, updated, evo, patch, skipped>>
      /\ UNCHANGED failures \/ \E fault \in FaultKinds : GoesWrong(fault)
      /\ \/ Goto(r, "answered") /\ Report(r, "Processed")
         \/ Goto(r, "markFailed") /\ (UNCHANGED status \/ Report(r, "Processed"))
         \/ Goto(r, "answered") /\ UNCHANGED status /\ GoesWrong("missed")
  BY DEF MarkProcessed, Call, Missed, locals, stores, FaultKinds
<1>2. failures' \in [FaultKinds -> Nat] /\ Counted
  BY <1>1, Faulty
<1>3. Types' /\ Others(r)
  BY <1>1, <1>2 DEF IInv, Types, Goto, Report, Others, rest, setting, Steps, RowStatuses
<1>4. HrInv' /\ Kept(r)
  BY <1>1, StoresStay
<1>5. (InEvo(r) \/ r \in skipped) /\ status[r] # "none" /\ kind # "employee" /\ Entered(r)
  BY <1>1 DEF IInv, RowInv, InStores, OfItsKind
<1>6. RowInv(r)'
  <2>1. CASE Goto(r, "markFailed")
    BY <1>1, <1>5, <2>1, AsideInv DEF IInv, Types, Goto, Report, Aside
  <2>2. CASE Goto(r, "answered") /\ Report(r, "Processed")
    <3>1. step'[r] = "answered" /\ status'[r] = "Processed"
      BY <2>2 DEF IInv, Types, Goto, Report
    <3>2. Done(r)'
      BY <1>1, <1>5 DEF Done, InHr, InEvo, Entered, rest, setting
    <3> QED BY <3>1, <3>2 DEF RowInv, OfItsKind, InStores, Truthful
  <2>3. CASE Goto(r, "answered") /\ UNCHANGED status /\ GoesWrong("missed")
    <3>1. step'[r] = "answered" /\ status'[r] # "none"
      BY <1>5, <2>3 DEF IInv, Types, Goto
    <3>2. failures'["missed"] # 0
      BY <2>3 DEF IInv, Types, GoesWrong, FaultKinds
    <3> QED BY <3>1, <3>2 DEF RowInv, OfItsKind, InStores, Truthful
  <2> QED BY <1>1, <2>1, <2>2, <2>3
<1> QED BY <1>1, <1>2, <1>3, <1>4, <1>6, FunctionKeeps DEF Idle

LEMMA ReportFailedKeeps ==
    ASSUME IInv, NEW r \in Rows, step[r] \in {"markFailed", "markInBulk"},
           NEW handler \in {"thrown", "markInBulk"}, ReportFailed(r, handler)
    PROVE  IInv'
<1>1. /\ UNCHANGED <<rest, hr, updated, evo, patch, skipped>>
      /\ UNCHANGED failures \/ \E fault \in FaultKinds : GoesWrong(fault)
      /\ \/ Goto(r, "answered") /\ Report(r, "Failed")
         \/ Goto(r, handler) /\ (UNCHANGED status \/ Report(r, "Failed"))
         \/ Goto(r, "answered") /\ UNCHANGED status /\ GoesWrong("missed")
  BY DEF ReportFailed, Call, Missed, locals, stores, FaultKinds
<1>2. failures' \in [FaultKinds -> Nat] /\ Counted
  BY <1>1, Faulty
<1>3. Types' /\ Others(r)
  BY <1>1, <1>2 DEF IInv, Types, Goto, Report, Others, rest, setting, Steps, RowStatuses
<1>4. HrInv' /\ Kept(r)
  BY <1>1, StoresStay
<1>5. status[r] # "none"
  BY <1>1 DEF IInv, RowInv
<1>6. RowInv(r)'
  <2>1. CASE Goto(r, handler)
    BY <1>1, <1>5, <2>1, AsideInv DEF IInv, Types, Goto, Report, Aside
  <2>2. CASE Goto(r, "answered") /\ Report(r, "Failed")
    <3>1. step'[r] = "answered" /\ status'[r] = "Failed"
      BY <2>2 DEF IInv, Types, Goto, Report
    <3> QED BY <3>1 DEF RowInv, OfItsKind, InStores, Truthful
  <2>3. CASE Goto(r, "answered") /\ UNCHANGED status /\ GoesWrong("missed")
    <3>1. step'[r] = "answered" /\ status'[r] # "none"
      BY <1>5, <2>3 DEF IInv, Types, Goto
    <3>2. failures'["missed"] # 0
      BY <2>3 DEF IInv, Types, GoesWrong, FaultKinds
    <3> QED BY <3>1, <3>2 DEF RowInv, OfItsKind, InStores, Truthful
  <2> QED BY <1>1, <2>1, <2>2, <2>3
<1> QED BY <1>1, <1>2, <1>3, <1>4, <1>6, FunctionKeeps DEF Idle

LEMMA MarkFailedKeeps ==
    ASSUME IInv, NEW r \in Rows, MarkFailed(r) \/ MarkInBulk(r)
    PROVE  IInv'
BY ReportFailedKeeps DEF MarkFailed, MarkInBulk

LEMMA RollbackKeeps ==
    ASSUME IInv, NEW r \in Rows, Rollback(r)
    PROVE  IInv'
<1>1. /\ step[r] = "rollback" /\ UNCHANGED <<rest, status, updated, evo, patch, skipped>>
      /\ UNCHANGED failures \/ \E fault \in FaultKinds : GoesWrong(fault)
      /\ Goto(r, "markFailed")
      /\ hr' = {x \in hr : x.row # r \/ x.linked} \/ UNCHANGED hr
  BY DEF Rollback, Call, Missed, locals, FaultKinds
<1>2. failures' \in [FaultKinds -> Nat] /\ Counted
  BY <1>1, Faulty
<1>3. Types' /\ Others(r) /\ step'[r] = "markFailed"
  BY <1>1, <1>2 DEF IInv, Types, Goto, Others, rest, setting, Steps
<1>4. HrInv' /\ Kept(r)
  BY <1>1 DEF IInv, HrInv, IsEntry, LinkedMeansInEvo, InEvo, Kept, rest, setting
<1>5. RowInv(r)'
  BY <1>1, <1>3, AsideInv DEF IInv, RowInv, Aside
<1> QED BY <1>1, <1>2, <1>3, <1>4, <1>5, FunctionKeeps DEF Idle

LEMMA UpdateHrKeeps ==
    ASSUME IInv, NEW r \in Rows, UpdateHr(r)
    PROVE  IInv'
<1> DEFINE served == UpdatedEmployee(r)
<1>1. /\ step[r] = "updateHr" /\ UNCHANGED <<rest, hr, evo, patch, skipped>>
      /\ UNCHANGED failures \/ \E fault \in FaultKinds : GoesWrong(fault)
      /\ \/ Goto(r, "answered") /\ served
         \/ Goto(r, "markFailed") /\ (served \/ UNCHANGED <<updated, status>>)
         \/ Goto(r, "answered") /\ Report(r, "Failed") /\ UNCHANGED updated
  BY DEF UpdateHr, Call, locals, FaultKinds
<1>0. served => updated' = updated \cup {r} /\ Report(r, "Processed")
  BY DEF UpdatedEmployee
<1> HIDE DEF served
<1>2. failures' \in [FaultKinds -> Nat] /\ Counted
  BY <1>1, Faulty
<1>3. Types' /\ Others(r)
  BY <1>0, <1>1, <1>2 DEF IInv, Types, Goto, Report, Others, rest, setting, Steps, RowStatuses
<1>4. kind = "employee" /\ r \in evo.employee /\ status[r] # "none"
  BY <1>1 DEF IInv, RowInv, OfItsKind, InStores
<1>5. HrInv' /\ Kept(r)
  BY <1>0, <1>1 DEF IInv, HrInv, IsEntry, LinkedMeansInEvo, InEvo, Kept, rest, setting
<1>6. RowInv(r)'
  <2>1. CASE Goto(r, "markFailed")
    BY <1>0, <1>1, <1>4, <2>1, AsideInv DEF IInv, Types, Goto, Report, Aside
  <2>2. CASE Goto(r, "answered") /\ served
    <3>1. step'[r] = "answered" /\ status'[r] = "Processed" /\ r \in updated'
      BY <1>0, <2>2 DEF IInv, Types, Goto, Report
    <3>2. Done(r)'
      BY <1>1, <1>4, <3>1 DEF Done, InHr, InEvo, rest, setting
    <3> QED BY <3>1, <3>2 DEF RowInv, OfItsKind, InStores, Truthful
  <2>3. CASE Goto(r, "answered") /\ Report(r, "Failed")
    <3>1. step'[r] = "answered" /\ status'[r] = "Failed"
      BY <2>3 DEF IInv, Types, Goto, Report
    <3> QED BY <3>1 DEF RowInv, OfItsKind, InStores, Truthful
  <2> QED BY <1>1, <2>1, <2>2, <2>3
<1> QED BY <1>1, <1>2, <1>3, <1>5, <1>6, FunctionKeeps DEF Idle

LEMMA DieKeeps ==
    ASSUME IInv, NEW r \in Rows, Die(r)
    PROVE  IInv'
BY QuietKeeps DEF Die, locals, stores, FaultKinds, Steps, Aside

LEMMA RowKeeps ==
    ASSUME IInv, NEW r \in Rows, Row(r) \/ Die(r)
    PROVE  IInv'
<1>1. CASE updateEmployee(r)
  BY <1>1, ValidateEmployeeKeeps, ReadEmployeeKeeps, ChangeEmployeeKeeps, UpdateHrKeeps,
     MarkFailedKeeps DEF updateEmployee
<1>2. CASE updateCompensation(r)
  BY <1>2, ValidateCompensationKeeps, InsertCompensationKeeps, ReadWagesKeeps,
     GetCompensationsKeeps, PatchWageKeeps, PatchPromiseKeeps, PatchEmployeeKeeps, LinkKeeps,
     MarkProcessedKeeps, RollbackKeeps, MarkFailedKeeps DEF updateCompensation
<1>3. CASE updateAlternateRate(r)
  BY <1>3, ValidateAlternateRateKeeps, InsertAlternateRateKeeps, ReadRatesKeeps, FindNoRatesKeeps,
     GetCompensationsKeeps, PostWageKeeps, PutWageKeeps, PatchWageKeeps, LinkKeeps,
     MarkProcessedKeeps, RollbackKeeps, MarkFailedKeeps DEF updateAlternateRate
<1>4. CASE FindCompany(r) \/ MarkInBulk(r)
  BY <1>4, FindCompanyKeeps, MarkFailedKeeps
<1> QED BY <1>1, <1>2, <1>3, <1>4, DieKeeps
        DEF Row, updateEmployeeInBulk, updateCompensationInBulk, updateAlternateRateInBulk

-----------------------------------------------------------------------------
(* The steps of the event and the machine.                                     *)

seen == <<kind, integrated, content, status, step, patch, skipped, hr, updated, evo>>

\* A step that no row sees.
LEMMA UnseenKeeps ==
    ASSUME IInv, UNCHANGED seen, MachineInv',
           UNCHANGED failures \/ \E fault \in FaultKinds : GoesWrong(fault)
    PROVE  IInv'
<1>1. failures' \in [FaultKinds -> Nat] /\ Counted
  BY Faulty
<1>2. Types'
  BY <1>1 DEF IInv, Types, seen
<1>3. HrInv'
  BY DEF IInv, HrInv, IsEntry, LinkedMeansInEvo, InEvo, seen
<1>4. ASSUME NEW r \in Rows
      PROVE  RowInv(r)'
  <2>1. RowInv(r)
    BY DEF IInv
  <2>2. UNCHANGED <<OfItsKind(r), InStores(r), Done(r), step[r], status[r]>>
    BY DEF OfItsKind, InStores, Done, InHr, InEvo, Entered, seen
  <2> QED BY <1>1, <2>1, <2>2 DEF RowInv, Truthful, Counted
<1> QED BY <1>2, <1>3, <1>4 DEF IInv

LEMMA FinalStatusDerived == FinalStatus \in Derived
BY DEF FinalStatus, Derived

LEMMA UnseenMachine ==
    ASSUME IInv,
           \/ ImportFails \/ StartExecution \/ SetProcessing \/ RowsFail \/ RowsEnd
           \/ SetCompleted \/ SetFailed \/ Ending
           \/ \E r \in Rows : PostedWage(r)
    PROVE  IInv'
<1>1. /\ UNCHANGED seen
      /\ UNCHANGED failures \/ \E fault \in FaultKinds : GoesWrong(fault)
  BY DEF ImportFails, StartExecution, SetProcessing, RowsFail, RowsEnd, SetCompleted,
         SetFailed, Ending, Summarise, WriteFinal, WriteError, WriteStatus, Freeze, PostedWage, seen, setting,
         locals, stores, rest, FaultKinds
<1>2. UNCHANGED <<Imported, Answered, FinalStatus>>
  BY <1>1 DEF seen, Imported, Answered, FinalStatus, StatusGroups
<1>3. MachineInv
  BY DEF IInv
<1>4. machine' # "idle"  \/ UNCHANGED machine
  BY DEF ImportFails, StartExecution, SetProcessing, RowsFail, RowsEnd, SetCompleted,
         SetFailed, Ending, Summarise, WriteFinal, WriteError, WriteStatus, Freeze, PostedWage, rest
<1>5. MachineInv'
  <2>1. CASE ImportFails \/ StartExecution \/ RowsFail \/ SetFailed
    BY <1>2, <1>3, <2>1 DEF MachineInv, ImportFails, StartExecution, RowsFail, SetFailed, Derived
  <2>2. CASE SetProcessing
    BY <1>2, <1>3, <2>2 DEF MachineInv, SetProcessing, Derived
  <2>3. CASE RowsEnd \/ SetCompleted
    BY <1>2, <1>3, <2>3 DEF MachineInv, RowsEnd, SetCompleted, Answered, Derived
  <2>4. CASE Summarise
    BY <1>1, <1>2, <1>3, <2>4, FinalStatusDerived DEF MachineInv, Summarise, Derived, seen
  <2>5. CASE WriteFinal \/ WriteError \/ Freeze
    BY <1>1, <1>2, <1>3, <2>5 DEF MachineInv, WriteFinal, WriteError, WriteStatus, Freeze, Derived, Final, seen
  <2>6. CASE \E r \in Rows : PostedWage(r)
    BY <1>1, <1>2, <1>3, <2>6 DEF MachineInv, PostedWage, rest, seen
  <2> QED BY <2>1, <2>2, <2>3, <2>4, <2>5, <2>6 DEF Ending
<1> QED BY <1>1, <1>5, UnseenKeeps

LEMMA StartRowKeeps ==
    ASSUME IInv, NEW r \in Rows, StartRow(r)
    PROVE  IInv'
<1> DEFINE first == IF bulk THEN "findCompany" ELSE "validate"
<1>1. /\ step[r] = "waiting" /\ r \in Imported /\ Goto(r, first) /\ machine = "rows"
      /\ UNCHANGED <<rest, status, patch, skipped, hr, updated, evo, failures>>
  BY DEF StartRow, Goto, rest, locals, stores
<1>2. Types' /\ Others(r) /\ step'[r] = first
  BY <1>1 DEF IInv, Types, Goto, Others, rest, setting, Steps
<1>3. HrInv' /\ Kept(r)
  BY <1>1, StoresStay
<1>4. RowInv(r)'
  BY <1>1, <1>2 DEF RowInv, OfItsKind, InStores, Truthful, Imported
<1>5. \A q \in Rows : RowInv(q)'
  BY <1>1, <1>2, <1>3, <1>4, OthersKeep DEF Counted, rest, setting
<1>6. MachineInv'
  BY <1>1 DEF IInv, MachineInv, Answered, rest
<1> QED BY <1>2, <1>3, <1>5, <1>6 DEF IInv

LEMMA ImportKeeps ==
    ASSUME IInv, NEW n \in Nat, Import(n)
    PROVE  IInv'
<1>1. /\ machine = "idle" /\ machine' = "imported" /\ event' = "Ready"
      /\ status' = [r \in Rows |-> IF r <= n THEN "Ready" ELSE "none"]
      /\ UNCHANGED <<kind, integrated, ending, step, patch, skipped, hr, updated, evo, failures>>
  BY DEF Import, locals, stores
<1>2. ending = "none" /\ \A r \in Rows : step[r] = "waiting"
  BY <1>1 DEF IInv, MachineInv
<1>3. Types'
  BY <1>1 DEF IInv, Types, RowStatuses
<1>4. HrInv'
  BY <1>1 DEF IInv, HrInv, IsEntry, LinkedMeansInEvo, InEvo
<1>5. \A r \in Rows : RowInv(r)'
  BY <1>1, <1>2 DEF RowInv, OfItsKind, InStores, Truthful
<1>6. MachineInv'
  BY <1>1, <1>2 DEF MachineInv, Derived
<1> QED BY <1>3, <1>4, <1>5, <1>6 DEF IInv

LEMMA NextKeeps == IInv /\ [Next]_vars => IInv'
<1> SUFFICES ASSUME IInv, [Next]_vars
             PROVE  IInv'
  OBVIOUS
<1>1. CASE UNCHANGED vars
  <2>1. UNCHANGED seen /\ UNCHANGED <<machine, ending, event, failures>>
    BY <1>1 DEF vars, seen, setting, locals, stores
  <2>2. MachineInv'
    BY <2>1 DEF IInv, MachineInv, Answered, Imported, FinalStatus, StatusGroups, seen
  <2> QED BY <2>1, <2>2, UnseenKeeps
<1>2. ASSUME NEW n \in 0 .. MaxRows, Import(n)
      PROVE  IInv'
  BY <1>2, ImportKeeps, ConstantsAssumption
<1>3. CASE Next
  BY <1>2, <1>3, RowKeeps, UnseenMachine, StartRowKeeps
  DEF Next, Machine, dataImports, dataImportsInBulk
<1> QED BY <1>1, <1>3

-----------------------------------------------------------------------------

\* However many rows are served at once and whatever goes wrong, an entry of HR
\* that carries a key of payroll is in payroll.
THEOREM KeysAreOfPayroll == Spec => []LinkedMeansInEvo
<1>1. IInv => LinkedMeansInEvo
  BY DEF IInv, HrInv
<1> QED BY <1>1, InitInv, NextKeeps, PTL DEF Spec

\* For any number of rows, of which any number is served at once, and whatever goes
\* wrong but a write that misses its database, the final status of an import tells
\* which of its rows HR and payroll hold.
THEOREM FinalStatusIsTrue == Spec => []StatusTellsTruth
<1>1. IInv => StatusTellsTruth
  <2> SUFFICES ASSUME IInv, failures["missed"] = 0, event \in Derived
               PROVE  StatusTellsTruth
    BY DEF StatusTellsTruth, Derived
  <2>1. event = FinalStatus /\ \A r \in Imported : step[r] = "answered"
    BY DEF IInv, MachineInv, Answered
  <2>2. \A r \in Imported : \/ status[r] = "Failed"
                            \/ status[r] = "Processed" /\ Done(r)
    <3> SUFFICES ASSUME NEW r \in Imported
                 PROVE  \/ status[r] = "Failed"
                        \/ status[r] = "Processed" /\ Done(r)
      OBVIOUS
    <3>1. Truthful(r)
      BY DEF IInv, RowInv, Imported
    <3> QED BY <2>1, <3>1 DEF Truthful
  <2>3. CASE event = "Processed"
    <3>1. StatusGroups = {"Processed"}
      BY <2>1, <2>3 DEF FinalStatus
    <3>2. \A r \in Imported : status[r] = "Processed"
      BY <3>1 DEF StatusGroups
    <3> QED BY <2>2, <2>3, <3>2 DEF StatusTellsTruth
  <2>4. CASE event = "Partially Processed"
    <3>1. "Processed" \in StatusGroups /\ StatusGroups # {"Processed"}
      BY <2>1, <2>4 DEF FinalStatus
    <3>2. /\ \E r \in Imported : status[r] = "Processed"
          /\ \E r \in Imported : status[r] # "Processed"
      BY <3>1 DEF StatusGroups
    <3> QED BY <2>2, <2>4, <3>2 DEF StatusTellsTruth
  <2>5. CASE event = "Failed"
    <3>1. "Processed" \notin StatusGroups
      BY <2>1, <2>5 DEF FinalStatus
    <3>2. \A r \in Imported : status[r] # "Processed"
      BY <3>1 DEF StatusGroups
    <3> QED BY <2>2, <2>5, <3>2 DEF StatusTellsTruth
  <2> QED BY <2>3, <2>4, <2>5 DEF Derived
<1> QED BY <1>1, InitInv, NextKeeps, PTL DEF Spec

-----------------------------------------------------------------------------
(* What a failed row leaves in HR.                                             *)

\* The number of refusals that a row survives with its entry deleted or linked.
Due(r) == IF integrated /\ hasWage[r] /\ r \notin skipped THEN 1 ELSE 0

Refused == failures["refused"]

\* Neither an answer nor a database has been missed.
Tidy == failures["lost"] = 0 /\ failures["missed"] = 0

NoEntry(r) == \A x \in hr : x.row # r

Known(r) == \A x \in hr : x.row = r => x.linked

NotInserted == {"waiting", "findCompany", "validate", "insert"}

\* What is due at each step of a row: at "rollback" a call was refused or the row was
\* bound to fail; after it, its entry is gone, or the rollback was refused as well.
Settled(r) ==
    /\ kind = "employee" \/ step[r] \in NotInserted => NoEntry(r)
    /\ step[r] = "rollback" => Refused >= Due(r)
    /\ step[r] = "markProcessed" => ~integrated \/ r \in skipped \/ Known(r)
    /\ step[r] \in {"markFailed", "markInBulk"} \/ (step[r] = "answered" /\ status[r] = "Failed")
         => Refused > Due(r) \/ Known(r)

SettledInv ==
    /\ hasWage \in [Rows -> BOOLEAN]
    /\ Tidy => \A r \in Rows : Settled(r)

LEMMA InitSettled == Init => SettledInv
<1> SUFFICES ASSUME Init
             PROVE  SettledInv
  OBVIOUS
<1>1. \A x \in hr : x.row = 0
  BY DEF Init, Earlier
<1>2. \A r \in Rows : step[r] = "waiting" /\ NoEntry(r)
  BY <1>1 DEF Init, NoEntry, Rows
<1> QED BY <1>2 DEF Init, SettledInv, Settled

\* The entries of q, which a step of another row at most links or ends.
SameEntries(q) ==
    \A y \in hr' : y.row = q => \E x \in hr : x.row = q /\ (x.linked => y.linked)

CountsUp ==
    /\ failures' \in [FaultKinds -> Nat]
    /\ \A f \in FaultKinds : failures[f] <= failures'[f]

LEMMA CountingUp ==
    ASSUME failures \in [FaultKinds -> Nat],
           UNCHANGED failures \/ \E fault \in FaultKinds : GoesWrong(fault)
    PROVE  CountsUp
BY DEF CountsUp, GoesWrong

LEMMA TidyBefore ==
    ASSUME IInv, CountsUp, Tidy'
    PROVE  Tidy /\ Refused \in Nat /\ Refused' \in Nat /\ Refused <= Refused'
BY DEF IInv, Types, CountsUp, Tidy, Refused, FaultKinds

LEMMA OtherSettled ==
    ASSUME NEW q \in Rows, Settled(q), SameEntries(q),
           UNCHANGED <<kind, integrated, step[q], status[q], hasWage[q], q \in skipped>>,
           Refused \in Nat, Refused' \in Nat, Refused <= Refused'
    PROVE  Settled(q)'
<1>1. UNCHANGED Due(q) /\ Due(q) \in Nat
  BY DEF Due
<1>2. (NoEntry(q) => NoEntry(q)') /\ (Known(q) => Known(q)')
  BY DEF SameEntries, NoEntry, Known
<1> QED BY <1>1, <1>2 DEF Settled

\* A row that has its entry goes on, or falls into the catch around payroll.
LEMMA PayrollSettled ==
    ASSUME IInv, SettledInv, NEW r \in Rows, Tidy', CountsUp,
           \/ ReadWages(r) \/ ReadRates(r) \/ GetCompensations(r) \/ GetAlternateRates(r)
           \/ FindNoRates(r) \/ PostWage(r) \/ PutWage(r) \/ PatchWage(r) \/ PatchRate(r) \/ PatchPromise(r)
           \/ PatchEmployee(r)
    PROVE  Settled(r)'
<1>1. UNCHANGED <<kind, integrated>> /\ kind # "employee"
  BY DEF ReadWages, ReadRates, GetCompensations, GetAlternateRates, FindNoRates, ReadHr, PostWage,
         PutWage, PatchWage, PatchRate, PatchPromise, PatchEmployee, rest, setting, IInv, RowInv, OfItsKind
<1>2. /\ step \in [Rows -> Steps] /\ hasWage \in [Rows -> BOOLEAN]
      /\ failures \in [FaultKinds -> Nat] /\ failures' \in [FaultKinds -> Nat]
  BY DEF IInv, Types, SettledInv, CountsUp
<1>3. GoesWrong("lost") => FALSE
  BY <1>2 DEF GoesWrong, Tidy, FaultKinds
<1>4. GoesWrong("refused") => Refused' >= 1
  BY <1>2 DEF GoesWrong, Refused, FaultKinds
<1>5. ASSUME Goto(r, "rollback")
      PROVE  Refused' >= 1 \/ Due(r)' = 0
  <2>1. step'[r] = "rollback"
    BY <1>2, <1>5 DEF Goto
  <2>2. CASE ReadWages(r)
    <3>1. CASE integrated
      BY <1>2, <1>3, <1>4, <2>1, <2>2, <3>1 DEF ReadWages, Skip, Call, Goto, Handler
    <3>2. CASE ~integrated
      BY <1>1, <3>2 DEF Due
    <3> QED BY <3>1, <3>2
  <2>3. CASE ReadRates(r)
    BY <1>2, <1>3, <1>4, <2>1, <2>3 DEF ReadRates, Skip, Call, Goto, Handler
  <2>4. CASE GetCompensations(r) \/ GetAlternateRates(r)
    BY <1>2, <1>3, <1>4, <2>1, <2>4 DEF GetCompensations, GetAlternateRates, ReadHr, Call, Goto
  <2>5. CASE \/ PostWage(r) \/ PutWage(r) \/ PatchWage(r) \/ PatchRate(r) \/ PatchEmployee(r)
    BY <1>2, <1>3, <1>4, <2>1, <2>5
       DEF PostWage, PutWage, PatchWage, PatchRate, PatchEmployee, Call, Goto
  <2>6. CASE PatchPromise(r)
    BY <1>1, <1>2, <2>6 DEF PatchPromise, Due, locals
  <2>7. CASE FindNoRates(r)
    BY <1>2, <2>1, <2>7 DEF FindNoRates, Skip, Goto
  <2> QED BY <2>2, <2>3, <2>4, <2>5, <2>6, <2>7
<1>6. ASSUME Goto(r, "markProcessed")
      PROVE  ~integrated' \/ r \in skipped'
  <2>1. step'[r] = "markProcessed"
    BY <1>2, <1>6 DEF Goto
  <2> QED BY <1>1, <1>2, <2>1
          DEF ReadWages, ReadRates, GetCompensations, GetAlternateRates, FindNoRates, Skip,
              ReadHr, PostWage, PutWage, PatchWage, PatchRate, PatchPromise, PatchEmployee, Call, Goto, Handler
<1>7. \/ Goto(r, "rollback") \/ Goto(r, "markProcessed")
      \/ \E label \in {"readHr", "postWage", "putWage", "patchWage", "patchEmployee", "link", "answered", "dead"} :
            Goto(r, label)
  <2>1. CASE ReadWages(r) \/ ReadRates(r)
    BY <2>1 DEF ReadWages, ReadRates, Skip, Call, Handler
  <2>2. CASE GetCompensations(r) \/ GetAlternateRates(r)
    BY <2>2 DEF GetCompensations, GetAlternateRates, ReadHr, Call, Handler
  <2>3. CASE \/ PostWage(r) \/ PutWage(r) \/ PatchWage(r) \/ PatchRate(r) \/ PatchEmployee(r)
             \/ PatchPromise(r)
    BY <2>3 DEF PostWage, PutWage, PatchWage, PatchRate, PatchEmployee, PatchPromise, Call, Handler
  <2>4. CASE FindNoRates(r)
    BY <2>4 DEF FindNoRates, Skip
  <2> QED BY <2>1, <2>2, <2>3, <2>4
<1>8. Refused' \in Nat /\ Due(r)' \in 0 .. 1
  BY <1>2 DEF Refused, FaultKinds, Due
<1>9. step'[r] \in {"rollback", "markProcessed", "readHr", "postWage", "putWage", "patchWage",
                    "patchEmployee", "link", "answered", "dead"}
  BY <1>2, <1>7 DEF Goto
<1>10. step'[r] = "rollback" => Refused' >= Due(r)'
  BY <1>2, <1>5, <1>7, <1>8 DEF Goto
<1>11. step'[r] = "markProcessed" => ~integrated' \/ r \in skipped'
  BY <1>2, <1>6, <1>7 DEF Goto
<1>12. step'[r] = "answered" => status'[r] = "Processed"
  <2> SUFFICES ASSUME step'[r] = "answered"
               PROVE  status'[r] = "Processed"
    OBVIOUS
  <2>1. FindNoRates(r)
    BY <1>2 DEF ReadWages, ReadRates, GetCompensations, GetAlternateRates, Skip, ReadHr, PostWage,
                PutWage, PatchWage, PatchRate, PatchPromise, PatchEmployee, Call, Goto, Handler
  <2> QED BY <2>1 DEF FindNoRates, IInv, RowInv, InStores
<1> QED BY <1>1, <1>9, <1>10, <1>11, <1>12 DEF Settled, NotInserted

\* A row without an entry has nothing to leave, whatever step it takes.
LEMMA WithoutEntry ==
    ASSUME NEW r \in Rows, NoEntry(r), UNCHANGED hr, step'[r] # "rollback"
    PROVE  Settled(r)'
BY DEF Settled, NoEntry, Known

LEMMA EarlySettled ==
    ASSUME IInv, SettledInv, NEW r \in Rows, Settled(r),
           \/ FindCompany(r) \/ ValidateEmployee(r) \/ ValidateCompensation(r)
           \/ ValidateAlternateRate(r) \/ ReadEmployee(r) \/ ChangeEmployee(r) \/ UpdateHr(r)
    PROVE  Settled(r)'
<1>1. UNCHANGED hr
  BY DEF FindCompany, ValidateEmployee, ValidateCompensation, ValidateAlternateRate, ReadEmployee,
         ChangeEmployee, UpdateHr, stores
<1>2. step[r] \in NotInserted \/ kind = "employee"
  BY DEF FindCompany, ValidateEmployee, ValidateCompensation, ValidateAlternateRate, ReadEmployee,
         ChangeEmployee, UpdateHr, NotInserted, IInv, RowInv, OfItsKind
<1>3. \E label \in Steps \ {"rollback"} : Goto(r, label)
  <2>1. CASE FindCompany(r) \/ ReadEmployee(r) \/ ChangeEmployee(r) \/ UpdateHr(r)
    BY <2>1 DEF FindCompany, ReadEmployee, ChangeEmployee, UpdateHr, Call, Steps
  <2>2. CASE ValidateEmployee(r) \/ ValidateCompensation(r) \/ ValidateAlternateRate(r)
    BY <2>2 DEF ValidateEmployee, ValidateCompensation, ValidateAlternateRate, Invalid, Call, Steps
  <2> QED BY <2>1, <2>2
<1>4. step'[r] # "rollback"
  BY <1>3 DEF IInv, Types, Goto
<1> QED BY <1>1, <1>2, <1>4, WithoutEntry DEF Settled

\* The entry is inserted, or nothing is and the row has none.
LEMMA InsertSettled ==
    ASSUME IInv, NEW r \in Rows, Settled(r), Tidy', CountsUp,
           InsertCompensation(r) \/ InsertAlternateRate(r)
    PROVE  Settled(r)'
<1>1. PICK before : Insert(r, before)
  BY DEF InsertCompensation, InsertAlternateRate
<1>2. kind # "employee" /\ UNCHANGED kind
  BY DEF InsertCompensation, InsertAlternateRate, Insert, rest, setting
<1>3. GoesWrong("lost") => FALSE
  BY DEF GoesWrong, Tidy, FaultKinds, IInv, Types
<1>4. Goto(r, "readEvo") \/ (Goto(r, "markFailed") /\ UNCHANGED hr)
  BY <1>1, <1>3 DEF Insert, Call
<1>5. NoEntry(r)
  BY <1>1 DEF Settled, Insert, NotInserted
<1>6. CASE Goto(r, "readEvo")
  <2>1. step'[r] = "readEvo"
    BY <1>6 DEF IInv, Types, Goto
  <2> QED BY <1>2, <2>1 DEF Settled, NotInserted
<1>7. CASE Goto(r, "markFailed") /\ UNCHANGED hr
  <2>1. step'[r] = "markFailed"
    BY <1>7 DEF IInv, Types, Goto
  <2> QED BY <1>5, <1>7, <2>1, WithoutEntry
<1> QED BY <1>4, <1>6, <1>7

LEMMA LinkSettled ==
    ASSUME IInv, SettledInv, NEW r \in Rows, Link(r), kind # "employee", Tidy', CountsUp
    PROVE  Settled(r)'
<1>1. /\ UNCHANGED <<kind, integrated, hasWage, skipped>>
      /\ failures \in [FaultKinds -> Nat] /\ failures' \in [FaultKinds -> Nat]
  BY DEF Link, rest, setting, locals, IInv, Types, CountsUp
<1>2. (GoesWrong("lost") \/ GoesWrong("missed")) => FALSE
  BY <1>1 DEF GoesWrong, Tidy, FaultKinds
<1>3. GoesWrong("refused") => Refused' >= 1
  BY <1>1 DEF GoesWrong, Refused, FaultKinds
<1>4. \/ Goto(r, "markProcessed") /\ hr' = Linked(r)
      \/ Goto(r, "rollback") /\ Refused' >= 1
  BY <1>2, <1>3 DEF Link, Call, Missed, Handler
<1>5. CASE Goto(r, "markProcessed") /\ hr' = Linked(r)
  <2>1. step'[r] = "markProcessed"
    BY <1>5 DEF IInv, Types, Goto
  <2>2. \A x \in hr : x.row = r => [x EXCEPT !.linked = TRUE].linked = TRUE
    BY DEF IInv, HrInv, IsEntry
  <2>3. Known(r)'
    BY <1>5, <2>2 DEF Known, Linked
  <2> QED BY <1>1, <2>1, <2>3 DEF Settled, NotInserted
<1>6. CASE Goto(r, "rollback") /\ Refused' >= 1
  <2>1. step'[r] = "rollback"
    BY <1>6 DEF IInv, Types, Goto
  <2>2. Refused' >= Due(r)'
    BY <1>1, <1>6 DEF Due, Refused, FaultKinds
  <2> QED BY <1>1, <2>1, <2>2 DEF Settled, NotInserted
<1> QED BY <1>4, <1>5, <1>6

LEMMA MarkProcessedSettled ==
    ASSUME IInv, SettledInv, NEW r \in Rows, Settled(r), MarkProcessed(r), Tidy', CountsUp
    PROVE  Settled(r)'
<1>1. /\ UNCHANGED <<kind, integrated, hasWage, skipped, hr>> /\ step[r] = "markProcessed"
      /\ failures \in [FaultKinds -> Nat] /\ failures' \in [FaultKinds -> Nat]
  BY DEF MarkProcessed, rest, setting, locals, stores, IInv, Types, CountsUp
<1>2. (GoesWrong("lost") \/ GoesWrong("missed")) => FALSE
  BY <1>1 DEF GoesWrong, Tidy, FaultKinds
<1>3. GoesWrong("refused") => Refused' >= 1
  BY <1>1 DEF GoesWrong, Refused, FaultKinds
<1>4. kind # "employee"
  BY <1>1 DEF IInv, RowInv, OfItsKind
<1>5. ~integrated \/ r \in skipped \/ Known(r)
  BY <1>1 DEF Settled
<1>6. \/ Goto(r, "answered") /\ Report(r, "Processed")
      \/ Goto(r, "markFailed") /\ Refused' >= 1
  BY <1>2, <1>3 DEF MarkProcessed, Call, Missed
<1>7. \/ step'[r] = "answered" /\ status'[r] = "Processed"
      \/ step'[r] = "markFailed" /\ Refused' >= 1
  BY <1>6 DEF IInv, Types, Goto, Report
<1>8. ~integrated \/ r \in skipped => Due(r)' = 0
  BY <1>1 DEF Due
<1>9. Refused' \in Nat /\ (Known(r) => Known(r)')
  BY <1>1 DEF Refused, FaultKinds, Known
<1> QED BY <1>1, <1>4, <1>5, <1>7, <1>8, <1>9 DEF Settled, NotInserted

\* Nothing but a second refusal keeps an entry that was not linked.
LEMMA RollbackSettled ==
    ASSUME IInv, SettledInv, NEW r \in Rows, Settled(r), Rollback(r), kind # "employee",
           Tidy', CountsUp
    PROVE  Settled(r)'
<1>1. /\ UNCHANGED <<kind, integrated, hasWage, skipped>> /\ step[r] = "rollback"
      /\ failures \in [FaultKinds -> Nat] /\ failures' \in [FaultKinds -> Nat]
  BY DEF Rollback, rest, setting, locals, IInv, Types, CountsUp
<1>2. (GoesWrong("lost") \/ GoesWrong("missed")) => FALSE
  BY <1>1 DEF GoesWrong, Tidy, FaultKinds
<1>3. GoesWrong("refused") => Refused' = Refused + 1
  BY <1>1 DEF GoesWrong, Refused, FaultKinds
<1>4. /\ Goto(r, "markFailed")
      /\ hr' = {x \in hr : x.row # r \/ x.linked} \/ Refused' = Refused + 1
  BY <1>2, <1>3 DEF Rollback, Call, Missed
<1>5. step'[r] = "markFailed"
  BY <1>4 DEF IInv, Types, Goto
<1>6. Refused >= Due(r) /\ Refused \in Nat /\ Due(r) \in 0 .. 1 /\ UNCHANGED Due(r)
  BY <1>1 DEF Settled, Refused, Due, FaultKinds
<1>7. hr' = {x \in hr : x.row # r \/ x.linked} => Known(r)'
  BY DEF Known
<1> QED BY <1>1, <1>4, <1>5, <1>6, <1>7 DEF Settled, NotInserted

LEMMA ReportFailedSettled ==
    ASSUME IInv, NEW r \in Rows, Settled(r), Tidy', CountsUp, MarkFailed(r) \/ MarkInBulk(r)
    PROVE  Settled(r)'
<1>1. /\ UNCHANGED <<kind, integrated, hasWage, skipped, hr>> /\ step[r] \in {"markFailed", "markInBulk"}
      /\ failures \in [FaultKinds -> Nat] /\ failures' \in [FaultKinds -> Nat]
      /\ Refused \in Nat /\ Refused' \in Nat /\ Refused <= Refused'
  BY DEF MarkFailed, MarkInBulk, ReportFailed, rest, setting, locals, stores, IInv, Types,
         CountsUp, Refused, FaultKinds
<1>2. \E label \in {"answered", "markInBulk", "thrown"} : Goto(r, label)
  BY DEF MarkFailed, MarkInBulk, ReportFailed, Call, Missed
<1>3. step'[r] \in {"answered", "markInBulk", "thrown"}
  BY <1>2 DEF IInv, Types, Goto
<1>4. Refused > Due(r) \/ Known(r)
  BY <1>1 DEF Settled
<1>5. UNCHANGED <<Due(r), Known(r), NoEntry(r)>> /\ Due(r) \in 0 .. 1
  BY <1>1 DEF Due, Known, NoEntry
<1> QED BY <1>1, <1>3, <1>4, <1>5 DEF Settled, NotInserted

LEMMA DieSettled ==
    ASSUME IInv, NEW r \in Rows, Settled(r), Die(r)
    PROVE  Settled(r)'
<1>1. UNCHANGED <<kind, hr>> /\ Goto(r, "dead")
  BY DEF Die, rest, setting, stores
<1>2. step'[r] = "dead"
  BY <1>1 DEF IInv, Types, Goto
<1> QED BY <1>1, <1>2 DEF Settled, NotInserted, NoEntry

\* The steps that change the entries of HR.
LEMMA HrChanges ==
    ASSUME NEW r \in Rows, Row(r) \/ Die(r)
    PROVE  \/ UNCHANGED hr
           \/ InsertCompensation(r) /\ hr' = hr \cup {NewEntry(r)}
           \/ InsertAlternateRate(r) /\ hr' = Ended(r) \cup {NewEntry(r)}
           \/ Link(r) /\ hr' = Linked(r)
           \/ Rollback(r) /\ hr' = {x \in hr : x.row # r \/ x.linked}
<1>1. CASE InsertCompensation(r)
  BY <1>1 DEF InsertCompensation, Insert, Call
<1>2. CASE InsertAlternateRate(r)
  BY <1>2 DEF InsertAlternateRate, Insert, Call
<1>3. CASE Link(r)
  BY <1>3 DEF Link, Call
<1>4. CASE Rollback(r)
  BY <1>4 DEF Rollback, Call
<1>5. UNCHANGED hr \/ InsertCompensation(r) \/ InsertAlternateRate(r) \/ Link(r) \/ Rollback(r)
  BY DEF Row, Die, updateEmployee, updateCompensation, updateAlternateRate, updateEmployeeInBulk,
         updateCompensationInBulk, updateAlternateRateInBulk, FindCompany, ValidateEmployee,
         ValidateCompensation, ValidateAlternateRate, ReadEmployee, ChangeEmployee, UpdateHr,
         ReadWages, ReadRates, GetCompensations, GetAlternateRates, FindNoRates, ReadHr, PostWage,
         PutWage, PatchWage, PatchRate, PatchPromise, PatchEmployee, MarkProcessed, MarkFailed, MarkInBulk,
         ReportFailed, stores
<1> QED BY <1>1, <1>2, <1>3, <1>4, <1>5

\* The entries of another row are at most ended or linked.
LEMMA EntriesStay ==
    ASSUME IInv, NEW r \in Rows, Row(r) \/ Die(r), NEW q \in Rows \ {r}
    PROVE  SameEntries(q)
<1>1. CASE UNCHANGED hr \/ hr' = hr \cup {NewEntry(r)}
  BY <1>1 DEF SameEntries, NewEntry
<1>2. CASE hr' = Ended(r) \cup {NewEntry(r)}
  <2>1. \A y \in Ended(r) : \E x \in hr : y.row = x.row /\ y.linked = x.linked
    BY EndedEntries DEF IInv, HrInv
  <2> QED BY <1>2, <2>1 DEF SameEntries, NewEntry
<1>3. CASE hr' = Linked(r)
  <2>1. \A x \in hr : x.row = r => [x EXCEPT !.linked = TRUE].row = r
    BY DEF IInv, HrInv, IsEntry
  <2> QED BY <1>3, <2>1 DEF SameEntries, Linked
<1>4. CASE hr' = {x \in hr : x.row # r \/ x.linked}
  BY <1>4 DEF SameEntries
<1> QED BY <1>1, <1>2, <1>3, <1>4, HrChanges

LEMMA OwnSettled ==
    ASSUME IInv, SettledInv, NEW r \in Rows, Settled(r), Row(r) \/ Die(r), Tidy', CountsUp
    PROVE  Settled(r)'
<1>1. CASE updateEmployee(r)
  BY <1>1, EarlySettled, ReportFailedSettled DEF updateEmployee
<1>2. CASE updateCompensation(r)
  BY <1>2, EarlySettled, InsertSettled, PayrollSettled, LinkSettled,
     MarkProcessedSettled, RollbackSettled, ReportFailedSettled DEF updateCompensation
<1>3. CASE updateAlternateRate(r)
  BY <1>3, EarlySettled, InsertSettled, PayrollSettled, LinkSettled,
     MarkProcessedSettled, RollbackSettled, ReportFailedSettled DEF updateAlternateRate
<1>4. CASE FindCompany(r) \/ MarkInBulk(r)
  BY <1>4, EarlySettled, ReportFailedSettled
<1> QED BY <1>1, <1>2, <1>3, <1>4, DieSettled
        DEF Row, updateEmployeeInBulk, updateCompensationInBulk, updateAlternateRateInBulk

\* What the function of r does to the others, and to the counters: nothing but to count.
LEMMA RowFrame ==
    ASSUME IInv, SettledInv, NEW r \in Rows, Row(r) \/ Die(r)
    PROVE  /\ UNCHANGED setting /\ Others(r)
           /\ \A q \in Rows \ {r} : UNCHANGED hasWage[q]
           /\ hasWage' \in [Rows -> BOOLEAN] /\ skipped' \in {skipped, skipped \cup {r}}
           /\ UNCHANGED failures \/ \E fault \in FaultKinds : GoesWrong(fault)
<1> DEFINE local ==
              /\ UNCHANGED setting
              /\ UNCHANGED patch \/ patch' = [patch EXCEPT ![r] = SameNumber(r)]
              /\ UNCHANGED hasWage \/ hasWage' = [hasWage EXCEPT ![r] = Wage(r) \in wages]
              /\ skipped' \in {skipped, skipped \cup {r}}
              /\ UNCHANGED status \/ \E s \in RowStatuses : status' = [status EXCEPT ![r] = s]
              /\ \E label \in Steps : step' = [step EXCEPT ![r] = label]
              /\ UNCHANGED failures \/ \E fault \in FaultKinds : GoesWrong(fault)
<1>1. local => /\ UNCHANGED setting /\ Others(r)
               /\ \A q \in Rows \ {r} : UNCHANGED hasWage[q]
               /\ hasWage' \in [Rows -> BOOLEAN] /\ skipped' \in {skipped, skipped \cup {r}}
               /\ UNCHANGED failures \/ \E fault \in FaultKinds : GoesWrong(fault)
  <2> SUFFICES ASSUME local
               PROVE  /\ Others(r) /\ hasWage' \in [Rows -> BOOLEAN]
                      /\ \A q \in Rows \ {r} : UNCHANGED hasWage[q]
    OBVIOUS
  <2>1. Others(r)
    BY DEF Others, IInv, Types
  <2>2. hasWage \in [Rows -> BOOLEAN] /\ (Wage(r) \in wages) \in BOOLEAN
    BY DEF SettledInv
  <2>3. hasWage' \in [Rows -> BOOLEAN] /\ \A q \in Rows \ {r} : UNCHANGED hasWage[q]
    BY <2>2, Zenon
  <2> QED BY <2>1, <2>3
<1>2. CASE ValidateEmployee(r) \/ ValidateCompensation(r) \/ ValidateAlternateRate(r)
  <2>1. local
    BY <1>2 DEF ValidateEmployee, ValidateCompensation, ValidateAlternateRate, Invalid, Call, Goto,
                Report, rest, setting, locals, RowStatuses, Steps, FaultKinds
  <2> QED BY <1>1, <2>1
<1>3. CASE InsertCompensation(r) \/ InsertAlternateRate(r)
  <2>1. local
    BY <1>3 DEF InsertCompensation, InsertAlternateRate, Insert, Call, Goto, Report, rest, setting,
                locals, RowStatuses, Steps, FaultKinds
  <2> QED BY <1>1, <2>1
<1>4. CASE ReadEmployee(r) \/ ReadWages(r) \/ ReadRates(r)
  <2>1. local
    BY <1>4 DEF ReadEmployee, ReadWages, ReadRates, Found, Skip, Call, Goto, Handler, rest, setting,
                locals, Steps, FaultKinds
  <2> QED BY <1>1, <2>1
<1>5. CASE GetCompensations(r) \/ GetAlternateRates(r) \/ FindNoRates(r)
  <2>1. local
    BY <1>5 DEF GetCompensations, GetAlternateRates, FindNoRates, Skip, ReadHr, Call, Goto, Handler, rest, setting,
                Steps, FaultKinds
  <2> QED BY <1>1, <2>1
<1>6. CASE \/ PostWage(r) \/ PutWage(r) \/ PatchWage(r) \/ PatchRate(r) \/ PatchEmployee(r)
           \/ PatchPromise(r)
  <2>1. local
    BY <1>6 DEF PostWage, PutWage, PatchWage, PatchRate, PatchEmployee, PatchPromise, Call, Goto,
                Handler, rest, setting, locals, Steps, FaultKinds
  <2> QED BY <1>1, <2>1
<1>7. CASE Link(r) \/ MarkProcessed(r) \/ Rollback(r) \/ MarkFailed(r) \/ MarkInBulk(r)
  <2>1. local
    BY <1>7 DEF Link, MarkProcessed, Rollback, MarkFailed, MarkInBulk, ReportFailed, Call, Missed,
                Goto, Report, Handler, rest, setting, locals, RowStatuses, Steps, FaultKinds
  <2> QED BY <1>1, <2>1
<1>8. CASE ChangeEmployee(r) \/ UpdateHr(r) \/ FindCompany(r) \/ Die(r)
  <2>1. local
    BY <1>8 DEF ChangeEmployee, UpdateHr, UpdatedEmployee, FindCompany, Die, Call, Goto, Report,
                rest, setting, locals, stores, RowStatuses, Steps, FaultKinds
  <2> QED BY <1>1, <2>1
<1> QED BY <1>2, <1>3, <1>4, <1>5, <1>6, <1>7, <1>8
        DEF Row, updateEmployee, updateCompensation, updateAlternateRate, updateEmployeeInBulk,
            updateCompensationInBulk, updateAlternateRateInBulk

LEMMA RowSettled ==
    ASSUME IInv, SettledInv, NEW r \in Rows, Row(r) \/ Die(r)
    PROVE  SettledInv'
<1>1. /\ UNCHANGED <<kind, integrated>> /\ Others(r)
      /\ \A q \in Rows \ {r} : UNCHANGED hasWage[q]
      /\ hasWage' \in [Rows -> BOOLEAN] /\ skipped' \in {skipped, skipped \cup {r}}
      /\ UNCHANGED failures \/ \E fault \in FaultKinds : GoesWrong(fault)
  BY RowFrame DEF setting
<1>2. CountsUp
  BY <1>1, CountingUp DEF IInv, Types
<1>3. ASSUME Tidy', NEW q \in Rows
      PROVE  Settled(q)'
  <2>1. /\ Tidy /\ Refused \in Nat /\ Refused' \in Nat /\ Refused <= Refused'
        /\ \A p \in Rows : Settled(p)
    BY <1>2, <1>3, TidyBefore DEF SettledInv
  <2>2. CASE q = r
    BY <1>2, <1>3, <2>1, <2>2, OwnSettled
  <2>3. CASE q # r
    <3>1. SameEntries(q)
      BY <2>3, EntriesStay
    <3> QED BY <1>1, <2>1, <2>3, <3>1, OtherSettled DEF Others
  <2> QED BY <2>2, <2>3
<1> QED BY <1>1, <1>3 DEF SettledInv

\* The machine, and a POST that arrives late, leave the entries alone.
LEMMA MachineSettled ==
    ASSUME IInv, SettledInv,
           \/ Machine \/ Ending \/ UNCHANGED vars
           \/ \E r \in Rows : PostedWage(r)
    PROVE  SettledInv'
<1>1. CASE \E r \in Rows : StartRow(r)
  <2>1. PICK r \in Rows : StartRow(r)
    BY <1>1
  <2>2. /\ UNCHANGED <<kind, integrated, status, hasWage, skipped, hr, failures>>
        /\ step[r] = "waiting"
        /\ step' = [step EXCEPT ![r] = IF bulk THEN "findCompany" ELSE "validate"]
    BY <2>1 DEF StartRow, setting, locals, stores
  <2>3. \A q \in Rows : \/ UNCHANGED step[q]
                        \/ step[q] \in NotInserted /\ step'[q] \in NotInserted
    BY <2>2 DEF IInv, Types, NotInserted
  <2>4. ASSUME NEW q \in Rows, Settled(q)
        PROVE  Settled(q)'
    BY <2>2, <2>3, <2>4 DEF Settled, NotInserted, NoEntry, Known, Due, Refused
  <2>5. Tidy' = Tidy
    BY <2>2 DEF Tidy
  <2> QED BY <2>2, <2>4, <2>5 DEF SettledInv
<1>2. CASE dataImports \/ dataImportsInBulk
  <2>1. CASE ImportFails \/ StartExecution
    <3>1. UNCHANGED <<kind, integrated, status, step, hasWage, skipped, hr>>
      BY <2>1 DEF ImportFails, StartExecution, setting, locals, stores
    <3>2. CountsUp
      BY <2>1, CountingUp DEF ImportFails, StartExecution, FaultKinds, IInv, Types
    <3>3. \A q \in Rows : SameEntries(q)
      BY <3>1 DEF SameEntries
    <3> QED BY <3>1, <3>2, <3>3, TidyBefore, OtherSettled DEF SettledInv
  <2>2. CASE \E n \in 0 .. MaxRows : Import(n)
    <3>1. /\ UNCHANGED <<kind, integrated, step, hasWage, skipped, hr, failures>> /\ machine = "idle"
      BY <2>2 DEF Import, locals, stores
    <3>2. \A q \in Rows : step[q] = "waiting" /\ step'[q] = "waiting"
      BY <3>1 DEF IInv, MachineInv
    <3>3. \A q \in Rows : Settled(q) => Settled(q)'
      BY <3>1, <3>2 DEF Settled, NotInserted, NoEntry
    <3> QED BY <3>1, <3>3 DEF SettledInv, Tidy
  <2> QED BY <1>2, <2>1, <2>2 DEF dataImports, dataImportsInBulk
<1>3. CASE \/ SetProcessing \/ RowsFail \/ RowsEnd \/ SetCompleted \/ SetFailed \/ Ending
           \/ UNCHANGED vars \/ \E r \in Rows : PostedWage(r)
  <2>1. /\ UNCHANGED <<kind, integrated, status, step, hasWage, skipped, hr>>
        /\ UNCHANGED failures \/ \E fault \in FaultKinds : GoesWrong(fault)
    BY <1>3 DEF SetProcessing, RowsFail, RowsEnd, SetCompleted, SetFailed, Ending, Summarise,
                WriteFinal, WriteError, WriteStatus, Freeze, PostedWage, vars, setting, locals,
                stores, rest, FaultKinds
  <2>2. CountsUp
    BY <2>1, CountingUp DEF IInv, Types
  <2>3. \A q \in Rows : SameEntries(q)
    BY <2>1 DEF SameEntries
  <2> QED BY <2>1, <2>2, <2>3, TidyBefore, OtherSettled DEF SettledInv
<1> QED BY <1>1, <1>2, <1>3 DEF Machine

LEMMA SettledInvariant == Spec => [](IInv /\ SettledInv)
<1>1. IInv /\ SettledInv /\ [Next]_vars => (IInv /\ SettledInv)'
  BY NextKeeps, RowSettled, MachineSettled DEF Next
<1> QED BY <1>1, InitInv, InitSettled, PTL DEF Spec

\* However many rows are served at once, a row that was answered as failed leaves no
\* entry that payroll does not know, unless an answer was lost, a write missed its
\* database, or the rollback was refused too.
THEOREM NothingIsLeft == Spec => []FailedLeavesNothing
<1>1. IInv /\ SettledInv => FailedLeavesNothing
  <2> SUFFICES ASSUME IInv, SettledInv, failures["lost"] + failures["missed"] = 0,
                      NEW r \in Rows, step[r] = "answered", status[r] = "Failed"
               PROVE  \/ failures["refused"] > (IF integrated /\ hasWage[r] /\ r \notin skipped THEN 1 ELSE 0)
                      \/ \A x \in hr : x.row = r => x.linked
    BY DEF FailedLeavesNothing
  <2>1. Tidy
    BY DEF IInv, Types, Tidy, FaultKinds
  <2> QED BY <2>1 DEF SettledInv, Settled, Refused, Due, Known
<1> QED BY <1>1, SettledInvariant, PTL

-----------------------------------------------------------------------------
(* The order of the entries.                                                   *)

\* The ids are numbers below some bound, and no two entries of an employee share one.
IdsInv ==
    /\ \A x \in hr : x.id \in Nat
    /\ \E n \in Nat : \A x \in hr : x.id <= n
    /\ \A x, y \in hr : x.employee = y.employee /\ x.id = y.id => x = y

\* Two entries of an employee with none of S between them.
Adjacent(S, x, y) ==
    /\ x.employee = y.employee /\ x.id < y.id
    /\ \A z \in S : z.employee = x.employee => z.id <= x.id \/ z.id >= y.id

InOrder ==
    /\ kind = "compensation" =>
         \A x, y \in hr : x.employee = y.employee /\ x.id < y.id => x.start < y.start
    /\ kind = "alternateRate" => \A x, y \in hr : Adjacent(hr, x, y) => x.end = y.start - 1

\* The entry of r is the last one of its employee.
Newest(r) == \A x, y \in hr : x.row = r /\ y.employee = x.employee => y.id <= x.id

\* What the script found of the dates still holds when the entry is inserted, and the
\* entry of the row that is served may be deleted without parting others.
SerialInv ==
    /\ \A q, r \in Running : q = r
    /\ \A r \in Rows : step[r] \in NotInserted => NoEntry(r)
    /\ \A r \in Rows : step[r] = "insert" /\ kind = "compensation" => EffectiveLater(r)
    /\ \A r \in Running : Newest(r)
    /\ InOrder

OrderInv == IdsInv /\ (concurrency = 1 => SerialInv)

LEMMA InitOrder == Init => OrderInv
<1> SUFFICES ASSUME Init
             PROVE  OrderInv
  OBVIOUS
<1>1. /\ \A x \in hr : x.id = 1 /\ x.row = 0
      /\ \A x, y \in hr : x.employee = y.employee => x = y
  BY DEF Init, Earlier
<1>2. IdsInv
  BY <1>1 DEF IdsInv
<1>3. \A r \in Rows : step[r] = "waiting" /\ NoEntry(r)
  BY <1>1 DEF Init, NoEntry, Rows
<1>4. Running = {}
  BY <1>3 DEF Running, Idle
<1>5. InOrder
  BY <1>1 DEF InOrder, Adjacent
<1> QED BY <1>2, <1>3, <1>4, <1>5 DEF OrderInv, SerialInv

\* The last id of entries whose ids are bounded numbers.
LEMMA LastIdIsLast ==
    ASSUME NEW S, \A x \in S : x.id \in Nat, NEW n \in Nat, \A x \in S : x.id <= n
    PROVE  /\ LastId(S) \in Nat
           /\ \A x \in S : x.id <= LastId(S)
           /\ LastId(S) = 0 \/ \E x \in S : x.id = LastId(S)
<1> DEFINE U == {m \in Nat : \A x \in S : x.id <= m}
<1>1. n \in U
  OBVIOUS
<1>2. PICK m \in U : \A k \in U : ~ (<<k, m>> \in OpToRel(<, Nat))
  <2>1. U \subseteq Nat /\ U # {}
    BY <1>1
  <2> HIDE DEF U
  <2> QED BY <2>1, NatLessThanWellFounded, WFMin
<1>3. m \in Nat /\ \A k \in U : m <= k
  <2>1. m \in Nat /\ \A k \in U : k \in Nat
    OBVIOUS
  <2> HIDE DEF U
  <2>2. \A k \in U : ~ (k < m)
    BY <1>2, <2>1 DEF OpToRel
  <2> QED BY <2>1, <2>2
<1>4. m = 0 \/ \E x \in S : x.id = m
  <2> SUFFICES ASSUME m # 0, \A x \in S : x.id # m
               PROVE  FALSE
    OBVIOUS
  <2>1. m - 1 \in Nat
    BY <1>3
  <2>2. \A x \in S : x.id <= m /\ x.id # m /\ x.id \in Nat
    BY <1>2
  <2>3. \A x \in S : x.id <= m - 1
    BY <1>3, <2>2
  <2>4. m - 1 \in U
    BY <2>1, <2>3
  <2> QED BY <1>3, <2>4
<1>5. m \in {0} \cup {x.id : x \in S} /\ \A x \in S : m >= x.id
  BY <1>2, <1>4
<1> DEFINE I == {0} \cup {x.id : x \in S}
           L == CHOOSE i \in I : \A x \in S : i >= x.id
<1>6. L \in I /\ \A x \in S : L >= x.id
  <2>1. \E i \in I : \A x \in S : i >= x.id
    BY <1>5
  <2> QED BY <2>1
<1>7. LastId(S) = L
  BY DEF LastId
<1>8. I \subseteq Nat
  OBVIOUS
<1> HIDE DEF L
<1> QED BY <1>6, <1>7, <1>8

\* The ids of HR, and of the entries of the employee of r.
LEMMA LastIds ==
    ASSUME IdsInv, NEW r \in Rows
    PROVE  /\ LastId(hr) \in Nat /\ \A x \in hr : x.id <= LastId(hr)
           /\ \A x \in Own(r) : x.id <= LastId(Own(r)) /\ LastId(Own(r)) \in Nat
           /\ LastId(Own(r)) = 0 \/ \E x \in Own(r) : x.id = LastId(Own(r))
<1>1. PICK n \in Nat : \A x \in hr : x.id <= n
  BY DEF IdsInv
<1>2. \A x \in Own(r) : x \in hr
  BY DEF Own
<1> QED BY <1>1, <1>2, LastIdIsLast DEF IdsInv

\* What an entry is, once its employee's next rate has been inserted.
EndedBy(r, x) ==
    IF x \in Own(r) /\ x.id = LastId(Own(r)) THEN [x EXCEPT !.end = content[r].start - 1] ELSE x

LEMMA EndedFields ==
    ASSUME \A x \in hr : IsEntry(x), NEW r \in Rows
    PROVE  /\ Ended(r) = {EndedBy(r, x) : x \in hr}
           /\ \A x \in hr :
                /\ EndedBy(r, x).id = x.id /\ EndedBy(r, x).row = x.row
                /\ EndedBy(r, x).employee = x.employee /\ EndedBy(r, x).start = x.start
                /\ EndedBy(r, x).end = IF x \in Own(r) /\ x.id = LastId(Own(r))
                                       THEN content[r].start - 1 ELSE x.end
<1>1. Ended(r) = {EndedBy(r, x) : x \in hr}
  BY DEF Ended, EndedBy
<1>2. ASSUME NEW x \in hr
      PROVE  /\ EndedBy(r, x).id = x.id /\ EndedBy(r, x).row = x.row
             /\ EndedBy(r, x).employee = x.employee /\ EndedBy(r, x).start = x.start
             /\ EndedBy(r, x).end = IF x \in Own(r) /\ x.id = LastId(Own(r))
                                    THEN content[r].start - 1 ELSE x.end
  BY <1>2 DEF EndedBy, IsEntry
<1> QED BY <1>1, <1>2

LinkedBy(r, x) == IF x.row = r THEN [x EXCEPT !.linked = TRUE] ELSE x

LEMMA LinkedFields ==
    ASSUME \A x \in hr : IsEntry(x), NEW r \in Rows
    PROVE  /\ Linked(r) = {LinkedBy(r, x) : x \in hr}
           /\ \A x \in hr :
                /\ LinkedBy(r, x).id = x.id /\ LinkedBy(r, x).row = x.row
                /\ LinkedBy(r, x).employee = x.employee /\ LinkedBy(r, x).start = x.start
                /\ LinkedBy(r, x).end = x.end
<1>1. Linked(r) = {LinkedBy(r, x) : x \in hr}
  BY DEF Linked, LinkedBy
<1>2. ASSUME NEW x \in hr
      PROVE  /\ LinkedBy(r, x).id = x.id /\ LinkedBy(r, x).row = x.row
             /\ LinkedBy(r, x).employee = x.employee /\ LinkedBy(r, x).start = x.start
             /\ LinkedBy(r, x).end = x.end
  BY <1>2 DEF LinkedBy, IsEntry
<1> QED BY <1>1, <1>2

\* The entry is put after all others.
LEMMA NewFields ==
    ASSUME NEW r \in Rows
    PROVE  /\ NewEntry(r).id = LastId(hr) + 1 /\ NewEntry(r).row = r
           /\ NewEntry(r).employee = content[r].employee /\ NewEntry(r).start = content[r].start
           /\ NewEntry(r).end = content[r].end
BY DEF NewEntry

LEMMA IdsStep ==
    ASSUME IInv, IdsInv, NEW r \in Rows, Row(r) \/ Die(r)
    PROVE  IdsInv'
<1>1. \A x \in hr : IsEntry(x)
  BY DEF IInv, HrInv
<1>2. CASE UNCHANGED hr \/ hr' = {x \in hr : x.row # r \/ x.linked}
  BY <1>2 DEF IdsInv
<1>3. CASE hr' = Linked(r)
  <2>1. \A y \in hr' : \E x \in hr : y = LinkedBy(r, x) /\ y.id = x.id /\ y.employee = x.employee
    BY <1>1, <1>3, LinkedFields
  <2> QED BY <2>1 DEF IdsInv
<1>4. CASE hr' = hr \cup {NewEntry(r)}
  <2>1. LastId(hr) \in Nat /\ \A x \in hr : x.id <= LastId(hr)
    BY LastIds
  <2>2. /\ \A y \in hr' : y.id \in Nat /\ y.id <= LastId(hr) + 1
        /\ \A x \in hr : x.id # NewEntry(r).id
    BY <1>4, <2>1, NewFields DEF IdsInv
  <2>3. \A x, y \in hr' : x.employee = y.employee /\ x.id = y.id => x = y
    BY <1>4, <2>2 DEF IdsInv
  <2>4. LastId(hr) + 1 \in Nat
    BY <2>1
  <2> QED BY <2>2, <2>3, <2>4 DEF IdsInv
<1>5. CASE hr' = Ended(r) \cup {NewEntry(r)}
  <2>1. LastId(hr) \in Nat /\ \A x \in hr : x.id <= LastId(hr)
    BY LastIds
  <2>2. \A y \in Ended(r) : \E x \in hr : y = EndedBy(r, x) /\ y.id = x.id /\ y.employee = x.employee
    BY <1>1, EndedFields
  <2>3. /\ \A y \in hr' : y.id \in Nat /\ y.id <= LastId(hr) + 1
        /\ \A x \in Ended(r) : x.id # NewEntry(r).id
    BY <1>5, <2>1, <2>2, NewFields DEF IdsInv
  <2>4. \A x, y \in Ended(r) : x.employee = y.employee /\ x.id = y.id => x = y
    BY <2>2 DEF IdsInv
  <2>5. \A x, y \in hr' : x.employee = y.employee /\ x.id = y.id => x = y
    BY <1>5, <2>3, <2>4
  <2>6. LastId(hr) + 1 \in Nat
    BY <2>1
  <2> QED BY <2>3, <2>5, <2>6 DEF IdsInv
<1> QED BY <1>2, <1>3, <1>4, <1>5, HrChanges

\* A compensation that is inserted takes effect after all of its employee.
LEMMA CompensationInOrder ==
    ASSUME IdsInv, InOrder, NEW r \in Rows, kind = "compensation", EffectiveLater(r),
           UNCHANGED kind, hr' = hr \cup {NewEntry(r)}
    PROVE  InOrder'
<1>1. LastId(hr) \in Nat /\ \A x \in hr : x.id <= LastId(hr)
  BY LastIds
<1>2. \A x \in hr : x.employee = NewEntry(r).employee => x.start < NewEntry(r).start
  BY NewFields DEF EffectiveLater, Own
<1>3. \A x \in hr : ~ (NewEntry(r).id < x.id)
  BY <1>1, NewFields DEF IdsInv
<1>4. ~ (NewEntry(r).id < NewEntry(r).id)
  BY <1>1, NewFields
<1>5. \A x, y \in hr' : x.employee = y.employee /\ x.id < y.id => x.start < y.start
  BY <1>2, <1>3, <1>4 DEF InOrder
<1> QED BY <1>5 DEF InOrder

\* A rate that is inserted follows the last one of its employee, which it ends.
LEMMA RateInOrder ==
    ASSUME IInv, IdsInv, InOrder, NEW r \in Rows, kind = "alternateRate", UNCHANGED kind,
           hr' = Ended(r) \cup {NewEntry(r)}
    PROVE  InOrder'
<1> DEFINE new == NewEntry(r)
           last == LastId(Own(r))
<1>1. /\ LastId(hr) \in Nat /\ \A x \in hr : x.id <= LastId(hr) /\ x.id \in Nat
      /\ \A x \in Own(r) : x.id <= last /\ last \in Nat
  BY LastIds DEF IdsInv
<1>2. \A x \in hr : IsEntry(x)
  BY DEF IInv, HrInv
<1>3. /\ \A y \in Ended(r) : \E x \in hr : y = EndedBy(r, x)
      /\ \A x \in hr : EndedBy(r, x) \in hr'
  BY <1>2, EndedFields
<1>4. \A x \in hr : /\ EndedBy(r, x).id = x.id /\ EndedBy(r, x).employee = x.employee
                    /\ EndedBy(r, x).start = x.start
                    /\ EndedBy(r, x).end = IF x \in Own(r) /\ x.id = last
                                           THEN content[r].start - 1 ELSE x.end
  BY <1>2, EndedFields
<1>5. /\ new.id = LastId(hr) + 1 /\ new.employee = content[r].employee
      /\ new.start = content[r].start
  BY NewFields
<1>6. \A x \in hr : x \in Own(r) <=> x.employee = content[r].employee
  BY DEF Own
<1>7. LastId(Own(r)) = 0 \/ \E x \in Own(r) : x.id = LastId(Own(r))
  BY LastIds
<1> HIDE DEF new, last
<1>8. ASSUME NEW x \in hr, NEW y \in hr, Adjacent(hr', EndedBy(r, x), EndedBy(r, y))
      PROVE  EndedBy(r, x).end = EndedBy(r, y).start - 1
  <2>1. x.employee = y.employee /\ x.id < y.id
    BY <1>4, <1>8 DEF Adjacent
  <2>2. \A z \in hr : z.employee = x.employee => z.id <= x.id \/ z.id >= y.id
    BY <1>3, <1>4, <1>8 DEF Adjacent
  <2>3. x.end = y.start - 1
    BY <2>1, <2>2 DEF InOrder, Adjacent
  <2>4. ~ (x \in Own(r) /\ x.id = last)
    <3> SUFFICES ASSUME x \in Own(r), x.id = last
                 PROVE  FALSE
      OBVIOUS
    <3>1. y \in Own(r)
      BY <1>6, <2>1
    <3> QED BY <1>1, <2>1, <3>1
  <2> QED BY <1>4, <2>3, <2>4
<1>9. ASSUME NEW x \in hr, Adjacent(hr', EndedBy(r, x), new)
      PROVE  EndedBy(r, x).end = new.start - 1
  <2>1. x \in Own(r)
    BY <1>4, <1>5, <1>6, <1>9 DEF Adjacent
  <2>2. \A z \in Own(r) : z.id <= x.id
    <3> SUFFICES ASSUME NEW z \in Own(r)
                 PROVE  z.id <= x.id
      OBVIOUS
    <3>1. z \in hr /\ z.employee = x.employee
      BY <2>1 DEF Own
    <3>2. z.id <= x.id \/ z.id >= new.id
      BY <1>3, <1>4, <1>9, <3>1 DEF Adjacent
    <3> QED BY <1>1, <1>5, <3>1, <3>2
  <2>3. x.id = last
    <3>1. x.id <= last /\ x.id \in Nat /\ last \in Nat
      BY <1>1, <2>1
    <3> QED BY <1>7, <2>2, <3>1 DEF last
  <2> QED BY <1>4, <1>5, <2>1, <2>3
<1>10. ASSUME NEW y \in hr'
       PROVE  ~ Adjacent(hr', new, y)
  <2>1. y.id <= new.id /\ y.id \in Nat /\ new.id \in Nat
    <3>1. y = new \/ \E x \in hr : y = EndedBy(r, x)
      BY <1>3 DEF new
    <3> QED BY <1>1, <1>4, <1>5, <3>1
  <2> QED BY <2>1 DEF Adjacent
<1>11. \A x, y \in hr' : Adjacent(hr', x, y) => x.end = y.start - 1
  <2> SUFFICES ASSUME NEW x \in hr', NEW y \in hr', Adjacent(hr', x, y)
               PROVE  x.end = y.start - 1
    OBVIOUS
  <2>1. x # new
    BY <1>10
  <2>2. PICK a \in hr : x = EndedBy(r, a)
    BY <1>3, <2>1 DEF new
  <2>3. CASE y = new
    BY <1>9, <2>2, <2>3
  <2>4. CASE y # new
    <3>1. PICK b \in hr : y = EndedBy(r, b)
      BY <1>3, <2>4 DEF new
    <3> QED BY <1>8, <2>2, <3>1
  <2> QED BY <2>3, <2>4
<1> QED BY <1>11 DEF InOrder

\* To delete the newest entry of an employee parts no other two.
LEMMA DeleteInOrder ==
    ASSUME IdsInv, InOrder, NEW r \in Rows, Newest(r), UNCHANGED kind,
           hr' = {x \in hr : x.row # r \/ x.linked}
    PROVE  InOrder'
<1>1. ASSUME NEW x \in hr', NEW y \in hr', Adjacent(hr', x, y)
      PROVE  Adjacent(hr, x, y)
  <2>1. x \in hr /\ y \in hr /\ x.employee = y.employee /\ x.id < y.id
    BY <1>1 DEF Adjacent
  <2>2. ASSUME NEW z \in hr, z.employee = x.employee
        PROVE  z.id <= x.id \/ z.id >= y.id
    <3>1. CASE z \in hr'
      BY <1>1, <2>2, <3>1 DEF Adjacent
    <3>2. CASE z \notin hr'
      <4>1. y.id <= z.id
        BY <2>1, <2>2, <3>2 DEF Newest
      <4> QED BY <2>1, <4>1 DEF IdsInv
    <3> QED BY <3>1, <3>2
  <2> QED BY <2>1, <2>2 DEF Adjacent
<1> QED BY <1>1 DEF InOrder

LEMMA LinkInOrder ==
    ASSUME IInv, InOrder, NEW r \in Rows, UNCHANGED kind, hr' = Linked(r)
    PROVE  InOrder'
<1>1. \A x \in hr : IsEntry(x)
  BY DEF IInv, HrInv
<1>2. /\ \A y \in hr' : \E x \in hr : y = LinkedBy(r, x)
      /\ \A x \in hr : /\ LinkedBy(r, x) \in hr'
                       /\ LinkedBy(r, x).id = x.id /\ LinkedBy(r, x).employee = x.employee
                       /\ LinkedBy(r, x).start = x.start /\ LinkedBy(r, x).end = x.end
  BY <1>1, LinkedFields
<1>3. ASSUME NEW x \in hr, NEW y \in hr, Adjacent(hr', LinkedBy(r, x), LinkedBy(r, y))
      PROVE  Adjacent(hr, x, y)
  BY <1>2, <1>3 DEF Adjacent
<1>4. kind = "alternateRate" => \A x, y \in hr' : Adjacent(hr', x, y) => x.end = y.start - 1
  BY <1>2, <1>3 DEF InOrder
<1>5. kind = "compensation" =>
        \A x, y \in hr' : x.employee = y.employee /\ x.id < y.id => x.start < y.start
  BY <1>2 DEF InOrder
<1> QED BY <1>4, <1>5 DEF InOrder

\* A function that takes a step was running, and is at a step before the insertion only
\* if it was at an earlier one; a compensation comes to it with its dates found later.
LEMMA StepsOfRow ==
    ASSUME IInv, NEW r \in Rows, Row(r) \/ Die(r)
    PROVE  /\ step[r] \notin Idle
           /\ step'[r] \in NotInserted => UNCHANGED hr /\ step[r] \in NotInserted
           /\ step'[r] = "insert" /\ kind = "compensation" => EffectiveLater(r)
<1>1. step \in [Rows -> Steps]
  BY DEF IInv, Types
<1>2. CASE FindCompany(r) \/ ValidateEmployee(r) \/ ValidateAlternateRate(r)
  BY <1>1, <1>2 DEF FindCompany, ValidateEmployee, ValidateAlternateRate, Invalid, Call, Goto,
                    NotInserted, Idle, stores
<1>3. CASE ValidateCompensation(r)
  BY <1>1, <1>3 DEF ValidateCompensation, Invalid, Call, Goto, NotInserted, Idle, stores
<1>4. CASE InsertCompensation(r) \/ InsertAlternateRate(r)
  BY <1>1, <1>4 DEF InsertCompensation, InsertAlternateRate, Insert, Call, Goto, NotInserted, Idle
<1>5. CASE ReadEmployee(r) \/ ChangeEmployee(r) \/ UpdateHr(r)
  BY <1>1, <1>5 DEF ReadEmployee, ChangeEmployee, UpdateHr, Call, Goto, NotInserted, Idle
<1>6. CASE ReadWages(r) \/ ReadRates(r) \/ GetCompensations(r) \/ GetAlternateRates(r)
          \/ FindNoRates(r)
  BY <1>1, <1>6 DEF ReadWages, ReadRates, GetCompensations, GetAlternateRates, FindNoRates, Skip, ReadHr, Call, Goto,
                    Handler, NotInserted, Idle
<1>7. CASE \/ PostWage(r) \/ PutWage(r) \/ PatchWage(r) \/ PatchRate(r) \/ PatchPromise(r)
           \/ PatchEmployee(r)
  BY <1>1, <1>7 DEF PostWage, PutWage, PatchWage, PatchRate, PatchPromise, PatchEmployee, Call,
                    Goto, Handler, NotInserted, Idle
<1>8. CASE Link(r) \/ MarkProcessed(r) \/ Rollback(r) \/ MarkFailed(r) \/ MarkInBulk(r)
  BY <1>1, <1>8 DEF Link, MarkProcessed, Rollback, MarkFailed, MarkInBulk, ReportFailed, Call,
                    Missed, Goto, Handler, NotInserted, Idle
<1>9. CASE Die(r)
  BY <1>1, <1>9 DEF Die, Goto, NotInserted
<1> QED BY <1>2, <1>3, <1>4, <1>5, <1>6, <1>7, <1>8, <1>9
        DEF Row, updateEmployee, updateCompensation, updateAlternateRate, updateEmployeeInBulk,
            updateCompensationInBulk, updateAlternateRateInBulk

LEMMA OrderStep ==
    ASSUME IInv, IdsInv, SerialInv, NEW r \in Rows, Row(r) \/ Die(r), UNCHANGED kind
    PROVE  InOrder'
<1>1. r \in Running /\ InOrder /\ Newest(r)
  BY StepsOfRow DEF Running, SerialInv
<1>2. CASE UNCHANGED hr
  BY <1>1, <1>2 DEF InOrder, Adjacent
<1>3. CASE InsertCompensation(r) /\ hr' = hr \cup {NewEntry(r)}
  <2>1. kind = "compensation" /\ step[r] = "insert"
    BY <1>3 DEF InsertCompensation, Insert
  <2> QED BY <1>1, <1>3, <2>1, CompensationInOrder DEF SerialInv
<1>4. CASE InsertAlternateRate(r) /\ hr' = Ended(r) \cup {NewEntry(r)}
  BY <1>1, <1>4, RateInOrder DEF InsertAlternateRate
<1>5. CASE hr' = Linked(r)
  BY <1>1, <1>5, LinkInOrder
<1>6. CASE hr' = {x \in hr : x.row # r \/ x.linked}
  BY <1>1, <1>6, DeleteInOrder
<1> QED BY <1>2, <1>3, <1>4, <1>5, <1>6, HrChanges

LEMMA NewestStep ==
    ASSUME IInv, IdsInv, SerialInv, NEW r \in Rows, Row(r) \/ Die(r)
    PROVE  Newest(r)'
<1>1. r \in Running /\ Newest(r)
  BY StepsOfRow DEF Running, SerialInv
<1>2. \A x \in hr : IsEntry(x)
  BY DEF IInv, HrInv
<1>3. CASE UNCHANGED hr \/ hr' = {x \in hr : x.row # r \/ x.linked}
  BY <1>1, <1>3 DEF Newest
<1>4. CASE hr' = Linked(r)
  <2>1. \A y \in hr' : \E x \in hr : y.id = x.id /\ y.row = x.row /\ y.employee = x.employee
    BY <1>2, <1>4, LinkedFields
  <2> QED BY <1>1, <2>1 DEF Newest
<1>5. CASE \/ InsertCompensation(r) /\ hr' = hr \cup {NewEntry(r)}
           \/ InsertAlternateRate(r) /\ hr' = Ended(r) \cup {NewEntry(r)}
  <2>1. LastId(hr) \in Nat /\ \A x \in hr : x.id <= LastId(hr) /\ x.id \in Nat
    BY LastIds DEF IdsInv
  <2>2. NoEntry(r)
    BY <1>5 DEF InsertCompensation, InsertAlternateRate, Insert, SerialInv, NotInserted
  <2>3. \A y \in Ended(r) : \E x \in hr : y.id = x.id /\ y.row = x.row
    BY <1>2, EndedFields
  <2>4. \A y \in hr' : y = NewEntry(r) \/ \E x \in hr : y.id = x.id /\ y.row = x.row
    BY <1>5, <2>3
  <2>5. /\ \A y \in hr' : y.row = r => y = NewEntry(r)
        /\ \A y \in hr' : y.id <= NewEntry(r).id
    BY <2>1, <2>2, <2>4, NewFields DEF NoEntry
  <2> QED BY <2>5 DEF Newest
<1> QED BY <1>3, <1>4, <1>5, HrChanges

LEMMA RowOrder ==
    ASSUME IInv, SettledInv, OrderInv, NEW r \in Rows, Row(r) \/ Die(r)
    PROVE  OrderInv'
<1>1. UNCHANGED setting /\ Others(r)
  BY RowFrame
<1>2. IdsInv'
  BY IdsStep DEF OrderInv
<1>3. ASSUME SerialInv
      PROVE  SerialInv'
  <2>1. /\ step[r] \notin Idle
        /\ step'[r] \in NotInserted => UNCHANGED hr /\ step[r] \in NotInserted
        /\ step'[r] = "insert" /\ kind = "compensation" => EffectiveLater(r)
    BY StepsOfRow
  <2>2. r \in Running /\ \A q \in Running : q = r
    BY <1>3, <2>1 DEF SerialInv, Running
  <2>3. \A q \in Running' : q = r
    BY <1>1, <2>2 DEF Others, Running
  <2>4. ASSUME NEW q \in Rows, step'[q] \in NotInserted
        PROVE  NoEntry(q)'
    <3>1. CASE q = r
      BY <1>3, <2>1, <2>4, <3>1 DEF SerialInv, NoEntry
    <3>2. CASE q # r
      <4>1. NoEntry(q)
        BY <1>1, <1>3, <2>4, <3>2 DEF Others, SerialInv
      <4>2. SameEntries(q)
        BY <3>2, EntriesStay
      <4> QED BY <4>1, <4>2 DEF SameEntries, NoEntry
    <3> QED BY <3>1, <3>2
  <2>5. ASSUME NEW q \in Rows, step'[q] = "insert", kind = "compensation"
        PROVE  EffectiveLater(q)'
    <3>1. q \in Running'
      BY <2>5 DEF Running, Idle
    <3>2. q = r
      BY <2>3, <3>1
    <3>3. UNCHANGED <<hr, content>> /\ EffectiveLater(r)
      BY <1>1, <2>1, <2>5, <3>2 DEF NotInserted, setting
    <3> QED BY <3>2, <3>3 DEF EffectiveLater, Own
  <2>6. InOrder' /\ Newest(r)'
    BY <1>1, <1>3, OrderStep, NewestStep DEF OrderInv, setting
  <2>7. \A q, p \in Running' : q = p
    BY <2>3
  <2>8. \A q \in Running' : Newest(q)'
    BY <2>3, <2>6
  <2>9. UNCHANGED kind
    BY <1>1 DEF setting
  <2> QED BY <2>4, <2>5, <2>6, <2>7, <2>8, <2>9 DEF SerialInv
<1>4. UNCHANGED concurrency
  BY <1>1 DEF setting
<1> QED BY <1>2, <1>3, <1>4 DEF OrderInv

\* With one row at a time, a row is started when no other is served.
LEMMA StartOrder ==
    ASSUME IInv, OrderInv, NEW r \in Rows, StartRow(r)
    PROVE  OrderInv'
<1>1. /\ UNCHANGED <<kind, concurrency, content, hr>> /\ step[r] = "waiting"
      /\ step' = [step EXCEPT ![r] = IF bulk THEN "findCompany" ELSE "validate"]
      /\ Cardinality(Running) < concurrency
  BY DEF StartRow, setting, stores
<1>2. IdsInv'
  BY <1>1 DEF OrderInv, IdsInv
<1>3. ASSUME concurrency = 1
      PROVE  SerialInv'
  <2>1. SerialInv
    BY <1>3 DEF OrderInv
  <2>2. Running = {}
    <3>1. IsFiniteSet(Rows)
      BY ConstantsAssumption, FS_Interval DEF Rows
    <3>2. IsFiniteSet(Running)
      BY <3>1, FS_Subset DEF Running
    <3>3. Cardinality(Running) = 0
      BY <1>1, <1>3, <3>2, FS_CardinalityType
    <3> QED BY <3>2, <3>3, FS_EmptySet
  <2>3. \A q \in Rows \ {r} : UNCHANGED step[q]
    BY <1>1 DEF IInv, Types
  <2>4. \A q \in Running' : q = r
    BY <2>2, <2>3 DEF Running
  <2>5. NoEntry(r) /\ step'[r] \in NotInserted \ {"insert"}
    BY <1>1, <2>1 DEF SerialInv, NotInserted, IInv, Types
  <2>6. \A q \in Rows : step'[q] \in NotInserted => NoEntry(q)'
    BY <1>1, <2>1, <2>3, <2>5 DEF SerialInv, NoEntry
  <2>7. \A q \in Rows : step'[q] # "insert"
    BY <2>2, <2>3, <2>5 DEF Running, Idle
  <2>8. InOrder'
    BY <1>1, <2>1 DEF SerialInv, InOrder, Adjacent
  <2>9. Newest(r)'
    BY <1>1, <2>5 DEF Newest, NoEntry
  <2>10. (\A q, p \in Running' : q = p) /\ \A q \in Running' : Newest(q)'
    BY <2>4, <2>9
  <2> QED BY <2>6, <2>7, <2>8, <2>10 DEF SerialInv
<1> QED BY <1>1, <1>2, <1>3 DEF OrderInv

LEMMA MachineOrder ==
    ASSUME IInv, OrderInv,
           \/ Machine \/ Ending \/ UNCHANGED vars
           \/ \E r \in Rows : PostedWage(r)
    PROVE  OrderInv'
<1>1. CASE \E n \in 0 .. MaxRows : Import(n)
  <2>1. UNCHANGED <<kind, concurrency, step, hr>> /\ machine = "idle"
    BY <1>1 DEF Import, locals, stores
  <2>2. \A q \in Rows : step[q] = "waiting" /\ step'[q] = "waiting"
    BY <2>1 DEF IInv, MachineInv
  <2>3. Running' = {}
    BY <2>2 DEF Running, Idle
  <2>4. IdsInv'
    BY <2>1 DEF OrderInv, IdsInv
  <2>5. SerialInv => SerialInv'
    BY <2>1, <2>2, <2>3 DEF SerialInv, InOrder, Adjacent, NoEntry
  <2> QED BY <2>1, <2>4, <2>5 DEF OrderInv
<1>2. CASE \/ ImportFails \/ StartExecution \/ SetProcessing \/ RowsFail \/ RowsEnd \/ SetCompleted
           \/ SetFailed \/ Ending \/ UNCHANGED vars \/ \E r \in Rows : PostedWage(r)
  <2>1. UNCHANGED <<kind, concurrency, content, step, hr>>
    BY <1>2 DEF ImportFails, StartExecution, SetProcessing, RowsFail, RowsEnd, SetCompleted,
                SetFailed, Ending, Summarise, WriteFinal, WriteError, WriteStatus, Freeze,
                PostedWage, vars, setting, locals, stores, rest
  <2>2. UNCHANGED Running
    BY <2>1 DEF Running
  <2>3. IdsInv'
    BY <2>1 DEF OrderInv, IdsInv
  <2>4. SerialInv => SerialInv'
    BY <2>1, <2>2 DEF SerialInv, InOrder, Adjacent, NoEntry, Newest, EffectiveLater, Own
  <2> QED BY <2>1, <2>3, <2>4 DEF OrderInv
<1> QED BY <1>1, <1>2, StartOrder DEF Machine, dataImports, dataImportsInBulk

\* One row at a time, the entries of an employee follow each other, whatever goes wrong:
\* a compensation takes effect after those before it, and a rate ends the day before
\* the next one starts.
THEOREM EntriesInOrder == Spec => []EntriesFollow
<1>1. OrderInv => EntriesFollow
  BY DEF OrderInv, SerialInv, InOrder, Adjacent, EntriesFollow
<1>2. IInv /\ SettledInv /\ OrderInv /\ [Next]_vars => OrderInv'
  BY RowOrder, MachineOrder DEF Next
<1> QED BY <1>1, <1>2, InitOrder, SettledInvariant, PTL DEF Spec

=============================================================================
