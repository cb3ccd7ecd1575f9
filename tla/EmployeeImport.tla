---------------------------- MODULE EmployeeImport ----------------------------
(***************************************************************************)
(* The import of a CSV file of employee data                               *)
(* (services/api/employee-import/src/EmployeeImport.Service.ts).           *)
(*                                                                         *)
(* A file becomes a DataImportEvent with one detail row per line; a Step   *)
(* Functions state machine then calls one function per row and, in the     *)
(* end, one that writes the status of the event.  The machine is not in    *)
(* the repository: it is modelled from the functions it calls, and it may  *)
(* serve the rows one at a time or several at once.                        *)
(*                                                                         *)
(* The function of a row writes HR (the SQL database of the tenant) and    *)
(* payroll (Evolution), which share no transaction.  Each call takes       *)
(* effect or goes wrong: it is refused; its answer is lost; it misses its  *)
(* database and the error is taken for a result; or the function itself    *)
(* dies (a timeout, or the rejection of a promise that nobody awaits).     *)
(*                                                                         *)
(* In bulk the file is of several companies: the function of a row looks   *)
(* its company up first, and reports a failure of what it calls once more. *)
(***************************************************************************)
EXTENDS Integers, FiniteSets

CONSTANTS
    Kinds,          \* data import types
    Employees,
    RateNumbers,    \* numbers of alternate rates
    MaxDate,        \* bound: dates are 1 .. MaxDate
    MaxRows,        \* bound: lines of the file
    Concurrencies,  \* how many rows the machine may serve at once
    Faults,         \* the ways in which calls go wrong
    MaxFailures     \* bound: calls that go wrong

FaultKinds == {"refused", "lost", "missed", "died"}

ASSUME ConstantsAssumption ==
    /\ Kinds \subseteq {"employee", "compensation", "alternateRate"} /\ Kinds # {}
    /\ Employees # {} /\ RateNumbers \subseteq Nat \ {0, 1} /\ RateNumbers # {}
    /\ MaxDate \in Nat \ {0} /\ MaxRows \in Nat
    /\ Concurrencies \subseteq Nat \ {0} /\ Concurrencies # {}
    /\ Faults \subseteq FaultKinds /\ MaxFailures \in Nat

VARIABLES
    kind,         \* the type of the import
    concurrency,  \* how many rows are served at once
    integrated,   \* the company is one of Evolution's
    bulk,         \* the import is one in bulk
    event,        \* DataImportEvent.Status
    status,       \* DataImportEventDetail.CSVRowStatus of each row
    content,      \* what each row asks for
    machine,      \* where the state machine is
    ending,       \* the writing of the final status, which nobody awaits
    step,         \* where the function of each row is
    hasWage,      \* local: Evolution has the wage that the row changes
    patch,        \* local: the rows whose entries are patched into Evolution
    posting,      \* rows whose POST of a wage nobody awaits
    skipped,      \* rows for which payroll was not written though nothing failed
    hr,           \* EmployeeCompensation or EmployeeAlternateRate
    updated,      \* rows whose data Employee holds
    wages,        \* the wages that Evolution has: employee and rate number
    evo,          \* rows whose data Evolution holds: in a wage, in the employee
    failures      \* how many calls went wrong in each way

locals == <<hasWage, patch, posting, skipped>>
stores == <<hr, updated, wages, evo>>
setting == <<kind, concurrency, integrated, bulk, content>>
vars == <<setting, event, status, machine, ending, step, locals, stores, failures>>

Rows == 1 .. MaxRows

Dates == 1 .. MaxDate

Open == MaxDate + 1  \* no EndDate

\* Compensations are paid with the wage of rate 1.
Numbers == RateNumbers \cup {1}

NumbersOf(k) == IF k = "alternateRate" THEN RateNumbers ELSE {1}

Content == [employee : Employees, number : Numbers, start : Dates, end : 0 .. Open]

ContentOf(k) ==
    {c \in Content :
        /\ c.end > 0
        /\ c.number \in NumbersOf(k)
        /\ k # "alternateRate" => c.end = Open
        /\ k = "employee" => c.start = 1}

Entry == [id : Nat, row : {0} \cup Rows, employee : Employees, number : Numbers,
          start : Dates, end : 0 .. Open, linked : BOOLEAN]

EventStatuses == {"none", "Ready", "Processing", "Processed", "Partially Processed",
                  "Failed", "Error"}

Final == {"Processed", "Partially Processed", "Failed", "Error"}

RowStatuses == {"none", "Ready", "Passed", "Processed", "Failed"}

Steps == {"waiting", "findCompany", "validate", "insert", "readEvo", "readHr", "changeEmployee", "updateHr",
          "postWage", "putWage", "patchWage", "patchEmployee", "link", "markProcessed",
          "rollback", "markFailed", "markInBulk", "answered", "thrown", "dead"}

Idle == {"waiting", "answered", "thrown", "dead"}

\* Entries that HR may hold before the import, at most one per employee.
Earlier(k, known) ==
    {S \in SUBSET {[id |-> 1, row |-> 0, employee |-> e, number |-> n, start |-> 1,
                    end |-> Open, linked |-> known] :
                       e \in Employees, n \in NumbersOf(k)} :
        \A x, y \in S : x.employee = y.employee => x = y}

Init ==
    /\ kind \in Kinds
    /\ concurrency \in Concurrencies
    /\ integrated \in BOOLEAN /\ bulk \in BOOLEAN
    /\ content = [r \in Rows |-> CHOOSE c \in ContentOf(kind) : TRUE]
    /\ event = "none"
    /\ status = [r \in Rows |-> "none"]
    /\ machine = "idle"
    /\ ending = "none"
    /\ step = [r \in Rows |-> "waiting"]
    /\ hasWage = [r \in Rows |-> TRUE]
    /\ patch = [r \in Rows |-> {}]
    /\ posting = {}
    /\ skipped = {}
    /\ hr \in IF kind = "employee" THEN {{}} ELSE Earlier(kind, integrated)
    /\ updated = {}
    /\ wages \in {W \in SUBSET (Employees \X NumbersOf(kind)) :
                     /\ ~integrated \/ kind = "employee" => W = {}
                     /\ integrated => \A x \in hr : <<x.employee, x.number>> \in W}
    /\ evo = [wage |-> {}, employee |-> {}]
    /\ failures = [f \in FaultKinds |-> 0]

Failures == failures["refused"] + failures["lost"] + failures["missed"] + failures["died"]

GoesWrong(fault) ==
    /\ fault \in Faults
    /\ Failures < MaxFailures
    /\ failures' = [failures EXCEPT ![fault] = @ + 1]

-----------------------------------------------------------------------------
(* The event and the machine.                                                *)

\* One query inserts the event and its rows; empty lines are left out.
Import(n) ==
    /\ machine = "idle"
    /\ event' = "Ready"
    /\ status' = [r \in Rows |-> IF r <= n THEN "Ready" ELSE "none"]
    /\ content' \in [Rows -> ContentOf(kind)]
    /\ \A r \in Rows : r > n => content'[r] = content[r]
    /\ machine' = "imported"
    /\ UNCHANGED <<kind, concurrency, integrated, bulk, ending, step, locals, stores, failures>>

ImportFails ==
    /\ machine = "idle"
    /\ GoesWrong("refused")
    /\ machine' = "ended"
    /\ UNCHANGED <<setting, event, status, ending, step, locals, stores>>

StartExecution ==
    /\ machine = "imported"
    /\ \/ machine' = "started" /\ UNCHANGED failures
       \/ machine' = "ended" /\ GoesWrong("refused")
    /\ UNCHANGED <<setting, event, status, ending, step, locals, stores>>

dataImports == ~bulk /\ (ImportFails \/ StartExecution \/ \E n \in 0 .. MaxRows : Import(n))

\* In bulk the event is of no company; all else is the same.
dataImportsInBulk == bulk /\ (ImportFails \/ StartExecution \/ \E n \in 0 .. MaxRows : Import(n))

\* The status is written before Evolution's token is asked for.
SetProcessing ==
    /\ machine = "started"
    /\ \/ event' = "Processing" /\ machine' = "rows" /\ UNCHANGED failures
       \/ event' = event /\ machine' = "rows" /\ GoesWrong("missed")
       \/ event' \in {event, "Processing"} /\ machine' = "failing" /\ GoesWrong("refused")
       \/ event' = "Processing" /\ machine' = "failing" /\ GoesWrong("lost")
    /\ UNCHANGED <<setting, status, ending, step, locals, stores>>

Imported == {r \in Rows : status[r] # "none"}

Running == {r \in Rows : step[r] \notin Idle}

StartRow(r) ==
    /\ machine = "rows"
    /\ r \in Imported /\ step[r] = "waiting"
    /\ \A q \in 1 .. r - 1 : step[q] # "waiting"
    /\ Cardinality(Running) < concurrency
    /\ step' = [step EXCEPT ![r] = IF bulk THEN "findCompany" ELSE "validate"]
    /\ UNCHANGED <<setting, event, status, machine, ending, locals, stores, failures>>

\* A row whose function threw or died fails the machine; the others run on.
RowsFail ==
    /\ machine = "rows"
    /\ \E r \in Rows : step[r] \in {"thrown", "dead"}
    /\ machine' = "failing"
    /\ UNCHANGED <<setting, event, status, ending, step, locals, stores, failures>>

RowsEnd ==
    /\ machine = "rows"
    /\ \A r \in Imported : step[r] = "answered"
    /\ machine' = "completing"
    /\ UNCHANGED <<setting, event, status, ending, step, locals, stores, failures>>

\* The function answers before the work it started has made its first call.
SetCompleted ==
    /\ machine = "completing"
    /\ machine' = "ended"
    /\ ending' = "summarise"
    /\ UNCHANGED <<setting, event, status, step, locals, stores, failures>>

SetFailed ==
    /\ machine = "failing"
    /\ machine' = "ended"
    /\ ending' = "Error"
    /\ UNCHANGED <<setting, event, status, step, locals, stores, failures>>

StatusGroups == {status[r] : r \in Imported}

\* Mutant: one processed row is enough.
FinalStatusAny == IF "Processed" \in StatusGroups THEN "Processed" ELSE "Failed"

FinalStatus ==
    IF StatusGroups = {"Processed"} THEN "Processed"
    ELSE IF "Processed" \in StatusGroups THEN "Partially Processed" ELSE "Failed"

\* Mutant: one group of rows is taken for none.
SummariseGroups ==
    /\ ending = "summarise"
    /\ ending' = IF Cardinality(StatusGroups) <= 1 THEN "done" ELSE FinalStatus
    /\ UNCHANGED <<setting, event, status, machine, step, locals, stores, failures>>

\* Without rows there is nothing to report, and nothing is written.
Summarise ==
    /\ ending = "summarise"
    /\ \/ /\ ending' = IF Imported = {} THEN "done" ELSE FinalStatus
          /\ UNCHANGED failures
       \/ ending' = "done" /\ (GoesWrong("refused") \/ GoesWrong("missed"))
    /\ UNCHANGED <<setting, event, status, machine, step, locals, stores>>

WriteStatus ==
    /\ \/ event' = ending /\ (UNCHANGED failures \/ GoesWrong("lost"))
       \/ event' = event /\ (GoesWrong("refused") \/ GoesWrong("missed"))
    /\ ending' = "done"
    /\ UNCHANGED <<setting, status, machine, step, locals, stores>>

WriteFinal == ending \in Final \ {"Error"} /\ WriteStatus

WriteError == ending = "Error" /\ WriteStatus

\* The process is stopped with its function and never woken again.
Freeze ==
    /\ ending \in {"summarise"} \cup Final
    /\ ending' = "frozen"
    /\ UNCHANGED <<setting, event, status, machine, step, locals, stores, failures>>

-----------------------------------------------------------------------------
(* The function of a row.                                                    *)

rest == <<setting, event, machine, ending>>

Goto(r, label) == step' = [step EXCEPT ![r] = label]

\* A call whose failure throws to the step "handler"; effect is what it does.
Call(r, effect, none, next, handler) ==
    \/ effect /\ Goto(r, next) /\ UNCHANGED failures
    \/ none /\ Goto(r, handler) /\ GoesWrong("refused")
    \/ effect /\ Goto(r, handler) /\ GoesWrong("lost")

\* A write that queryExecutor answers with an error, which is taken for a result.
Missed(r, next) == Goto(r, next) /\ GoesWrong("missed")

Report(r, s) == status' = [status EXCEPT ![r] = s]

Own(r) == {x \in hr : x.employee = content[r].employee}

\* Mutant: two compensations of a day are accepted.
EffectiveSameDay(r) == \A x \in Own(r) : content[r].start >= x.start

\* A compensation takes effect after all that HR holds.
EffectiveLater(r) == \A x \in Own(r) : content[r].start > x.start

\* A rate starts and ends after all that have ended.
DatesLater(r) ==
    \A x \in Own(r) : x.end # Open => content[r].start > x.end /\ content[r].end > x.end

\* The header of the file is read, then a script validates the row, by its dates and
\* by columns that are not modelled.  It may always find one wrong.
Invalid(r) == Call(r, Report(r, "Failed"), UNCHANGED status, "answered", "markFailed")

ValidateEmployee(r) ==
    /\ kind = "employee" /\ step[r] = "validate"
    /\ \/ Call(r, Report(r, "Passed"), UNCHANGED status, "readEvo", "markFailed")
       \/ Invalid(r)
    /\ UNCHANGED <<rest, locals, stores>>

\* The status of a valid compensation stays 'Ready'.
ValidateCompensation(r) ==
    /\ kind = "compensation" /\ step[r] = "validate"
    /\ \/ EffectiveLater(r) /\ Call(r, UNCHANGED status, UNCHANGED status, "insert", "markFailed")
       \/ Invalid(r)
    /\ UNCHANGED <<rest, locals, stores>>

ValidateAlternateRate(r) ==
    /\ kind = "alternateRate" /\ step[r] = "validate"
    /\ \/ DatesLater(r) /\ Call(r, Report(r, "Passed"), UNCHANGED status, "insert", "markFailed")
       \/ Invalid(r)
    /\ UNCHANGED <<rest, locals, stores>>

LastId(S) == CHOOSE i \in {0} \cup {x.id : x \in S} : \A x \in S : i >= x.id

\* The previous rate of the employee, whatever its number, ends the day before.
Ended(r) ==
    {IF x \in Own(r) /\ x.id = LastId(Own(r)) THEN [x EXCEPT !.end = content[r].start - 1]
     ELSE x : x \in hr}

NewEntry(r) ==
    [id |-> LastId(hr) + 1, row |-> r, employee |-> content[r].employee,
     number |-> content[r].number, start |-> content[r].start, end |-> content[r].end,
     linked |-> FALSE]

\* The script also reports the row as processed.
Insert(r, before) ==
    /\ step[r] = "insert"
    /\ Call(r, hr' = before \cup {NewEntry(r)} /\ Report(r, "Processed"),
            UNCHANGED <<hr, status>>, "readEvo", "markFailed")
    /\ UNCHANGED <<rest, locals, updated, wages, evo>>

InsertCompensation(r) == kind = "compensation" /\ Insert(r, hr)

InsertAlternateRate(r) == kind = "alternateRate" /\ Insert(r, Ended(r))

\* Mutant: what goes wrong in payroll is only reported.
HandlerReports == "markFailed"

\* The catch around the calls to payroll.
Handler == "rollback"

Wage(r) == <<content[r].employee, content[r].number>>

\* The keys of the employee, then what Evolution holds.  Only a company of Evolution's
\* has the keys.
ReadEmployee(r) ==
    /\ kind = "employee" /\ step[r] = "readEvo"
    /\ Call(r, TRUE, TRUE, IF integrated THEN "changeEmployee" ELSE "markFailed", "markFailed")
    /\ UNCHANGED <<rest, status, locals, stores>>

Found(r) == hasWage' = [hasWage EXCEPT ![r] = Wage(r) \in wages]

\* Nothing is written to payroll, and nothing throws.
Skip(r, next) ==
    /\ Goto(r, next)
    /\ skipped' = skipped \cup {r}
    /\ UNCHANGED <<hasWage, posting, patch, failures>>

\* A wage that is missing is posted and the promise is not awaited.  If a key of the
\* company is 0, or Evolution's answer has no results, the row is done.
ReadWages(r) ==
    /\ kind = "compensation" /\ step[r] = "readEvo"
    /\ \/ /\ integrated
          /\ Call(r, Found(r), UNCHANGED hasWage, "readHr", Handler)
          /\ posting' = IF step'[r] = "readHr" /\ Wage(r) \notin wages
                        THEN posting \cup {r} ELSE posting
          /\ UNCHANGED <<patch, skipped>>
       \/ integrated /\ Skip(r, "markProcessed")
       \/ ~integrated /\ Call(r, TRUE, TRUE, Handler, Handler) /\ UNCHANGED locals
    /\ UNCHANGED <<rest, status, stores>>

\* A rate is done, too, if the company is not one of Evolution's.
ReadRates(r) ==
    /\ kind = "alternateRate" /\ step[r] = "readEvo"
    /\ \/ /\ integrated
          /\ Call(r, Found(r), UNCHANGED hasWage, "readHr", Handler)
          /\ UNCHANGED <<posting, patch, skipped>>
       \/ integrated /\ Skip(r, "markProcessed")
       \/ ~integrated /\ Call(r, TRUE, TRUE, "markProcessed", Handler) /\ UNCHANGED locals
    /\ UNCHANGED <<rest, status, stores>>

PostedWage(r) ==
    /\ r \in posting
    /\ wages' = wages \cup {Wage(r)}
    /\ posting' = posting \ {r}
    /\ UNCHANGED <<rest, status, step, hasWage, patch, skipped, hr, updated, evo, failures>>

\* Every compensation of the employee, or every rate of the number, is patched.
SameNumber(r) == {x.row : x \in {y \in Own(r) : y.number = content[r].number}}

ReadHr(r, next) ==
    /\ step[r] = "readHr"
    /\ Call(r, patch' = [patch EXCEPT ![r] = SameNumber(r)], UNCHANGED patch, next, Handler)
    /\ UNCHANGED <<rest, status, hasWage, posting, skipped, stores>>

GetCompensations(r) == kind = "compensation" /\ ReadHr(r, "patchWage")

GetAlternateRates(r) ==
    kind = "alternateRate" /\ ReadHr(r, IF hasWage[r] THEN "putWage" ELSE "postWage")

\* The rates of the number may be none (of another employee with the code, or deleted):
\* the function answers, and leaves the row as the insert reported it.
FindNoRates(r) ==
    /\ kind = "alternateRate" /\ step[r] = "readHr"
    /\ Skip(r, "answered")
    /\ UNCHANGED <<rest, status, stores>>

PostWage(r) ==
    /\ step[r] = "postWage"
    /\ Call(r, wages' = wages \cup {Wage(r)}, UNCHANGED wages, "putWage", Handler)
    /\ UNCHANGED <<rest, status, locals, hr, updated, evo>>

PutWage(r) ==
    /\ step[r] = "putWage"
    /\ Call(r, evo' = [evo EXCEPT !.wage = @ \cup {r}], UNCHANGED evo, "patchWage", Handler)
    /\ UNCHANGED <<rest, status, locals, hr, updated, wages>>

PatchedWage(r) == evo' = [evo EXCEPT !.wage = @ \cup patch[r]]

PatchWage(r) ==
    /\ kind = "compensation" /\ step[r] = "patchWage" /\ hasWage[r]
    /\ Call(r, PatchedWage(r), UNCHANGED evo, "patchEmployee", Handler)
    /\ UNCHANGED <<rest, status, locals, hr, updated, wages>>

PatchRate(r) ==
    /\ kind = "alternateRate" /\ step[r] = "patchWage"
    /\ Call(r, PatchedWage(r), UNCHANGED evo, "link", Handler)
    /\ UNCHANGED <<rest, status, locals, hr, updated, wages>>

\* The wage is a promise: it has no id, which Evolution refuses, and no workers'
\* compensation, which a function that nobody awaits fails to set.
PatchPromise(r) ==
    /\ step[r] = "patchWage"
    /\ kind = "compensation" /\ ~hasWage[r]
    /\ Goto(r, Handler) \/ Goto(r, "dead")
    /\ UNCHANGED <<rest, status, locals, stores, failures>>

PatchedEmployee(r) == evo' = [evo EXCEPT !.employee = @ \cup patch[r]]

\* Mutant: the error of the PATCH is logged only.
PatchEmployeeOrLog(r) ==
    /\ step[r] = "patchEmployee"
    /\ Call(r, PatchedEmployee(r), UNCHANGED evo, "link", "link")
    /\ UNCHANGED <<rest, status, locals, hr, updated, wages>>

PatchEmployee(r) ==
    /\ step[r] = "patchEmployee"
    /\ Call(r, PatchedEmployee(r), UNCHANGED evo, "link", Handler)
    /\ UNCHANGED <<rest, status, locals, hr, updated, wages>>

Linked(r) == {IF x.row = r THEN [x EXCEPT !.linked = TRUE] ELSE x : x \in hr}

\* PR_Integration_PK of the entry.
Link(r) ==
    /\ step[r] = "link"
    /\ \/ Call(r, hr' = Linked(r), UNCHANGED hr, "markProcessed", Handler)
       \/ Missed(r, "markProcessed") /\ UNCHANGED hr
    /\ UNCHANGED <<rest, status, locals, updated, wages, evo>>

MarkProcessed(r) ==
    /\ step[r] = "markProcessed"
    /\ \/ Call(r, Report(r, "Processed"), UNCHANGED status, "answered", "markFailed")
       \/ Missed(r, "answered") /\ UNCHANGED status
    /\ UNCHANGED <<rest, locals, stores>>

\* The entry is deleted if it was not linked; the error is then thrown again.
Rollback(r) ==
    /\ step[r] = "rollback"
    /\ \/ Call(r, hr' = {x \in hr : x.row # r \/ x.linked}, UNCHANGED hr, "markFailed", "markFailed")
       \/ Missed(r, "markFailed") /\ UNCHANGED hr
    /\ UNCHANGED <<rest, status, locals, updated, wages, evo>>

ReportFailed(r, handler) ==
    /\ \/ Call(r, Report(r, "Failed"), UNCHANGED status, "answered", handler)
       \/ Missed(r, "answered") /\ UNCHANGED status
    /\ UNCHANGED <<rest, locals, stores>>

\* The catch of the function; a failure of its own leaves the function.
MarkFailed(r) == step[r] = "markFailed" /\ ReportFailed(r, IF bulk THEN "markInBulk" ELSE "thrown")

\* The PUT of the whole employee; a new employee code that is in use throws before.
ChangeEmployee(r) ==
    /\ step[r] = "changeEmployee"
    /\ \/ Call(r, evo' = [evo EXCEPT !.employee = @ \cup {r}], UNCHANGED evo, "updateHr", "markFailed")
       \/ Goto(r, "markFailed") /\ UNCHANGED <<evo, failures>>
    /\ UNCHANGED <<rest, status, locals, hr, updated, wages>>

UpdatedEmployee(r) == updated' = updated \cup {r} /\ Report(r, "Processed")

\* The script reports the row; if it fails it takes its updates back and says so.
UpdateHr(r) ==
    /\ step[r] = "updateHr"
    /\ \/ Call(r, UpdatedEmployee(r), UNCHANGED <<updated, status>>, "answered", "markFailed")
       \/ Goto(r, "answered") /\ Report(r, "Failed") /\ GoesWrong("refused") /\ UNCHANGED updated
    /\ UNCHANGED <<rest, locals, hr, wages, evo>>

updateEmployee(r) ==
    \/ ValidateEmployee(r) \/ ReadEmployee(r) \/ ChangeEmployee(r) \/ UpdateHr(r)
    \/ kind = "employee" /\ MarkFailed(r)

updateCompensation(r) ==
    \/ ValidateCompensation(r) \/ InsertCompensation(r) \/ ReadWages(r) \/ GetCompensations(r)
    \/ PatchWage(r) \/ PatchPromise(r) \/ PatchEmployee(r)
    \/ kind = "compensation" /\ (Link(r) \/ MarkProcessed(r) \/ Rollback(r) \/ MarkFailed(r))

updateAlternateRate(r) ==
    \/ ValidateAlternateRate(r) \/ InsertAlternateRate(r) \/ ReadRates(r) \/ GetAlternateRates(r)
    \/ FindNoRates(r) \/ PostWage(r) \/ PutWage(r) \/ PatchRate(r)
    \/ kind = "alternateRate" /\ (Link(r) \/ MarkProcessed(r) \/ Rollback(r) \/ MarkFailed(r))

\* In bulk, the company of the row is looked up by its code, which may be of none.
FindCompany(r) ==
    /\ step[r] = "findCompany"
    /\ \/ Call(r, TRUE, TRUE, "validate", "markInBulk")
       \/ Goto(r, "markInBulk") /\ UNCHANGED failures
    /\ UNCHANGED <<rest, status, locals, stores>>

\* The catch around the function of the row.
MarkInBulk(r) == step[r] = "markInBulk" /\ ReportFailed(r, "thrown")

updateEmployeeInBulk(r) ==
    bulk /\ kind = "employee" /\ (FindCompany(r) \/ updateEmployee(r) \/ MarkInBulk(r))

updateCompensationInBulk(r) ==
    bulk /\ kind = "compensation" /\ (FindCompany(r) \/ updateCompensation(r) \/ MarkInBulk(r))

updateAlternateRateInBulk(r) ==
    bulk /\ kind = "alternateRate" /\ (FindCompany(r) \/ updateAlternateRate(r) \/ MarkInBulk(r))

\* The function is stopped: by its timeout, or because a PUT of the wage that
\* nobody awaits is rejected.
Die(r) ==
    /\ step[r] \notin Idle
    /\ GoesWrong("died")
    /\ Goto(r, "dead")
    /\ UNCHANGED <<rest, status, locals, stores>>

-----------------------------------------------------------------------------

Machine ==
    \/ dataImports \/ dataImportsInBulk \/ SetProcessing
    \/ \E r \in Rows : StartRow(r)
    \/ RowsFail \/ RowsEnd \/ SetCompleted \/ SetFailed

Ending == Summarise \/ WriteFinal \/ WriteError \/ Freeze

Row(r) ==
    \/ ~bulk /\ (updateEmployee(r) \/ updateCompensation(r) \/ updateAlternateRate(r))
    \/ updateEmployeeInBulk(r) \/ updateCompensationInBulk(r) \/ updateAlternateRateInBulk(r)

Next ==
    \/ Machine \/ Ending
    \/ \E r \in Rows : Row(r) \/ PostedWage(r) \/ Die(r)

\* The machine goes on while it can, and so does a function: its timeout ends it.
\* Work that nobody awaits is done or frozen; a POST may never arrive.
Fairness ==
    /\ WF_vars(Machine) /\ WF_vars(Ending)
    /\ \A r \in Rows : WF_vars(Row(r))

Spec == Init /\ [][Next]_vars /\ Fairness

-----------------------------------------------------------------------------
(* Properties.                                                               *)

\* Stores and locals hold values of their types.
TypeOK ==
    /\ kind \in Kinds /\ concurrency \in Concurrencies /\ integrated \in BOOLEAN /\ bulk \in BOOLEAN
    /\ content \in [Rows -> ContentOf(kind)]
    /\ event \in EventStatuses
    /\ status \in [Rows -> RowStatuses]
    /\ machine \in {"idle", "imported", "started", "rows", "completing", "failing", "ended"}
    /\ ending \in {"none", "summarise", "done", "frozen"} \cup Final
    /\ step \in [Rows -> Steps]
    /\ hasWage \in [Rows -> BOOLEAN]
    /\ patch \in [Rows -> SUBSET ({0} \cup Rows)]
    /\ posting \subseteq Rows /\ skipped \subseteq Rows
    /\ hr \subseteq Entry /\ updated \subseteq Rows
    /\ wages \subseteq Employees \X Numbers
    /\ evo \in [wage : SUBSET ({0} \cup Rows), employee : SUBSET ({0} \cup Rows)]
    /\ failures \in [FaultKinds -> 0 .. MaxFailures]

\* What the row asked for is in HR and in payroll.
InHr(r) == IF kind = "employee" THEN r \in updated ELSE \E x \in hr : x.row = r

InEvo(r) ==
    /\ kind # "employee" /\ integrated => r \in evo.wage
    /\ kind # "alternateRate" => r \in evo.employee

\* The row is done: it is in HR, and in payroll unless payroll was skipped.
Done(r) == InHr(r) /\ (InEvo(r) \/ r \in skipped)

\* The final status tells the truth, unless a write missed its database: all of
\* the rows of a processed import are in HR and, but for those for which payroll was
\* skipped, in payroll; some of a partially processed one are and some are not reported
\* so, and of a failed one none is.
StatusTellsTruth ==
    failures["missed"] = 0 =>
        /\ event = "Processed" => \A r \in Imported : Done(r)
        /\ event = "Partially Processed" =>
               /\ \E r \in Imported : Done(r)
               /\ \E r \in Imported : status[r] = "Failed"
        /\ event = "Failed" => \A r \in Imported : status[r] = "Failed"

\* An entry of HR that carries a key of payroll is in payroll.
LinkedMeansInEvo == \A x \in hr : x.row > 0 /\ x.linked => InEvo(x.row)

\* A row that was answered as failed leaves in HR no entry that payroll does not
\* know, as long as nothing but one call is refused (none, if the row was bound to fail:
\* the company is not one of Evolution's, or the wage is a promise; nor if payroll was
\* skipped, as what fails after that is only reported).
FailedLeavesNothing ==
    failures["lost"] + failures["missed"] = 0 =>
        \A r \in Rows : step[r] = "answered" /\ status[r] = "Failed" =>
            \/ failures["refused"] > (IF integrated /\ hasWage[r] /\ r \notin skipped THEN 1 ELSE 0)
            \/ \A x \in hr : x.row = r => x.linked

\* One row at a time, the entries of an employee follow each other: a
\* compensation takes effect after those before it, and a rate ends the day before
\* the next one starts.
EntriesFollow ==
    concurrency = 1 =>
        \A x, y \in hr : x.employee = y.employee /\ x.id < y.id =>
            /\ kind = "compensation" => x.start < y.start
            /\ kind = "alternateRate" /\ (\A z \in hr : z.employee = x.employee => z.id <= x.id \/ z.id >= y.id)
                   => x.end = y.start - 1

\* An import that was started with rows gets its final status, unless a call went
\* wrong or the work that nobody awaits was frozen.
FinalStatusWritten ==
    machine = "started" /\ Imported # {}
        ~> event \in Final \/ ending = "frozen" \/ Failures > 0

\* Every import that was started gets a final status: 'Completed', 'Partially
\* Processed' or 'Failed' (handler.ts, setCompletedStatusGlobal).
EveryImportEnds ==
    machine = "started" ~> event \in Final \/ ending = "frozen" \/ Failures > 0

=============================================================================
