---------------------------- MODULE GroupTermLife ----------------------------
(***************************************************************************)
(* The group term life handlers of the HR API                              *)
(* (services/api/group-term-life): create, update and delete of the        *)
(* coverage of an employee, kept in dbo.GroupTermLife and in the           *)
(* groupTermLife section of the employee in Evolution payroll.             *)
(*                                                                         *)
(* All three handlers take the same steps: read the employee and validate  *)
(* the body, look for a record, update Evolution, write the record.  Each  *)
(* is one remote call, and a call that fails ends the request without      *)
(* undoing the ones before it.  None is SQL NULL, JSON null, or a field    *)
(* that was not sent.                                                      *)
(***************************************************************************)
EXTENDS ServiceRequests, Integers, Sequences

CONSTANTS
    Bodies,        \* bodies the clients send
    Numbers,       \* numbers in them
    StoredNumber,  \* what a numeric(18,2) column keeps of each number
    StoredHours,   \* what an int column keeps of each number
    OmittedKept    \* Evolution keeps what a PUT leaves out

Figure == Numbers \cup {None}

\* flatAmount, earningsMultiplier and workHours; policyAmount, rate and hours
\* in Evolution, which is not told about flatCoverage.
Figures == [amount : Figure, rate : Figure, hours : Figure]

NoFigures == [amount |-> None, rate |-> None, hours |-> None]

Body == [flat : BOOLEAN, figures : Figures]

ASSUME NumbersAssumption ==
    /\ 0 \in Numbers
    /\ Bodies \subseteq Body
    /\ StoredNumber \in [Numbers -> Numbers]
    /\ StoredHours \in [Numbers -> Numbers]
    /\ None \notin Numbers
    /\ None \notin {"create", "update", "delete"}
    /\ None \notin [key : Employees, value : Figures]
    /\ OmittedKept \in BOOLEAN

VARIABLES
    rows,      \* dbo.GroupTermLife: the rows of each employee
    evo,       \* groupTermLife of each employee in Evolution
    salaried,  \* whether each employee is salaried
    extra      \* history: records inserted after a check that came too early

gtlVars == <<rows, evo, salaried, req, met, extra>>

Operations == {"create", "update", "delete"}

\* delete has no body: it nulls every figure.
NoBody == [flat |-> FALSE, figures |-> NoFigures]

GtlRequest == [pc : {"read", "existing", "evolution", "write"}, op : Operations,
            emp : Employees, body : Body]

GtlIdle == [pc |-> "idle", op |-> None, emp |-> None, body |-> NoBody]

GtlInit ==
    /\ rows = [e \in Employees |-> <<>>]
    /\ evo = [e \in Employees |-> NoFigures]
    /\ salaried \in [Employees -> BOOLEAN]
    /\ req = [r \in Requests |-> GtlIdle]
    /\ met = [r \in Requests |-> {}]
    /\ extra = [e \in Employees |-> 0]

-----------------------------------------------------------------------------
(* Validation and conversions.  A figure that is 0 counts as missing.       *)

Given(figure) == figure \notin {0, None}

\* Mutant: a flat coverage with hours is accepted.
ValidFlatOnly(body, isSalary) ==
    IF body.flat
    THEN Given(body.figures.amount) /\ ~Given(body.figures.rate)
    ELSE /\ Given(body.figures.rate)
         /\ isSalary \/ Given(body.figures.hours)
         /\ ~Given(body.figures.amount)

Valid(body, isSalary) ==
    IF body.flat
    THEN /\ Given(body.figures.amount)
         /\ ~Given(body.figures.rate)
         /\ ~Given(body.figures.hours)
    ELSE /\ Given(body.figures.rate)
         /\ isSalary \/ Given(body.figures.hours)
         /\ ~Given(body.figures.amount)

OrNull(figure) == IF Given(figure) THEN figure ELSE None

OrNulls(f) == [amount |-> OrNull(f.amount), rate |-> OrNull(f.rate),
               hours |-> OrNull(f.hours)]

InColumn(column, figure) == IF figure = None THEN None ELSE column[figure]

\* The figures as the columns of the table keep them.
Stored(f) == [amount |-> InColumn(StoredNumber, OrNull(f.amount)),
              rate |-> InColumn(StoredNumber, OrNull(f.rate)),
              hours |-> InColumn(StoredHours, OrNull(f.hours))]

GtlRow(body) == [flat |-> body.flat, figures |-> Stored(body.figures)]

\* A figure that create was not sent is undefined, and JSON leaves it out.
Sent(current, figure) ==
    IF figure = None /\ OmittedKept THEN current ELSE figure

\* create puts the figures as they were sent, the others null what is not given.
FiguresToPut(r) ==
    LET f == req[r].body.figures
        current == evo[req[r].emp] IN
    IF req[r].op = "create"
    THEN [amount |-> Sent(current.amount, f.amount),
          rate |-> Sent(current.rate, f.rate),
          hours |-> Sent(current.hours, f.hours)]
    ELSE OrNulls(f)

-----------------------------------------------------------------------------
(* The handlers.                                                            *)

GtlReturn(r) == req' = [req EXCEPT ![r] = GtlIdle]

StartRequest(r, op, emp, body) ==
    /\ At(r, "idle")
    /\ req' = [req EXCEPT ![r] = [pc |-> "read", op |-> op, emp |-> emp, body |-> body]]
    /\ UNCHANGED <<rows, evo, salaried>>

\* getById and validateCompany, then the validation of the body.
ReadEmployee(r) ==
    /\ At(r, "read")
    /\ IF req[r].op = "delete" \/ Valid(req[r].body, salaried[req[r].emp])
       THEN Goto(r, "existing")
       ELSE GtlReturn(r)                                             \* 30
    /\ UNCHANGED <<rows, evo, salaried>>

HasRecord(r) == rows[req[r].emp] # <<>>

\* Mutant: create does not look for a record.
ReadExistingUnlessCreate(r) ==
    /\ At(r, "existing")
    /\ IF req[r].op = "create" \/ HasRecord(r)
       THEN Goto(r, "evolution")
       ELSE GtlReturn(r)
    /\ UNCHANGED <<rows, evo, salaried>>

\* listGtlRecordsByEmployee: create wants no record, update and delete want one.
ReadExisting(r) ==
    /\ At(r, "existing")
    /\ IF HasRecord(r) <=> req[r].op # "create"
       THEN Goto(r, "evolution")
       ELSE GtlReturn(r)                                             \* 73, 50
    /\ UNCHANGED <<rows, evo, salaried>>

\* Mutant: Evolution is not told when a record is deleted.
UpdateEvolutionUnlessDelete(r) ==
    /\ At(r, "evolution")
    /\ evo' = IF req[r].op = "delete" THEN evo
              ELSE [evo EXCEPT ![req[r].emp] = FiguresToPut(r)]
    /\ Goto(r, "write")
    /\ UNCHANGED <<rows, salaried>>

\* updateEvolution: GET the employee, set the figures, PUT it back.  The rest of
\* the employee is not modelled.
UpdateEvolution(r) ==
    /\ At(r, "evolution")
    /\ evo' = [evo EXCEPT ![req[r].emp] = FiguresToPut(r)]
    /\ Goto(r, "write")
    /\ UNCHANGED <<rows, salaried>>

\* An update rewrites every row of the employee, a delete removes every one.
RowsWritten(r) ==
    LET current == rows[req[r].emp]
        row == GtlRow(req[r].body) IN
    IF req[r].op = "create" THEN Append(current, row)
    ELSE IF req[r].op = "update" THEN [n \in DOMAIN current |-> row]
    ELSE <<>>

WriteRecord(r) ==
    /\ At(r, "write")
    /\ rows' = [rows EXCEPT ![req[r].emp] = RowsWritten(r)]
    /\ GtlReturn(r)
    /\ UNCHANGED <<evo, salaried>>

\* Any remote call may fail, before or after it had its effect.  A statement that
\* misses its database writes nothing either, though it is answered as a success.
GtlFail(r) ==
    /\ ~At(r, "idle")
    /\ GtlReturn(r)
    /\ UNCHANGED <<rows, evo, salaried>>

\* The HR application changes how the employee is paid (external).
Reclassify(e) ==
    /\ salaried' = [salaried EXCEPT ![e] = ~@]
    /\ UNCHANGED <<rows, evo, req>>

-----------------------------------------------------------------------------

GtlStart(r) ==
    \E emp \in Employees :
        \/ \E op \in {"create", "update"}, body \in Bodies : StartRequest(r, op, emp, body)
        \/ StartRequest(r, "delete", emp, NoBody)

GtlHandler(r) ==
    \/ ReadEmployee(r)
    \/ ReadExisting(r)
    \/ UpdateEvolution(r)
    \/ WriteRecord(r)

GtlStep ==
    \/ \E r \in Requests : GtlStart(r) \/ GtlHandler(r) \/ GtlFail(r)
    \/ \E e \in Employees : Reclassify(e)

-----------------------------------------------------------------------------
(* History: the records inserted since a request looked for one, and those     *)
(* that were inserted all the same.  The table has no key that would refuse    *)
(* them, and no handler reads this.                                            *)

Inserted(e) == Len(rows'[e]) > Len(rows[e])

GtlMeets ==
    met' = [r \in Requests |->
              IF At(r, "existing") \/ req'[r].pc \notin {"evolution", "write"} THEN {}
              ELSE IF Inserted(req[r].emp) THEN {"created"} ELSE met[r]]

Doubles(r, e) == At(r, "write") /\ req[r].emp = e /\ Inserted(e) /\ "created" \in met[r]

CountsExtra ==
    extra' = [e \in Employees |->
                IF rows'[e] = <<>> THEN 0
                ELSE IF \E r \in Requests : req'[r].pc = "idle" /\ Doubles(r, e)
                THEN extra[e] + 1 ELSE extra[e]]

GtlNext == GtlStep /\ GtlMeets /\ CountsExtra

GtlSpec == GtlInit /\ [][GtlNext]_gtlVars

-----------------------------------------------------------------------------
(* Properties.                                                              *)

Stores(column) == {column[n] : n \in Numbers} \cup {None}

StoredRow == [flat : BOOLEAN,
              figures : [amount : Stores(StoredNumber), rate : Stores(StoredNumber),
                         hours : Stores(StoredHours)]]

\* Every store and every request holds values of its type; the table holds only
\* numbers that its columns can hold.
GtlTypeOK ==
    /\ rows \in [Employees -> Seq(StoredRow)]
    /\ evo \in [Employees -> Figures]
    /\ salaried \in [Employees -> BOOLEAN]
    /\ req \in [Requests -> GtlRequest \cup {GtlIdle}]
    /\ met \in [Requests -> SUBSET {"created"}]
    /\ extra \in [Employees -> Nat]

\* "Record already exists for this employee!": an employee has one record, and
\* one more only for each create that had looked for one before another create
\* inserted its own.  The table has no key; create looks, tells Evolution and then
\* inserts.
OneRecord == \A e \in Employees : Len(rows[e]) <= 1 + extra[e]

\* A record is a flat amount or a multiple of earnings, never both and never
\* neither, however often it was updated and whatever the columns round.
CoverageExclusive ==
    \A e \in Employees :
        \A n \in DOMAIN rows[e] :
            LET f == rows[e][n].figures IN
            IF rows[e][n].flat
            THEN f.amount # None /\ f.rate = None /\ f.hours = None
            ELSE f.amount = None /\ f.rate # None

\* What HR holds of an employee, and what Evolution holds as HR would store it.
HrFigures(e) == IF rows[e] = <<>> THEN NoFigures ELSE rows[e][1].figures

EvoFigures(e) == Stored(evo[e])

\* A request has told payroll what it is about to write.
Telling(r) ==
    IF At(r, "write") THEN [key |-> req[r].emp, value |-> Stored(req[r].body.figures)]
    ELSE None

PF == INSTANCE PayrollFirst WITH
          Keys <- Employees, Values <- Figures, Absent <- NoFigures,
          Writers <- Requests, Nothing <- None,
          hr <- [e \in Employees |-> HrFigures(e)],
          payroll <- [e \in Employees |-> EvoFigures(e)],
          told <- [r \in Requests |-> Telling(r)]

\* HR takes over only figures that the same request has put into payroll before,
\* whatever fails and whichever other requests come between.
PayrollIsFirst == PF!Spec

=============================================================================
