---------------------------- MODULE DirectDeposit ----------------------------
(***************************************************************************)
(* The direct deposit handlers of the HR API                               *)
(* (services/api/direct-deposits): create, update and remove, as           *)
(* concurrent lambda invocations over two stores that share no             *)
(* transaction, the tenant's SQL Server table dbo.EmployeeDirectDeposit    *)
(* and the earnings and deductions (EDs) of Evolution payroll.             *)
(*                                                                         *)
(* A request is one invocation.  Each of its remote calls (a query through *)
(* the queryExecutor lambda, a call of the payroll API) is one atomic      *)
(* step, and between two steps anything else may happen.  A call that      *)
(* fails ends the request; what it wrote before stays.  None is SQL NULL,  *)
(* or a local that is not assigned yet.                                    *)
(***************************************************************************)
EXTENDS ServiceRequests, Integers, FiniteSets

CONSTANTS
    Ops,               \* the handlers the clients call
    Accounts,          \* (routing number, account number) pairs
    Amounts,           \* amounts a client may send
    TruncatedAmount,   \* what the service stores for each amount
    MaxRows            \* bound: rows ever inserted

Ids == 1 .. MaxRows

AmountTypes == {"Percentage", "Flat", "Balance Remainder"}

\* dbo.EmployeeDirectDeposit.AmountCode: what the two statements write.
AmountCodes == {"%", "Flat", "Balance", "Balance Remainder"}

Statuses == {"Pending", "Approved", "Rejected"}

\* The amount and amountType of a body that the handler's schema accepts; the
\* amount that may come with a Balance Remainder is never read.
Pays == [type : {"Percentage", "Flat"}, amt : Amounts]
          \cup [type : {"Balance Remainder"}, amt : {None}]

ASSUME ConstantsAssumption ==
    /\ MaxRows \in Nat
    /\ Ops \subseteq {"create", "update", "remove"}
    /\ TruncatedAmount \in [Amounts -> Amounts]
    /\ None \notin Employees \cup Accounts \cup Amounts \cup Ids
    /\ None \notin Pays \cup Statuses \cup {"create", "update", "remove"}

VARIABLES
    live,     \* ids of the rows of dbo.EmployeeDirectDeposit
    dd,       \* the row of each id
    nextId,   \* the table's identity column
    nacha,    \* dbo.BetaFlag: the Nacha flag of the tenant
    synced,   \* ids of the rows that have an ED in Evolution
    ed,       \* the ED of each id
    unseen,   \* history: rows that the duplicate check of a request has not seen
    astray    \* history: what the handlers cannot prevent, and which rows it befell

history == <<met, unseen, astray>>

vars == <<live, dd, nextId, nacha, synced, ed, req, history>>

Row == [emp : Employees \cup {None}, acct : Accounts \cup {None},
        tok : BOOLEAN, code : AmountCodes, amt : Amounts \cup {None},
        status : Statuses, ended : BOOLEAN]

\* An ED: calculation.method with its amount or rate, and whether
\* effectiveEndDate is set ("None" is deductWholeCheck).
Ed == [method : {"PercOfNet", "Fixed", "None"}, amt : Amounts \cup {None},
       ended : BOOLEAN]

BlankRow == [emp |-> None, acct |-> None, tok |-> FALSE, code |-> "%",
             amt |-> None, status |-> "Pending", ended |-> FALSE]

BlankEd == [method |-> "None", amt |-> None, ended |-> FALSE]

(* The locals of an invocation, with the next step of its handler in pc.      *)

CreateLabels == {"nachaCheck", "duplicates", "nachaInsert", "insert", "clearCache"}

UpdateLabels == {"duplicates", "fetch", "keys", "evoGet", "evoPut",
                 "clearCache", "write"}

RemoveLabels == {"fetch", "delete", "keys", "evoGet", "evoPut", "endDate",
                 "clearCache"}

CreateRequest == [pc : CreateLabels, op : {"create"}, emp : Employees,
                  acct : Accounts, id : Ids \cup {None}, pay : Pays,
                  tok : BOOLEAN, status : {None}, ed : Ed]

UpdateRequest == [pc : UpdateLabels, op : {"update"}, emp : Employees,
                  acct : {None}, id : Ids, pay : Pays,
                  tok : BOOLEAN, status : Statuses \cup {None}, ed : Ed]

RemoveRequest == [pc : RemoveLabels, op : {"remove"}, emp : Employees,
                  acct : {None}, id : Ids, pay : {None},
                  tok : BOOLEAN, status : Statuses \cup {None}, ed : Ed]

Idle == [pc |-> "idle", op |-> None, emp |-> None, acct |-> None,
         id |-> None, pay |-> None, tok |-> FALSE, status |-> None,
         ed |-> BlankEd]

Request == CreateRequest \cup UpdateRequest \cup RemoveRequest \cup {Idle}

Init ==
    /\ live = {}
    /\ dd = [i \in Ids |-> BlankRow]
    /\ nextId = 1
    /\ nacha \in BOOLEAN
    /\ synced = {}
    /\ ed = [i \in Ids |-> BlankEd]
    /\ req = [r \in Requests |-> Idle]
    /\ met = [r \in Requests |-> {}]
    /\ unseen = [r \in Requests |-> {}]
    /\ astray = {}

-----------------------------------------------------------------------------
(* Conversions between the two stores' vocabularies.                        *)

\* createDirectDeposit.sql
CreatedCode(type) == IF type = "Percentage" THEN "%"
                     ELSE IF type = "Flat" THEN "Flat" ELSE "Balance"

\* updateDirectDeposit.sql
UpdatedCode(type) == IF type = "Percentage" THEN "%"
                     ELSE IF type = "Flat" THEN "Flat" ELSE "Balance Remainder"

StoredAmount(pay) == IF pay.type = "Balance Remainder" THEN None
                                                       ELSE TruncatedAmount[pay.amt]

\* applyDirectDepositBusinessRules: Evolution gets the amount as sent.
EvoMethod(type) == IF type = "Percentage" THEN "PercOfNet"
                   ELSE IF type = "Flat" THEN "Fixed" ELSE "None"

\* getDirectDepositById.sql: the amountType the API shows for a code.
ShownType(code) == IF code = "%" THEN "Percentage"
                   ELSE IF code = "Flat" THEN "Flat" ELSE "Balance Remainder"

-----------------------------------------------------------------------------
(* Locals.                                                                  *)

Return(r) == req' = [req EXCEPT ![r] = Idle]

-----------------------------------------------------------------------------
(* Duplicate checks: checkForDuplicateBankAccounts.sql compares the stored   *)
(* account with the account as sent and with its token, which is the account *)
(* itself while the flag is off; no check looks at EndDate.                  *)

SameAccount(i, emp, acct, tokenized) ==
    /\ dd[i].emp = emp
    /\ dd[i].acct = acct
    /\ dd[i].tok => tokenized

\* Mutant: the account is compared as it was sent, its token is not.
DuplicateAsSent(r) ==
    \E i \in live : ~dd[i].tok /\ SameAccount(i, req[r].emp, req[r].acct, req[r].tok)

DuplicateAccount(r) ==
    \E i \in live : SameAccount(i, req[r].emp, req[r].acct, req[r].tok)

DuplicateRemainder(r) ==
    \E i \in live : /\ dd[i].emp = req[r].emp
                    /\ dd[i].code = "Balance Remainder"

-----------------------------------------------------------------------------
(* create *)

StartCreate(r, emp, acct, pay) ==
    /\ At(r, "idle")
    /\ "create" \in Ops
    /\ req' = [req EXCEPT ![r] = [Idle EXCEPT !.pc = "nachaCheck",
                                              !.op = "create", !.emp = emp,
                                              !.acct = acct, !.pay = pay]]
    /\ UNCHANGED <<live, dd, nextId, nacha, synced, ed>>

\* The flag decides whether the account is tokenized for the check.
ReadNachaForCheck(r) ==
    /\ At(r, "nachaCheck")
    /\ req' = [req EXCEPT ![r] = [@ EXCEPT !.pc = "duplicates", !.tok = nacha]]
    /\ UNCHANGED <<live, dd, nextId, nacha, synced, ed>>

CreateCheckDuplicates(r) ==
    /\ At(r, "duplicates")
    /\ req[r].op = "create"
    /\ IF \/ DuplicateAccount(r)
          \/ req[r].pay.type = "Balance Remainder" /\ DuplicateRemainder(r)
       THEN Return(r)                                             \* 409
       ELSE Goto(r, "nachaInsert")
    /\ UNCHANGED <<live, dd, nextId, nacha, synced, ed>>

\* The flag is read again, for what is stored.
ReadNachaForInsert(r) ==
    /\ At(r, "nachaInsert")
    /\ req' = [req EXCEPT ![r] = [@ EXCEPT !.pc = "insert", !.tok = nacha]]
    /\ UNCHANGED <<live, dd, nextId, nacha, synced, ed>>

NewRow(r) == [emp |-> req[r].emp, acct |-> req[r].acct, tok |-> req[r].tok,
              code |-> CreatedCode(req[r].pay.type),
              amt |-> StoredAmount(req[r].pay),
              status |-> "Pending", ended |-> FALSE]

Insert(r) ==
    /\ At(r, "insert")
    /\ nextId \in Ids
    /\ live' = live \cup {nextId}
    /\ dd' = [dd EXCEPT ![nextId] = NewRow(r)]
    /\ nextId' = nextId + 1
    /\ req' = [req EXCEPT ![r] = [@ EXCEPT !.pc = "clearCache", !.id = nextId]]
    /\ UNCHANGED <<nacha, synced, ed>>

-----------------------------------------------------------------------------
(* update *)

StartUpdate(r, emp, i, pay) ==
    /\ At(r, "idle")
    /\ "update" \in Ops
    /\ req' = [req EXCEPT ![r] =
                 [Idle EXCEPT !.pc = IF pay.type = "Balance Remainder"
                                     THEN "duplicates" ELSE "fetch",
                              !.op = "update", !.emp = emp,
                              !.id = i, !.pay = pay]]
    /\ UNCHANGED <<live, dd, nextId, nacha, synced, ed>>

UpdateCheckDuplicates(r) ==
    /\ At(r, "duplicates")
    /\ req[r].op = "update"
    /\ IF DuplicateRemainder(r) THEN Return(r) ELSE Goto(r, "fetch")
    /\ UNCHANGED <<live, dd, nextId, nacha, synced, ed>>

\* getEmployeeDirectDepositById: a row that was ended is found as well.
Found(r) == req[r].id \in live /\ dd[req[r].id].emp = req[r].emp

\* The branch on the status of the row that was fetched.
Branch(r, label) ==
    req' = [req EXCEPT ![r] = [@ EXCEPT !.pc = label,
                                        !.status = dd[req[r].id].status]]

AfterUpdateFetch(status) == IF status = "Approved" THEN "keys" ELSE "clearCache"

\* Mutant: the status is not looked at.
UpdateFetchAnyStatus(r) ==
    /\ At(r, "fetch")
    /\ req[r].op = "update"
    /\ IF Found(r) THEN Branch(r, "clearCache") ELSE Return(r)
    /\ UNCHANGED <<live, dd, nextId, nacha, synced, ed>>

UpdateFetch(r) ==
    /\ At(r, "fetch")
    /\ req[r].op = "update"
    /\ IF Found(r)
       THEN Branch(r, AfterUpdateFetch(dd[req[r].id].status))
       ELSE Return(r)                                             \* 404
    /\ UNCHANGED <<live, dd, nextId, nacha, synced, ed>>

\* updateDirectDeposit.sql; a row deleted meanwhile leaves nothing to update.
UpdateWrite(r) ==
    LET i == req[r].id IN
    /\ At(r, "write")
    /\ dd' = IF i \in live
             THEN [dd EXCEPT ![i].code = UpdatedCode(req[r].pay.type),
                             ![i].amt = StoredAmount(req[r].pay)]
             ELSE dd
    /\ Return(r)
    /\ UNCHANGED <<live, nextId, nacha, synced, ed>>

-----------------------------------------------------------------------------
(* remove *)

StartRemove(r, emp, i) ==
    /\ At(r, "idle")
    /\ "remove" \in Ops
    /\ req' = [req EXCEPT ![r] = [Idle EXCEPT !.pc = "fetch", !.op = "remove",
                                              !.emp = emp, !.id = i]]
    /\ UNCHANGED <<live, dd, nextId, nacha, synced, ed>>

\* Mutant: a deposit that is approved is deleted like one that is pending.
RemoveFetchAnyStatus(r) ==
    /\ At(r, "fetch")
    /\ req[r].op = "remove"
    /\ IF Found(r) /\ ~dd[req[r].id].ended THEN Branch(r, "delete") ELSE Return(r)
    /\ UNCHANGED <<live, dd, nextId, nacha, synced, ed>>

\* The branch on the status: neither a delete nor an end date for a row that
\* was rejected.
AfterRemoveFetch(status) == IF status = "Pending" THEN "delete"
                            ELSE IF status = "Approved" THEN "keys" ELSE "clearCache"

\* getEmployeeActiveDirectDepositById
RemoveFetch(r) ==
    /\ At(r, "fetch")
    /\ req[r].op = "remove"
    /\ IF Found(r) /\ ~dd[req[r].id].ended
       THEN Branch(r, AfterRemoveFetch(dd[req[r].id].status))
       ELSE Return(r)                                             \* 404
    /\ UNCHANGED <<live, dd, nextId, nacha, synced, ed>>

\* deleteDirectDepositById.sql: by id alone, whatever the status is now.
Delete(r) ==
    /\ At(r, "delete")
    /\ live' = live \ {req[r].id}
    /\ Goto(r, "clearCache")
    /\ UNCHANGED <<dd, nextId, nacha, synced, ed>>

EndDate(r) ==
    LET i == req[r].id IN
    /\ At(r, "endDate")
    /\ dd' = IF i \in live THEN [dd EXCEPT ![i].ended = TRUE] ELSE dd
    /\ Goto(r, "clearCache")
    /\ UNCHANGED <<live, nextId, nacha, synced, ed>>

-----------------------------------------------------------------------------
(* updateEvolutionDirectDeposit: read the ED, change it, put it back whole.  *)

\* getEvolutionKeys and hasAllKeysDefined
ReadEvolutionKeys(r) ==
    /\ At(r, "keys")
    /\ IF req[r].id \in live \cap synced THEN Goto(r, "evoGet") ELSE Return(r)
    /\ UNCHANGED <<live, dd, nextId, nacha, synced, ed>>

\* Mutant: the effectiveEndDate is not set.
EdToPutWithoutEndDate(r) ==
    IF req[r].op = "remove"
    THEN ed[req[r].id]
    ELSE [ed[req[r].id] EXCEPT !.method = EvoMethod(req[r].pay.type),
                               !.amt = req[r].pay.amt]

EdToPut(r) ==
    LET current == ed[req[r].id] IN
    IF req[r].op = "remove"
    THEN [current EXCEPT !.ended = TRUE]
    ELSE [current EXCEPT !.method = EvoMethod(req[r].pay.type),
                         !.amt = req[r].pay.amt]

EvoGet(r) ==
    /\ At(r, "evoGet")
    /\ req' = [req EXCEPT ![r] = [@ EXCEPT !.pc = "evoPut", !.ed = EdToPut(r)]]
    /\ UNCHANGED <<live, dd, nextId, nacha, synced, ed>>

AfterEvo(r) == IF req[r].op = "remove" THEN "endDate" ELSE "clearCache"

\* A PUT that the payroll API refuses is logged and the request goes on.
EvoPut(r) ==
    /\ At(r, "evoPut")
    /\ \/ ed' = [ed EXCEPT ![req[r].id] = req[r].ed]
       \/ UNCHANGED ed
    /\ Goto(r, AfterEvo(r))
    /\ UNCHANGED <<live, dd, nextId, nacha, synced>>

-----------------------------------------------------------------------------
(* The cache that clearCache empties belongs to the HR application and is    *)
(* not modelled; update clears it before it writes, the others after.        *)

ClearCache(r) ==
    /\ At(r, "clearCache")
    /\ IF req[r].op = "update" THEN Goto(r, "write") ELSE Return(r)
    /\ UNCHANGED <<live, dd, nextId, nacha, synced, ed>>

\* Any remote call may fail or the invocation time out: the handler answers
\* with an error, or not at all, and nothing is undone.  A statement that misses
\* its database fails as well: the handlers read records out of every answer.
Fail(r) ==
    /\ ~At(r, "idle")
    /\ Return(r)
    /\ UNCHANGED <<live, dd, nextId, nacha, synced, ed>>

-----------------------------------------------------------------------------
(* The HR application and its payroll synchronisation (external).            *)

Decide(i, status) ==
    /\ i \in live
    /\ dd[i].status = "Pending"
    /\ dd' = [dd EXCEPT ![i].status = status]
    /\ UNCHANGED <<live, nextId, nacha, synced, ed, req>>

\* An approved deposit gets its ED, and the row the ED's key.
SyncToEvolution(i) ==
    /\ i \in live \ synced
    /\ dd[i].status = "Approved"
    /\ ~dd[i].ended
    /\ synced' = synced \cup {i}
    /\ ed' = [ed EXCEPT ![i] = [method |-> EvoMethod(ShownType(dd[i].code)),
                                amt |-> dd[i].amt, ended |-> FALSE]]
    /\ UNCHANGED <<live, dd, nextId, nacha, req>>

SwitchNacha ==
    /\ nacha' = ~nacha
    /\ UNCHANGED <<live, dd, nextId, synced, ed, req>>

-----------------------------------------------------------------------------

Start(r) ==
    \E emp \in Employees :
        \/ \E acct \in Accounts, pay \in Pays : StartCreate(r, emp, acct, pay)
        \/ \E i \in Ids, pay \in Pays : StartUpdate(r, emp, i, pay)
        \/ \E i \in Ids : StartRemove(r, emp, i)

Create(r) ==
    \/ ReadNachaForCheck(r)
    \/ CreateCheckDuplicates(r)
    \/ ReadNachaForInsert(r)
    \/ Insert(r)

Update(r) == UpdateCheckDuplicates(r) \/ UpdateFetch(r) \/ UpdateWrite(r)

Remove(r) == RemoveFetch(r) \/ Delete(r) \/ EndDate(r)

Evolution(r) == ReadEvolutionKeys(r) \/ EvoGet(r) \/ EvoPut(r)

Handler(r) == Create(r) \/ Update(r) \/ Remove(r) \/ Evolution(r) \/ ClearCache(r)

HrApplication ==
    \/ \E i \in Ids : Decide(i, "Approved") \/ Decide(i, "Rejected")
    \/ \E i \in Ids : SyncToEvolution(i)
    \/ SwitchNacha

Step ==
    \/ \E r \in Requests : Start(r) \/ Handler(r) \/ Fail(r)
    \/ HrApplication

-----------------------------------------------------------------------------
(* History.  No handler reads it: the properties name with it the orders of    *)
(* the steps that the handlers have no means against, and nothing else.        *)

\* What befell a row while a request worked on it.
News(i) ==
    IF i \notin Ids THEN {}
    ELSE (IF dd'[i].status = "Approved" /\ dd[i].status # "Approved" THEN {"approved"} ELSE {})
         \cup
         (IF <<ed'[i].method, ed'[i].amt>> # <<ed[i].method, ed[i].amt>> THEN {"changed"} ELSE {})

\* Since it fetched its row, and since its PUT if there was one.
Meets ==
    met' = [r \in Requests |->
              IF req[r].pc \in {"idle", "duplicates", "fetch"} \/ req'[r].pc = "idle" THEN {}
              ELSE IF Passes(r, "evoPut")
              THEN IF ed'[req[r].id] = req[r].ed THEN {} ELSE {"refused"}
              ELSE met[r] \cup News(req[r].id)]

\* The requests that rely on a duplicate check.
ReliesOnCheck(r) ==
    \/ req[r].pc \in {"nachaInsert", "insert"}
    \/ /\ req[r].op = "update" /\ req[r].pc # "duplicates"
       /\ req[r].pay.type = "Balance Remainder"

\* A check that is sent no token cannot tell the account of a row that is stored
\* as one.
Unreadable(r) == {i \in live : req[r].op = "create" /\ dd[i].tok /\ ~req[r].tok}

\* The rows that this step adds, to the table or to the remainders.
NewRows ==
    {i \in live' : \/ i \notin live
                   \/ dd'[i].code = "Balance Remainder" /\ dd[i].code # "Balance Remainder"}

Overlooks ==
    unseen' = [r \in Requests |->
                 IF ~ReliesOnCheck(r)' THEN {}
                 ELSE IF At(r, "duplicates") THEN Unreadable(r)
                 ELSE unseen[r] \cup NewRows]

\* An account or a remainder is doubled by a request whose check has not seen the
\* other row.
Doubled(r) ==
    (IF Passes(r, "insert")
     THEN {<<"account", {nextId, i}>> :
             i \in {k \in unseen[r] \cap live : SameAccount(k, req[r].emp, req[r].acct, TRUE)}}
     ELSE {})
    \cup
    (IF At(r, "write") /\ req'[r].pc = "idle" /\ dd' # dd
     THEN {<<"remainder", {req[r].id, i}>> :
             i \in {k \in unseen[r] \cap live : dd[k].emp = req[r].emp
                                               /\ dd[k].code = "Balance Remainder"}}
     ELSE {})

\* A row is deleted that was approved since it was fetched.  An ED is not ended:
\* the PUT was refused, or an update puts back what it read before the end.
Missed(r) ==
    (IF Passes(r, "delete") /\ "approved" \in met[r] THEN {<<"orphan", {req[r].id}>>} ELSE {})
    \cup
    (IF \/ Passes(r, "endDate") /\ "refused" \in met[r]
        \/ /\ Passes(r, "evoPut") /\ req[r].op = "update"
           /\ ed[req[r].id].ended /\ ~ed'[req[r].id].ended
     THEN {<<"unended", {req[r].id}>>} ELSE {})

GoesAstray == astray' = astray \cup UNION {Doubled(r) \cup Missed(r) : r \in Requests}

Next == Step /\ Meets /\ Overlooks /\ GoesAstray

Spec == Init /\ [][Next]_vars

-----------------------------------------------------------------------------
(* Properties.                                                              *)

\* Every store holds values of its type, and every request has the locals that
\* its handler has assigned at the step it is at.
StoresOK ==
    /\ live \subseteq Ids
    /\ dd \in [Ids -> Row]
    /\ nextId \in 1 .. MaxRows + 1
    /\ nacha \in BOOLEAN
    /\ synced \subseteq Ids
    /\ ed \in [Ids -> Ed]
    /\ req \in [Requests -> Request]

TypeOK ==
    /\ StoresOK
    /\ met \in [Requests -> SUBSET {"refused", "approved", "changed"}]
    /\ unseen \in [Requests -> SUBSET Ids]
    /\ astray \subseteq {"account", "remainder", "orphan", "unended"} \X SUBSET Ids

\* "Routing number and account number must be collectively unique": no two
\* deposits of an employee, tokenized or not, name the same bank account, unless
\* the check of the one was over when the other was inserted, or could not read it.
\* create checks and inserts in two transactions and reads the flag twice.
AccountUnique ==
    \A i, j \in live :
        /\ dd[i].emp = dd[j].emp /\ dd[i].acct = dd[j].acct
        /\ <<"account", {i, j}>> \notin astray
        => i = j

\* "You can only have one direct deposit with an amountType of Balance
\* Remainder", as the API shows the amountType of the rows it lists.
RemainderUnique ==
    \A i, j \in live :
        /\ ShownType(dd[i].code) = "Balance Remainder"
        /\ ShownType(dd[j].code) = "Balance Remainder"
        /\ dd[i].emp = dd[j].emp
        => i = j

\* The same, of the rows update made the remainder: these are the ones the
\* duplicate query of update and create can see, once they are written.
PatchedRemainderUnique ==
    \A i, j \in live :
        /\ dd[i].code = "Balance Remainder"
        /\ dd[j].code = "Balance Remainder"
        /\ dd[i].emp = dd[j].emp
        /\ <<"remainder", {i, j}>> \notin astray
        => i = j

\* What the duplicate checks promise and can keep: whatever runs at once, fails,
\* is ended or deleted, a deposit is doubled only behind the back of a check.
DepositsUnique == AccountUnique /\ PatchedRemainderUnique

\* remove ends a deposit in Evolution "before updating the HR equivalent": a
\* deposit that HR shows as ended is not paid by payroll any more, unless its PUT
\* was refused, which is swallowed, or an update beside it took the end back.
EndDateInEvoFirst ==
    \A i \in live : dd[i].ended => /\ i \in synced
                                  /\ (ed[i].ended \/ <<"unended", {i}>> \in astray)

\* Payroll pays into no deposit that HR has lost: a row is deleted only while it
\* has no ED, unless it was approved after the delete had read its status.
NoOrphanEd == \A i \in synced \ live : <<"orphan", {i}>> \in astray

HrMirrorsEvo(i) ==
    /\ ed[i].method = EvoMethod(ShownType(dd[i].code))
    /\ dd[i].amt = IF ed[i].amt = None THEN None ELSE TruncatedAmount[ed[i].amt]

\* update writes an approved deposit in HR only when Evolution has the same type
\* and amount, and a deposit without an ED not at all: unless its PUT was refused,
\* the deposit was approved since it was fetched, or another request has changed
\* the ED since the PUT.
UpdateInEvoFirst ==
    [][\A i \in live :
          /\ dd[i].status = "Approved"
          /\ <<dd'[i].code, dd'[i].amt>> # <<dd[i].code, dd[i].amt>>
          => \E r \in Requests :
                /\ At(r, "write") /\ req'[r].pc = "idle" /\ req[r].id = i
                /\ (met[r] # {} \/ (i \in synced /\ HrMirrorsEvo(i)'))]_vars

=============================================================================
