------------------------- MODULE ApplicantTracking -------------------------
(***************************************************************************)
(* The applicant tracking API (api/applicant-tracking) and the webhook     *)
(* that receives the candidates of JazzHR (integrations/applicant-         *)
(* tracking): thirteen tables of the tenant's database, each written       *)
(* through create, update and delete functions of one shape -- check the   *)
(* company, read the old row, run one statement, send the change to the    *)
(* audit log without waiting for it -- and the export of a candidate,      *)
(* which writes three of the tables in one batch and audits nothing.       *)
(*                                                                         *)
(* Foreign keys are an assumption about the tenant's schema: a statement   *)
(* that names a missing row, or deletes a row others name, is refused.     *)
(***************************************************************************)
EXTENDS Integers, FiniteSets, Functions

CONSTANTS Calls,       \* the calls, numbered as they arrive
          MaxTrouble,  \* how many faults and overlapping calls a behaviour has
          None         \* SQL's null, and "nothing yet"

ASSUME CallsAssumption == Calls = 1 .. Cardinality(Calls)
ASSUME TroubleAssumption == MaxTrouble \in Nat
ASSUME NoneAssumption == None \notin Nat /\ None \notin {"create", "update", "delete", "export"}

VARIABLES
  rows,      \* the rows, by id: what table they are of, what they name, who wrote last
  lastId,    \* the last id the database gave
  call,      \* a call's place in its function, and its locals
  sent,      \* entries given to the audit lambda, not yet written
  audit,     \* the audit trail
  wrote,     \* history: <<row, call>> for every change a call made
  had,       \* history: <<what went wrong, call or row>>
  trouble    \* how much of MaxTrouble is used

vars == <<rows, lastId, call, sent, audit, wrote, had, trouble>>

Companies == {1, 2}
Opening   == 1      \* a JazzHR position; candidates without a profile are cast to 0
NoProfile == 0

Row(t, co, refs, opening, by, n) == [t |-> t, co |-> co, refs |-> refs, opening |-> opening, by |-> by, n |-> n]
Of(t) == {i \in DOMAIN rows : rows[i].t = t}
The(t, i) == CHOOSE r \in rows[i].refs : rows[r].t = t
Names(t, i) == \E r \in rows[i].refs : rows[r].t = t
Had(what, c) == <<what, c>> \in had

(***************************************************************************)
(* What the by-id queries return: the company of a row, or None when the   *)
(* inner joins of the query drop it.                                       *)
(***************************************************************************)
AppCompany(a) == IF Names("posting", a) THEN rows[The("posting", a)].co ELSE None
OfApplication(i) == IF Names("application", i) THEN AppCompany(The("application", i)) ELSE None
Owner(i) ==
  IF rows[i].t \in {"group", "question", "version", "posting"} THEN rows[i].co
  ELSE IF rows[i].t = "choice" THEN rows[The("question", i)].co
  ELSE IF rows[i].t = "application" THEN AppCompany(i)
  ELSE IF rows[i].t \in {"answer", "history"} THEN OfApplication(i) ELSE 0

Seen(i) == i \in DOMAIN rows /\ Owner(i) # None

\* The tables whose services compare the company of the row with the path's.
Guarded == {"group", "question", "choice", "version", "posting", "answer", "history"}
Elsewhere(t, i, co) == t \in Guarded /\ Owner(i) # co

Idle == [pc |-> "idle", op |-> None, t |-> None, id |-> None, co |-> None, row |-> None, old |-> None, found |-> {}, result |-> None]
Asked(pc, op, t, id, co, row) == [Idle EXCEPT !.pc = pc, !.op = op, !.t = t, !.id = id, !.co = co, !.row = row]
Running(c) == call[c].pc \notin {"idle", "done"}

(***************************************************************************)
(* One row of each table, of company 1; the version and the posting may    *)
(* be those of an earlier export.                                          *)
(***************************************************************************)
Given(o) == <<Row("group", 1, {}, None, 0, 0), Row("question", 1, {1}, None, 0, 0), Row("choice", 0, {2}, None, 0, 0),
              Row("version", 1, {}, o, 0, 0), Row("custom", 0, {2, 4}, None, 0, 0), Row("posting", 1, {4}, o, 0, 0),
              Row("user", 0, {6}, None, 0, 0), Row("application", 0, {6}, None, 0, 0), Row("note", 0, {8}, None, 0, 0),
              Row("answer", 0, {8}, None, 0, 0), Row("history", 0, {8}, None, 0, 0), Row("system", 0, {}, None, 0, 0),
              Row("role", 0, {12}, None, 0, 0)>>

Init ==
  /\ \E o \in {None, Opening} : rows = [i \in 1 .. 13 |-> Given(o)[i]]
  /\ lastId = 13
  /\ call = [c \in Calls |-> Idle]
  /\ sent = {} /\ audit = {} /\ wrote = {} /\ had = {} /\ trouble = 0

(***************************************************************************)
(* The shape of the functions.                                             *)
(***************************************************************************)
Done(c, result) == call' = [call EXCEPT ![c] = [Idle EXCEPT !.pc = "done", !.op = call[c].op, !.t = call[c].t, !.result = result]]
At(c, pc) == call[c].pc = pc
Goto(c, pc) == call' = [call EXCEPT ![c].pc = pc]
NotTheRows == UNCHANGED <<rows, lastId, wrote>>
Stores == <<rows, lastId, sent, audit, wrote>>

\* A call starts; beside a running one only if trouble is left.
Start(c, l) ==
  LET beside == {d \in Calls : Running(d)} IN
  /\ At(c, "idle") /\ \A d \in Calls : d < c => ~ At(d, "idle")
  /\ trouble + Cardinality(beside) <= MaxTrouble
  /\ trouble' = trouble + Cardinality(beside)
  /\ had' = had \cup {<<"beside", d>> : d \in IF beside = {} THEN {} ELSE beside \cup {c}}
  /\ call' = [call EXCEPT ![c] = l]
  /\ UNCHANGED Stores

\* The path's company is compared with the body's before anything else.
Refused(op, t) == [Idle EXCEPT !.pc = "done", !.op = op, !.t = t, !.result = "error"]

Create(c, t, co, row) == Start(c, Asked("insert", "create", t, None, co, row))
Update(c, t, id, co, row) == Start(c, Asked("readOld", "update", t, id, co, row))
Delete(c, t, id, co) == Start(c, Asked("readOld", "delete", t, id, co, None))

CreateFor(c, t, co, row) == IF co = row.co THEN Create(c, t, co, row) ELSE Start(c, Refused("create", t))
UpdateFor(c, t, id, co, row) == IF co = row.co THEN Update(c, t, id, co, row) ELSE Start(c, Refused("update", t))

(***************************************************************************)
(* The statements, one transaction each.                                   *)
(***************************************************************************)
Joined(new) == [i \in DOMAIN rows \cup DOMAIN new |-> IF i \in DOMAIN new THEN new[i] ELSE rows[i]]
Insert(i, r, c) ==
  /\ rows' = Joined([j \in {i} |-> r])
  /\ lastId' = i
  /\ wrote' = wrote \cup {<<i, c>>}
Send(entry) == sent' = sent \cup {entry}
Entry(id, kind, old, new) == [id |-> id, kind |-> kind, old |-> old, new |-> new]
Keep(c) == UNCHANGED <<audit, had, trouble>>

InsertRow(c) ==
  LET l == call[c]  i == lastId + 1 IN
  /\ At(c, "insert")
  /\ IF l.row.refs \subseteq DOMAIN rows
       THEN Insert(i, l.row, c) /\ call' = [call EXCEPT ![c].pc = "readBack", ![c].id = i]
       ELSE Done(c, "error") /\ NotTheRows
  /\ UNCHANGED sent /\ Keep(c)

\* An error a change could make: the audit of a creation is forgotten.
ReadBackUnaudited(c) ==
  /\ At(c, "readBack") /\ Done(c, "ok")
  /\ UNCHANGED sent /\ NotTheRows /\ Keep(c)

\* The new row is read by its id and audited; for another company's row the function fails.
ReadBack(c) ==
  LET l == call[c] IN
  /\ At(c, "readBack")
  /\ IF Seen(l.id) /\ Elsewhere(l.t, l.id, l.co)
       THEN Done(c, "error") /\ UNCHANGED sent
       ELSE /\ Send(IF Seen(l.id) THEN Entry(l.id, "insert", None, rows[l.id].n) ELSE Entry(None, "insert", None, None))
            /\ Done(c, "ok")
  /\ had' = IF Seen(l.id) THEN had ELSE had \cup {<<"unseen", c>>}
  /\ NotTheRows /\ UNCHANGED <<audit, trouble>>

\* A choice is of the path's company when its question is.
CheckQuestion(c) ==
  LET l == call[c]  ours == \E q \in l.row.refs : q \in DOMAIN rows /\ rows[q].co = l.co IN
  /\ At(c, "checkQuestion")
  /\ IF ours THEN Goto(c, IF l.op = "create" THEN "insert" ELSE "readOld") ELSE Done(c, "error")
  /\ NotTheRows /\ UNCHANGED sent /\ Keep(c)

\* The old values, for the audit. An application that is not found reads as an empty list,
\* which is not nothing.
ReadOld(c) ==
  LET l == call[c] IN
  /\ At(c, "readOld")
  /\ IF IF Seen(l.id) THEN Elsewhere(l.t, l.id, l.co) ELSE l.t # "application"
       THEN Done(c, "error")
       ELSE call' = [call EXCEPT ![c].pc = IF l.op = "update" THEN "write" ELSE "drop",
                                   ![c].old = IF Seen(l.id) THEN rows[l.id].n ELSE None]
  /\ NotTheRows /\ UNCHANGED sent /\ Keep(c)

Written(i, r, c) == [rows EXCEPT ![i].refs = r.refs, ![i].opening = r.opening, ![i].n = c]

\* An error a change could make: the old values are read once the row is written.
WriteThenRead(c) ==
  LET l == call[c] IN
  /\ At(c, "write") /\ l.row.refs \subseteq DOMAIN rows /\ l.id \in DOMAIN rows
  /\ rows' = Written(l.id, l.row, c) /\ wrote' = wrote \cup {<<l.id, c>>}
  /\ call' = [call EXCEPT ![c].pc = "log", ![c].old = c]
  /\ UNCHANGED <<lastId, sent>> /\ Keep(c)

\* The statement did not find its database: the executor's error is returned, not thrown,
\* and nobody looks at what a change returned.
Missed(c) ==
  /\ trouble < MaxTrouble /\ trouble' = trouble + 1
  /\ had' = had \cup {<<"missed", call[c].id>>}
  /\ Goto(c, "log")
  /\ UNCHANGED Stores

WriteRow(c) ==
  LET l == call[c] IN
  /\ At(c, "write")
  /\ \/ Missed(c)
     \/ /\ IF l.row.refs \subseteq DOMAIN rows
             THEN /\ IF l.id \in DOMAIN rows
                       THEN rows' = Written(l.id, l.row, c) /\ wrote' = wrote \cup {<<l.id, c>>}
                       ELSE UNCHANGED <<rows, wrote>>
                  /\ Goto(c, "log")
             ELSE Done(c, "error") /\ UNCHANGED <<rows, wrote>>
        /\ UNCHANGED <<lastId, sent>> /\ Keep(c)

DropRow(c) ==
  LET l == call[c] IN
  /\ At(c, "drop")
  /\ \/ Missed(c)
     \/ /\ IF \E i \in DOMAIN rows : l.id \in rows[i].refs
             THEN Done(c, "error") /\ UNCHANGED <<rows, wrote>>
             ELSE /\ rows' = Restrict(rows, DOMAIN rows \ {l.id})
                  /\ wrote' = IF l.id \in DOMAIN rows THEN wrote \cup {<<l.id, c>>} ELSE wrote
                  /\ Goto(c, "log")
        /\ UNCHANGED <<lastId, sent>> /\ Keep(c)

\* The audit entry of an update or a deletion is made of what was read before and of the body.
LogChange(c) ==
  LET l == call[c] IN
  /\ At(c, "log")
  /\ Send(Entry(l.id, l.op, l.old, IF l.op = "update" THEN c ELSE None))
  /\ Done(c, "ok")
  /\ NotTheRows /\ Keep(c)

\* Nobody waits for the audit lambda: an entry lands later, or never.
LogLands(e) == /\ sent' = sent \ {e} /\ audit' = audit \cup {e}
               /\ NotTheRows /\ UNCHANGED <<call, had, trouble>>
LogLost(e) == /\ sent' = sent \ {e} /\ trouble < MaxTrouble /\ trouble' = trouble + 1
              /\ had' = had \cup {<<"lost", e.id>>}
              /\ NotTheRows /\ UNCHANGED <<call, audit>>

\* A query fails, or the function dies, before its next step.
Fail(c) ==
  /\ Running(c) /\ trouble < MaxTrouble /\ trouble' = trouble + 1
  /\ Done(c, "error")
  /\ had' = had \cup {<<"failed", c>>}
  /\ UNCHANGED Stores

(***************************************************************************)
(* The functions of the API, by what they are called with. Roles, systems, *)
(* notes, applications, responsible users and custom questions belong to   *)
(* no company as far as their services look.                               *)
(***************************************************************************)
Anyone == 1
createQuestionBankGroup(c) == \E co, of \in Companies : CreateFor(c, "group", co, Row("group", of, {}, None, 0, c))
updateQuestionBankGroup(c) == \E co, of \in Companies, i \in Of("group") : UpdateFor(c, "group", i, co, Row("group", of, {}, None, 0, c))
deleteQuestionBankGroup(c) == \E co \in Companies, i \in Of("group") : Delete(c, "group", i, co)

\* An error a change could make: the body's company is not compared.
CreateUnchecked(c) ==
  \E co, of \in Companies, g \in SUBSET Of("group") :
    Cardinality(g) < 2 /\ Create(c, "question", co, Row("question", of, g, None, 0, c))
createQuestionBank(c) ==
  \E co, of \in Companies, g \in SUBSET Of("group") :
    Cardinality(g) < 2 /\ CreateFor(c, "question", co, Row("question", of, g, None, 0, c))
updateQuestionBank(c) ==
  \E co, of \in Companies, i \in Of("question"), g \in SUBSET Of("group") :
    Cardinality(g) < 2 /\ UpdateFor(c, "question", i, co, Row("question", of, g, None, 0, c))
deleteQuestionBank(c) == \E co \in Companies, i \in Of("question") : Delete(c, "question", i, co)

createQuestionBankMultipleChoiceAnswers(c) ==
  \E co \in Companies, q \in Of("question") :
    Start(c, Asked("checkQuestion", "create", "choice", None, co, Row("choice", 0, {q}, None, 0, c)))
updateQuestionBankMultipleChoiceAnswers(c) ==
  \E co \in Companies, i \in Of("choice"), q \in Of("question") :
    Start(c, Asked("checkQuestion", "update", "choice", i, co, Row("choice", 0, {q}, None, 0, c)))
deleteQuestionBankMultipleChoiceAnswers(c) == \E co \in Companies, i \in Of("choice") : Delete(c, "choice", i, co)

createApplicationVersion(c) ==
  \E co, of \in Companies, o \in {None, Opening} : CreateFor(c, "version", co, Row("version", of, {}, o, 0, c))
updateApplicationVersion(c) ==
  \E co, of \in Companies, i \in Of("version"), o \in {None, Opening} :
    UpdateFor(c, "version", i, co, Row("version", of, {}, o, 0, c))
deleteApplicationVersion(c) == \E co \in Companies, i \in Of("version") : Delete(c, "version", i, co)

createApplicationVersionCustomQuestion(c) ==
  \E v \in Of("version"), q \in Of("question") : Create(c, "custom", Anyone, Row("custom", 0, {v, q}, None, 0, c))
deleteApplicationVersionCustomQuestion(c) == \E i \in Of("custom") : Delete(c, "custom", i, Anyone)

createJobPosting(c) ==
  \E co, of \in Companies, v \in Of("version"), o \in {None, Opening} :
    CreateFor(c, "posting", co, Row("posting", of, {v}, o, 0, c))
updateJobPosting(c) ==
  \E co, of \in Companies, i \in Of("posting"), v \in Of("version"), o \in {None, Opening} :
    UpdateFor(c, "posting", i, co, Row("posting", of, {v}, o, 0, c))
deleteJobPosting(c) == \E co \in Companies, i \in Of("posting") : Delete(c, "posting", i, co)

createJobPostingResponsibleUser(c) ==
  \E p \in Of("posting") : Create(c, "user", Anyone, Row("user", 0, {p}, None, 0, c))
deleteJobPostingResponsibleUser(c) == \E i \in Of("user") : Delete(c, "user", i, Anyone)

createApplication(c) ==
  \E p \in SUBSET Of("posting") : Cardinality(p) < 2 /\ Create(c, "application", Anyone, Row("application", 0, p, None, 0, c))
updateApplication(c) ==
  \E i \in Of("application") \cup {None}, p \in SUBSET Of("posting") :
    Cardinality(p) < 2 /\ Update(c, "application", i, Anyone, Row("application", 0, p, None, 0, c))

createApplicationNote(c) == \E a \in Of("application") : Create(c, "note", Anyone, Row("note", 0, {a}, None, 0, c))
updateApplicationNote(c) ==
  \E i \in Of("note"), a \in Of("application") : Update(c, "note", i, Anyone, Row("note", 0, {a}, None, 0, c))
deleteApplicationNote(c) == \E i \in Of("note") : Delete(c, "note", i, Anyone)

createApplicationQuestionBankAnswer(c) ==
  \E co \in Companies, a \in SUBSET Of("application") :
    Cardinality(a) < 2 /\ Create(c, "answer", co, Row("answer", 0, a, None, 0, c))
updateApplicationQuestionBankAnswer(c) ==
  \E co \in Companies, i \in Of("answer"), a \in SUBSET Of("application") :
    Cardinality(a) < 2 /\ Update(c, "answer", i, co, Row("answer", 0, a, None, 0, c))
deleteApplicationQuestionBankAnswer(c) == \E co \in Companies, i \in Of("answer") : Delete(c, "answer", i, co)

createApplicationStatusHistory(c) ==
  \E co \in Companies, a \in Of("application") : Create(c, "history", co, Row("history", 0, {a}, None, 0, c))
updateApplicationStatusHistory(c) ==
  \E co \in Companies, i \in Of("history"), a \in Of("application") :
    Update(c, "history", i, co, Row("history", 0, {a}, None, 0, c))
deleteApplicationStatusHistory(c) == \E co \in Companies, i \in Of("history") : Delete(c, "history", i, co)

createRoles(c) == \E s \in Of("system") : Create(c, "role", Anyone, Row("role", 0, {s}, None, 0, c))
updateRoles(c) == \E i \in Of("role"), s \in Of("system") : Update(c, "role", i, Anyone, Row("role", 0, {s}, None, 0, c))
deleteRoles(c) == \E i \in Of("role") : Delete(c, "role", i, Anyone)
createSystems(c) == Create(c, "system", Anyone, Row("system", 0, {}, None, 0, c))
updateSystems(c) == \E i \in Of("system") : Update(c, "system", i, Anyone, Row("system", 0, {}, None, 0, c))
deleteSystems(c) == \E i \in Of("system") : Delete(c, "system", i, Anyone)

(***************************************************************************)
(* A candidate exported from JazzHR: one batch in a transaction, which     *)
(* looks for the version of the opening (not locking what it reads), makes *)
(* version and posting when there is none, and inserts the application;    *)
(* then a statement for each attachment, which can only fail: the size it  *)
(* names is NaN.                                                           *)
(***************************************************************************)
createApplicantData(c) ==
  \E co \in Companies, o \in {Opening, NoProfile} :
    Start(c, Asked("find", "export", "application", None, co, Row("application", co, {}, o, c, c)))

\* An error a change could make: the company is left out of the query.
MatchingAnywhere(t, co, o) == {i \in Of(t) : rows[i].opening = o}
Matching(t, co, o) == {i \in Of(t) : rows[i].co = co /\ rows[i].opening = o}

FindVersion(c) ==
  LET l == call[c]  versions == Matching("version", l.co, l.row.opening) IN
  /\ At(c, "find")
  /\ IF versions = {} THEN Goto(c, "make")
     ELSE \E p \in {{q} : q \in Matching("posting", l.co, l.row.opening)} \cup
                   {{} : x \in IF Matching("posting", l.co, l.row.opening) = {} THEN {0} ELSE {}} :
            call' = [call EXCEPT ![c].pc = "apply", ![c].found = p]
  /\ NotTheRows /\ UNCHANGED sent /\ Keep(c)

\* Profiles carry the attachments.
AfterApplication(c) ==
  \E pc \in IF call[c].row.opening = NoProfile THEN {"clear"} ELSE {"clear", "attach"} :
    call' = [call EXCEPT ![c].pc = pc]

MakePosting(c) ==
  LET l == call[c]  v == lastId + 1  o == l.row.opening IN
  /\ At(c, "make")
  /\ rows' = Joined([i \in v .. v + 2 |-> IF i = v THEN Row("version", l.co, {}, o, c, c)
                                          ELSE IF i = v + 1 THEN Row("posting", l.co, {v}, o, c, c)
                                          ELSE [l.row EXCEPT !.refs = {v + 1}]])
  /\ lastId' = v + 2
  /\ wrote' = wrote \cup {<<i, c>> : i \in v .. v + 2}
  /\ AfterApplication(c)
  /\ UNCHANGED sent /\ Keep(c)

UsePosting(c) ==
  LET l == call[c] IN
  /\ At(c, "apply")
  /\ IF l.found \subseteq DOMAIN rows
       THEN Insert(lastId + 1, [l.row EXCEPT !.refs = l.found], c) /\ AfterApplication(c)
       ELSE Done(c, "error") /\ NotTheRows
  /\ UNCHANGED sent /\ Keep(c)

AddAttachment(c) == At(c, "attach") /\ Done(c, "error") /\ NotTheRows /\ UNCHANGED sent /\ Keep(c)
ClearCache(c) == At(c, "clear") /\ Done(c, "ok") /\ NotTheRows /\ UNCHANGED sent /\ Keep(c)

(***************************************************************************)
(* The handlers. A request without the headers, the role or the body its   *)
(* handler wants is refused before its function is called.                 *)
(***************************************************************************)
Unfit(c, t, ops) == \E op \in ops : Start(c, Refused(op, t))

handlerQuestionBankGroup(c) ==
  \/ Unfit(c, "group", {"create", "update", "delete"})
  \/ createQuestionBankGroup(c) \/ updateQuestionBankGroup(c) \/ deleteQuestionBankGroup(c)
handlerQuestionBank(c) ==
  \/ Unfit(c, "question", {"create", "update", "delete"})
  \/ createQuestionBank(c) \/ updateQuestionBank(c) \/ deleteQuestionBank(c)
handlerQuestionBankMultipleChoiceAnswers(c) ==
  \/ Unfit(c, "choice", {"create", "update", "delete"})
  \/ createQuestionBankMultipleChoiceAnswers(c) \/ updateQuestionBankMultipleChoiceAnswers(c) \/ deleteQuestionBankMultipleChoiceAnswers(c)
handlerApplicationVersion(c) ==
  \/ Unfit(c, "version", {"create", "update", "delete"})
  \/ createApplicationVersion(c) \/ updateApplicationVersion(c) \/ deleteApplicationVersion(c)
handlerApplicationVersionCustomQuestion(c) ==
  \/ Unfit(c, "custom", {"create", "delete"})
  \/ createApplicationVersionCustomQuestion(c) \/ deleteApplicationVersionCustomQuestion(c)
handlerJobPosting(c) ==
  \/ Unfit(c, "posting", {"create", "update", "delete"})
  \/ createJobPosting(c) \/ updateJobPosting(c) \/ deleteJobPosting(c)
handlerJobPostingResponsibleUser(c) ==
  \/ Unfit(c, "user", {"create", "delete"})
  \/ createJobPostingResponsibleUser(c) \/ deleteJobPostingResponsibleUser(c)
handlerApplication(c) == Unfit(c, "application", {"create", "update"}) \/ createApplication(c) \/ updateApplication(c)
handlerApplicationNote(c) ==
  \/ Unfit(c, "note", {"create", "update", "delete"})
  \/ createApplicationNote(c) \/ updateApplicationNote(c) \/ deleteApplicationNote(c)
handlerApplicationQuestionBankAnswer(c) ==
  \/ Unfit(c, "answer", {"create", "update", "delete"})
  \/ createApplicationQuestionBankAnswer(c) \/ updateApplicationQuestionBankAnswer(c) \/ deleteApplicationQuestionBankAnswer(c)
handlerApplicationStatusHistory(c) ==
  \/ Unfit(c, "history", {"create", "update", "delete"})
  \/ createApplicationStatusHistory(c) \/ updateApplicationStatusHistory(c) \/ deleteApplicationStatusHistory(c)
handlerRoles(c) ==
  \/ Unfit(c, "role", {"create", "update", "delete"})
  \/ createRoles(c) \/ updateRoles(c) \/ deleteRoles(c)
handlerSystems(c) ==
  \/ Unfit(c, "system", {"create", "update", "delete"})
  \/ createSystems(c) \/ updateSystems(c) \/ deleteSystems(c)
eventCallbackDelegate(c) == Unfit(c, "application", {"export"}) \/ createApplicantData(c)

Handle(c) ==
  \/ handlerQuestionBankGroup(c) \/ handlerQuestionBank(c) \/ handlerQuestionBankMultipleChoiceAnswers(c)
  \/ handlerApplicationVersion(c) \/ handlerApplicationVersionCustomQuestion(c) \/ handlerJobPosting(c)
  \/ handlerJobPostingResponsibleUser(c) \/ handlerApplication(c) \/ handlerApplicationNote(c)
  \/ handlerApplicationQuestionBankAnswer(c) \/ handlerApplicationStatusHistory(c) \/ handlerRoles(c)
  \/ handlerSystems(c) \/ eventCallbackDelegate(c)

Step(c) ==
  \/ InsertRow(c) \/ ReadBack(c) \/ CheckQuestion(c) \/ ReadOld(c) \/ WriteRow(c) \/ DropRow(c) \/ LogChange(c)
  \/ FindVersion(c) \/ MakePosting(c) \/ UsePosting(c) \/ AddAttachment(c) \/ ClearCache(c)

Next ==
  \/ \E c \in Calls :
       \/ Handle(c) \/ Step(c) \/ Fail(c)
  \/ \E e \in sent : LogLands(e) \/ LogLost(e)

Spec == Init /\ [][Next]_vars

(***************************************************************************)
(* Properties.                                                             *)
(***************************************************************************)
Settled == sent = {} /\ \A c \in Calls : ~ Running(c)
Api == {c \in Calls : call[c].op \in {"create", "update", "delete"}}

\* A change is told by an entry for its row: the deletion's has no new values, the others' show
\* the row as this call left it.
Told(i, c) ==
  \E e \in audit : e.id = i /\ IF call[c].op = "delete" THEN e.kind = "delete" ELSE e.new = c

\* Once everything is still, every change made through the API is in the audit trail. Not
\* when the entry was lost (nobody waits for the lambda), the function failed in between, or a call
\* beside changed the row before it was read back; and not for an answer or a status inserted for
\* another company's application, nor for one of an application without a posting, which its own query does not find.
TrailComplete ==
  Settled => \A c \in Api : \A p \in wrote :
    p[2] = c =>
      \/ Told(p[1], c)
      \/ Had("lost", p[1]) \/ Had("failed", c) \/ Had("beside", c)
      \/ call[c].result = "error" /\ call[c].t \in {"answer", "history"}
      \/ Had("unseen", c)

\* The trail of a row can be followed back: an update or a deletion starts from values that
\* the row had been given by another call, and no two of them start from the same. Not when
\* calls overlap (the old values are read in a query of their own), not for an application
\* without a posting, whose old values are not found, and no two of a row one of whose changes
\* is in the trail although its statement missed the database.
TrailLinks ==
  \A e, f \in audit :
    e.kind # "insert" =>
      \/ /\ e.old # e.new
         /\ f.id = e.id /\ f.kind # "insert" /\ f.old = e.old => f = e \/ Had("missed", e.id)
      \/ e.old = None
      \/ \E c \in Calls : Had("beside", c)

\* A call that answers with an error has changed nothing. Not when it failed between two
\* steps; not the creation of an answer or a status, which looks at the company only once the row is
\* there; and not an export, whose attachments are refused after the application was inserted.
ErrorMeansNoChange ==
  \A c \in Calls :
    call[c].pc = "done" /\ call[c].result = "error" =>
      \/ \A p \in wrote : p[2] # c
      \/ Had("failed", c)
      \/ call[c].op = "create" /\ call[c].t \in {"answer", "history"}
      \/ call[c].op = "export"

Posted(a) == \E p \in rows[a].refs : rows[p].co = rows[a].co /\ rows[p].opening = rows[a].opening
Meddled == \E p \in wrote : p[2] \in Api /\ call[p[2]].t \in {"version", "posting", "application"}

\* A candidate's application is for a posting of the company and opening it was exported for,
\* and all candidates of an opening are for one posting, however often they are exported. Not when
\* an export ran beside another call (the version is looked for without a lock, and two that
\* overlap leave a posting each for later ones to find), nor when the API changed versions,
\* postings or applications.
OpeningHasOnePosting ==
  LET exported == {i \in Of("application") : rows[i].by # 0} IN
  \A a, b \in exported :
    \/ /\ Posted(a)
       /\ rows[a].co = rows[b].co /\ rows[a].opening = rows[b].opening => rows[a].refs = rows[b].refs
    \/ \E c \in Calls : Had("beside", c) /\ call[c].op = "export"
    \/ Meddled

=============================================================================
