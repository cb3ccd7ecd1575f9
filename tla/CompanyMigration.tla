-------------------------- MODULE CompanyMigration --------------------------
(***************************************************************************)
(* Migrations of the data of one donor company into recipient companies      *)
(* (api/tenants/src/company.service.ts: runCompanyMigration,                 *)
(* createCompanyMigration). A recipient stands for a company in a tenant and *)
(* on an instance of its own.                                                *)
(*                                                                         *)
(* item        HrCompanyMigrations: the status of each migration            *)
(* run         the function createCompanyMigration of each: its next call,   *)
(*             the script it installs (two calls each), and whether it failed *)
(* to          the recipient of each migration                              *)
(* links       the linked servers of the donor's instance, named by the      *)
(*             migration                                                     *)
(* procs       the procedures that are installed, by their place             *)
(* session     the statement of createCompanyMigration.sql that comes next in *)
(*             the query executor, which outlives the function that called it *)
(* erred       sessions in which an error was raised                         *)
(* keyed       recipients that have the ids of the donor's signature requests *)
(* donorActive the users of the donor may log in                            *)
(* activeAt    the users of the donor in each recipient                      *)
(* trigger, job  the audit trigger of each recipient, and the job of its SQL  *)
(*             agent that enables it again                                   *)
(*                                                                         *)
(* History, read by properties only: asked (migrations whose script was sent  *)
(* to the executor), complete (its last statement ran and none was missed),   *)
(* missed (the session went on after a statement that was not run), swallowed (an error that was taken for an     *)
(* answer), killed (its function), unsettled (its status could not be         *)
(* written), stuck (recipients whose job was not scheduled).                  *)
(***************************************************************************)
EXTENDS MigrationStatements, Integers, FiniteSets

CONSTANTS
    Migrations,     \* their ids: 1 .. n, numbered as they are started
    Recipients,     \* recipient companies: 1 .. n, numbered as they are first used
    MaxTrouble,     \* bounds calls that go wrong, and migrations started beside another
    None

ASSUME NumberedAssumption ==
    /\ Migrations = 1 .. Cardinality(Migrations)
    /\ Recipients = 1 .. Cardinality(Recipients)
ASSUME NoneAssumption == None \notin Recipients

VARIABLES item, run, to, links, procs, session, erred, keyed, donorActive, activeAt,
          trigger, job,
          asked, complete, missed, swallowed, killed, unsettled, stuck, trouble

history == <<asked, complete, missed>>
marks == <<swallowed, killed, unsettled, stuck>>
data == <<keyed, donorActive, activeAt>>
agent == <<trigger, job>>
vars == <<item, run, to, links, procs, session, erred, data, agent, history, marks, trouble>>

-----------------------------------------------------------------------------
(* The script: createCompanyMigration.sql *)

Call(proc, statements) ==
    [k \in DOMAIN statements |-> [proc |-> proc, first |-> k = 1, do |-> statements[k]]]

\* Mutant: the updates of CompanyUpdates come before the users and the documents.
UpdatesFirst ==
    Call("CompanyWrapper", CompanyWrapper)
        \o Call("CompanyUpdates", <<PositionType>>)
        \o Call("CompensationDataSet", CompensationDataSet)
        \o Call("Benefits", Benefits)
        \o Call("MultiTableTwoTier", MultiTableTwoTier)
        \o Call("CompanyUpdates", <<AlertRecipients>>)
        \o Call("SecDataSet", SecDataSet)
        \o Call("CompanyUpdates", <<QRWSavedReport>>)
        \o Call("ApplTrack", ApplTrack)
        \o Call("OnboardDataSet", OnboardDataSet)
        \o Call("Documents", Documents)
        \o Call("CompanyUpdates", <<CompanyDefaults>>)

Script ==
    Call("CompanyWrapper", CompanyWrapper)
        \o Call("CompanyUpdates", <<PositionType>>)
        \o Call("CompensationDataSet", CompensationDataSet)
        \o Call("Benefits", Benefits)
        \o Call("MultiTableTwoTier", MultiTableTwoTier)
        \o Call("SecDataSet", SecDataSet)
        \o Call("CompanyUpdates", <<AlertRecipients>>)
        \o Call("CompanyUpdates", <<QRWSavedReport>>)
        \o Call("ApplTrack", ApplTrack)
        \o Call("OnboardDataSet", OnboardDataSet)
        \o Call("Documents", Documents)
        \o Call("CompanyUpdates", <<CompanyDefaults>>)

Positions == 1 .. Len(Script)

\* Where the next call of a procedure begins.
NextCall == [p \in Positions |->
    CHOOSE q \in p + 1 .. Len(Script) + 1 :
        /\ q \in Positions => Script[q].first
        /\ \A r \in p + 1 .. q - 1 : ~ Script[r].first]

\* Tables that the script fills: the others are the schema's, or the payroll's.
Filled == {Script[p].do.table : p \in {q \in Positions : Script[q].do.kind \notin {"update", "delete"}}}

\* Before statement p the table has the rows of the migration: they were inserted, and
\* what the payroll brought was not deleted after that.
HoldsRows(p, table) ==
    \E q \in 1 .. p - 1 :
        /\ Script[q].do.table = table /\ Script[q].do.kind \in {"insert", "keyed", "missing"}
        /\ \A r \in q + 1 .. p - 1 : ~ (Script[r].do.table = table /\ Script[r].do.kind = "delete")

\* What the payroll brought, until it is deleted.
PayrollRows(p, table) ==
    /\ \E r \in p + 1 .. Len(Script) : Script[r].do = Delete(table)
    /\ \A q \in 1 .. p - 1 : Script[q].do.table # table

\* The statements that find the rows they look for, or mean to change the payroll's.
FindsRows == {p \in Positions :
    \A t \in Script[p].do.refs \cap Filled : HoldsRows(p, t) \/ PayrollRows(p, t)}

\* The scripts in the order in which they are installed: the directory in alphabetical
\* order, with usp_EIN_Cons_Dynamic_V1 exchanged with the first one; then the one of the
\* recipient. PreCheck is installed and never called.
Scripts ==
    <<"Dynamic", "Benefits", "CompanyUpdates", "CompanyWrapper", "CompensationDataSet",
      "Documents", "MultiTableTwoTier", "ApplTrack", "OnboardDataSet", "SecDataSet",
      "PreCheck", "AuditOutboxTrigger">>

Donor == 0

-----------------------------------------------------------------------------

At(pc) == [pc |-> pc, script |-> 1, second |-> FALSE]
Steps == {"idle", "link", "clear", "create", "disable", "schedule", "execute", "await",
          "succeed", "fail", "unlink", "ended"}

Init ==
    /\ item = [m \in Migrations |-> "none"]
    /\ run = [m \in Migrations |-> At("idle")]
    /\ to = [m \in Migrations |-> None]
    /\ links = {}
    /\ procs = {}
    /\ session = [m \in Migrations |-> 0]
    /\ erred = {}
    /\ keyed = {}
    /\ donorActive = TRUE
    /\ activeAt = [r \in Recipients |-> "none"]
    /\ trigger = [r \in Recipients |-> "on"]
    /\ job = [r \in Recipients |-> FALSE]
    /\ asked = {} /\ complete = {} /\ missed = {} /\ swallowed = {}
    /\ killed = {} /\ unsettled = {} /\ stuck = {}
    /\ trouble = 0

Goto(m, pc) == run' = [run EXCEPT ![m].pc = pc]
Leave(m, pc) == run' = [run EXCEPT ![m] = At(pc)]
MayGoWrong == trouble < MaxTrouble
Wrong == MayGoWrong /\ trouble' = trouble + 1
Running(m) == run[m].pc \notin {"idle", "ended"} \/ session[m] # 0

-----------------------------------------------------------------------------
(* runCompanyMigration: the names of the companies are read, the item is put, and the *)
(* state machine HrCompanyMigrator is started                                        *)

\* The names do not matter: they are given in order.
InOrder(m, r) ==
    /\ \A o \in 1 .. m - 1 : run[o].pc # "idle"
    /\ \A q \in 1 .. r - 1 : \E o \in 1 .. m - 1 : to[o] = q

RunCompanyMigration(m, r) ==
    /\ run[m].pc = "idle" /\ InOrder(m, r)
    /\ to' = [to EXCEPT ![m] = r]
    /\ item' = [item EXCEPT ![m] = "Pending"]
    /\ Goto(m, "link")
    /\ IF \E o \in Migrations : Running(o) THEN Wrong ELSE UNCHANGED trouble
    /\ UNCHANGED <<links, procs, session, erred, data, agent, history, marks>>

\* startExecution fails. (A read or the put that fails leaves no item: the update that
\* sets a part of its Details fails as well.)
StartFails(m, r) ==
    /\ run[m].pc = "idle" /\ InOrder(m, r)
    /\ Wrong
    /\ to' = [to EXCEPT ![m] = r]
    /\ item' = [item EXCEPT ![m] = "Failed"]
    /\ Leave(m, "ended")
    /\ UNCHANGED <<links, procs, session, erred, data, agent, history, marks>>

-----------------------------------------------------------------------------
(* createCompanyMigration: the calls before the script *)

CreateLinkedServer(m) ==
    /\ run[m].pc = "link"
    /\ links' = links \cup {m}
    /\ Goto(m, "clear")
    /\ UNCHANGED <<item, to, procs, session, erred, data, agent, history, marks, trouble>>

\* Procedures are installed in the donor's database, the last one in the recipient's.
Procedure(m) ==
    <<IF run[m].script = Len(Scripts) THEN to[m] ELSE Donor, Scripts[run[m].script]>>

NextScript(m) ==
    IF run[m].script < Len(Scripts)
    THEN [pc |-> "clear", script |-> run[m].script + 1, second |-> FALSE]
    ELSE [pc |-> "disable", script |-> run[m].script, second |-> FALSE]

\* A batched query has no body to answer: invokeInternalService sends it once more, and
\* does not look at that answer.
AfterInstall(m) ==
    IF run[m].second THEN NextScript(m) ELSE [run[m] EXCEPT !.pc = "clear", !.second = TRUE]

\* Mutant: the error is not caught.
Uncaught(m) == At("unlink")

Fails(m) == At("fail")

\* The first statements of a script drop the procedure, if it is there.
DropProcedure(m) ==
    /\ run[m].pc = "clear"
    /\ procs' = procs \ {Procedure(m)}
    /\ Goto(m, "create")
    /\ UNCHANGED <<item, to, links, session, erred, data, agent, history, marks, trouble>>

\* CREATE PROCEDURE is refused if another migration created it meanwhile.
CreateProcedure(m) ==
    /\ run[m].pc = "create"
    /\ procs' = procs \cup {Procedure(m)}
    /\ run' = [run EXCEPT ![m] =
                IF Procedure(m) \in procs /\ ~ run[m].second THEN Fails(m) ELSE AfterInstall(m)]
    /\ UNCHANGED <<item, to, links, session, erred, data, agent, history, marks, trouble>>

\* createAuditOutboxTriggerScheduledTask: the trigger is disabled,
DisableTrigger(m) ==
    /\ run[m].pc = "disable"
    /\ IF <<to[m], "AuditOutboxTrigger">> \in procs
       THEN trigger' = [trigger EXCEPT ![to[m]] = "off"] /\ Goto(m, "schedule")
       ELSE Goto(m, "fail") /\ UNCHANGED trigger
    /\ UNCHANGED <<item, to, links, procs, session, erred, data, job, history, marks, trouble>>

\* and a job is made, or put off, that enables it in a quarter of an hour.
ScheduleJob(m) ==
    /\ run[m].pc = "schedule"
    /\ job' = [job EXCEPT ![to[m]] = TRUE]
    /\ stuck' = stuck \ {to[m]}
    /\ Goto(m, "execute")
    /\ UNCHANGED <<item, to, links, procs, session, erred, data, trigger, history,
                   swallowed, killed, unsettled, trouble>>

\* The job deletes itself.
EnableTrigger(r) ==
    /\ job[r]
    /\ job' = [job EXCEPT ![r] = FALSE]
    /\ trigger' = [trigger EXCEPT ![r] = "on"]
    /\ UNCHANGED <<item, run, to, links, procs, session, erred, data, history, marks, trouble>>

\* Mutant: the trigger is disabled just before the script.
DisabledLate(m) ==
    /\ run[m].pc = "execute"
    /\ session' = [session EXCEPT ![m] = 1]
    /\ trigger' = [trigger EXCEPT ![to[m]] = "off"]
    /\ asked' = asked \cup {m}
    /\ Goto(m, "await")
    /\ UNCHANGED <<item, to, links, procs, erred, data, job, complete, missed, marks, trouble>>

\* queryExecutorAsync is invoked, without retries.
Execute(m) ==
    /\ run[m].pc = "execute"
    /\ session' = [session EXCEPT ![m] = 1]
    /\ asked' = asked \cup {m}
    /\ Goto(m, "await")
    /\ UNCHANGED <<item, to, links, procs, erred, data, agent, complete, missed, marks, trouble>>

-----------------------------------------------------------------------------
(* The session: one statement after the other, each a transaction of its own *)

Statement(m) == Script[session[m]]

InSession(m) == session[m] \in Positions

\* The call of a procedure that another migration has just dropped is an error that
\* does not end the batch.
CalledProcedureMissing(m) == Statement(m).first /\ <<Donor, Statement(m).proc>> \notin procs
InnerProcedureMissing(m) ==
    Statement(m).proc = "CompanyWrapper" /\ <<Donor, "Dynamic">> \notin procs

PassOver(m) ==
    /\ InSession(m)
    /\ CalledProcedureMissing(m) \/ InnerProcedureMissing(m)
    /\ session' = [session EXCEPT ![m] =
                    IF CalledProcedureMissing(m) THEN NextCall[@] ELSE @ + 1]
    /\ erred' = erred \cup {m}
    /\ missed' = missed \cup {m}
    /\ UNCHANGED <<item, run, to, links, procs, data, agent, asked, complete, marks, trouble>>

\* Without the linked server a statement is an error too, which ends the session
\* (abortTransactionOnError) or, since it is found when the statement is compiled, does
\* not. Statements that only name the donor need no linked server.
LinkMissing(m) ==
    /\ InSession(m)
    /\ ~ CalledProcedureMissing(m) /\ ~ InnerProcedureMissing(m)
    /\ m \notin links /\ Statement(m).do.kind # "inactivate"
    /\ \/ /\ session' = [session EXCEPT ![m] = @ + 1]
          /\ missed' = missed \cup {m}
       \/ session' = [session EXCEPT ![m] = Len(Script) + 1] /\ UNCHANGED missed
    /\ erred' = erred \cup {m}
    /\ UNCHANGED <<item, run, to, links, procs, data, agent, asked, complete, marks, trouble>>

\* The primary key is taken: another migration of this donor was here.
KeyTaken(m) == Statement(m).do.kind = "keyed" /\ to[m] \in keyed

RunStatement(m) ==
    LET st == Statement(m).do
        r == to[m]
        new == st.kind = "missing" /\ activeAt[r] = "none"
    IN
    /\ InSession(m)
    /\ ~ CalledProcedureMissing(m) /\ ~ InnerProcedureMissing(m)
    /\ m \in links \/ st.kind = "inactivate"
    /\ ~ KeyTaken(m)
    /\ keyed' = IF st.kind = "keyed" THEN keyed \cup {r} ELSE keyed
    /\ activeAt' = IF new THEN [activeAt EXCEPT ![r] = IF donorActive THEN "active" ELSE "inactive"]
                   ELSE activeAt
    /\ donorActive' = (donorActive /\ st.kind # "inactivate")
    /\ session' = [session EXCEPT ![m] = @ + 1]
    /\ complete' = IF session[m] = Len(Script) /\ m \notin missed THEN complete \cup {m} ELSE complete
    /\ UNCHANGED <<item, run, to, links, procs, erred, agent, asked, missed, marks, trouble>>

\* Any other error is found when the statement runs: it is rolled back and the session
\* ends. The executor may also run into its timeout.
StatementFails(m) ==
    /\ InSession(m)
    /\ IF ~ CalledProcedureMissing(m) /\ ~ InnerProcedureMissing(m) /\ m \in links /\ KeyTaken(m)
       THEN UNCHANGED trouble ELSE Wrong
    /\ session' = [session EXCEPT ![m] = Len(Script) + 1]
    /\ erred' = erred \cup {m}
    /\ UNCHANGED <<item, run, to, links, procs, data, agent, history, marks>>

\* Mutant: the errors of a session are not reported.
ErrorsIgnored(m) ==
    /\ session[m] = Len(Script) + 1
    /\ session' = [session EXCEPT ![m] = 0]
    /\ run' = IF run[m].pc = "await" THEN [run EXCEPT ![m].pc = "succeed"] ELSE run
    /\ UNCHANGED <<item, to, links, procs, erred, data, agent, history, marks, trouble>>

\* The errors of a session are reported at its end, if the function still waits.
Answer(m) ==
    /\ session[m] = Len(Script) + 1
    /\ session' = [session EXCEPT ![m] = 0]
    /\ run' = IF run[m].pc # "await" THEN run
              ELSE [run EXCEPT ![m].pc = IF m \in erred THEN "fail" ELSE "succeed"]
    /\ UNCHANGED <<item, to, links, procs, erred, data, agent, history, marks, trouble>>

-----------------------------------------------------------------------------
(* The end of createCompanyMigration *)

SetSuccess(m) ==
    /\ run[m].pc = "succeed"
    /\ item' = [item EXCEPT ![m] = "Success"]
    /\ Goto(m, "unlink")
    /\ UNCHANGED <<to, links, procs, session, erred, data, agent, history, marks, trouble>>

SetFailed(m) ==
    /\ run[m].pc = "fail"
    /\ item' = [item EXCEPT ![m] = "Failed"]
    /\ Goto(m, "unlink")
    /\ UNCHANGED <<to, links, procs, session, erred, data, agent, history, marks, trouble>>

DropLinkedServer(m) ==
    /\ run[m].pc = "unlink"
    /\ links' = links \ {m}
    /\ Leave(m, "ended")
    /\ UNCHANGED <<item, to, procs, session, erred, data, agent, history, marks, trouble>>

-----------------------------------------------------------------------------
(* What goes wrong *)

\* A call of the query executor fails; the second call of an installation is not looked at.
CallFails(m) ==
    /\ run[m].pc \in {"link", "clear", "create", "disable", "schedule", "execute"}
    /\ Wrong
    /\ run' = [run EXCEPT ![m] = IF run[m].pc \in {"clear", "create"} /\ run[m].second
                                 THEN AfterInstall(m) ELSE Fails(m)]
    /\ stuck' = IF run[m].pc = "schedule" THEN stuck \cup {to[m]} ELSE stuck
    /\ UNCHANGED <<item, to, links, procs, session, erred, data, agent, history,
                   swallowed, killed, unsettled>>

\* The query executor does not find the database and answers an ErrorMessage in a body:
\* it is parsed, so it is no instance of that class, and is taken for the result.
ErrorAnswered(m) ==
    /\ Wrong
    /\ swallowed' = swallowed \cup {m}
    /\ \/ run[m].pc = "link" /\ Goto(m, "clear")
       \/ run[m].pc = "clear" /\ run' = [run EXCEPT ![m] = NextScript(m)]
       \/ run[m].pc = "disable" /\ Goto(m, "execute")
       \/ run[m].pc = "execute" /\ Goto(m, "succeed")
    /\ UNCHANGED <<item, to, links, procs, session, erred, data, agent, history,
                   killed, unsettled, stuck>>

\* Mutant: the call is sent again when its answer is lost.
AskedAgain(m) ==
    /\ run[m].pc = "await"
    /\ Wrong
    /\ Goto(m, "execute")
    /\ UNCHANGED <<item, to, links, procs, session, erred, data, agent, history, marks>>

\* The answer of the script is lost, or comes too late.
AnswerLost(m) ==
    /\ run[m].pc = "await"
    /\ Wrong
    /\ Goto(m, "fail")
    /\ UNCHANGED <<item, to, links, procs, session, erred, data, agent, history, marks>>

\* The function runs into its own timeout: 900 seconds for all of its calls, as many as
\* the script alone may take.
Kill(m) ==
    /\ run[m].pc \notin {"idle", "ended"}
    /\ Wrong
    /\ Leave(m, "ended")
    /\ killed' = killed \cup {m}
    /\ stuck' = IF run[m].pc = "schedule" THEN stuck \cup {to[m]} ELSE stuck
    /\ UNCHANGED <<item, to, links, procs, session, erred, data, agent, history,
                   swallowed, unsettled>>

\* The status is not written: after the script that counts as a failure, and after a
\* failure it leaves the catch clause.
StatusFails(m) ==
    /\ run[m].pc \in {"succeed", "fail"}
    /\ Wrong
    /\ Goto(m, IF run[m].pc = "succeed" THEN "fail" ELSE "unlink")
    /\ unsettled' = IF run[m].pc = "fail" THEN unsettled \cup {m} ELSE unsettled
    /\ UNCHANGED <<item, to, links, procs, session, erred, data, agent, history,
                   swallowed, killed, stuck>>

\* The linked server stays; the execution ends in its error handler even after a success.
UnlinkFails(m) ==
    /\ run[m].pc = "unlink"
    /\ Wrong
    /\ Leave(m, "ended")
    /\ UNCHANGED <<item, to, links, procs, session, erred, data, agent, history, marks>>

-----------------------------------------------------------------------------

Migrate(m) ==
    \/ CreateLinkedServer(m) \/ DropProcedure(m) \/ CreateProcedure(m)
    \/ DisableTrigger(m) \/ ScheduleJob(m) \/ Execute(m)
    \/ SetSuccess(m) \/ SetFailed(m) \/ DropLinkedServer(m)

Copying(m) == PassOver(m) \/ LinkMissing(m) \/ RunStatement(m) \/ StatementFails(m) \/ Answer(m)

Trouble(m) ==
    \/ CallFails(m) \/ ErrorAnswered(m) \/ AnswerLost(m) \/ Kill(m)
    \/ StatusFails(m) \/ UnlinkFails(m)

Next ==
    \/ \E m \in Migrations :
        \/ \E r \in Recipients : RunCompanyMigration(m, r) \/ StartFails(m, r)
        \/ Migrate(m) \/ Copying(m) \/ Trouble(m)
    \/ \E r \in Recipients : EnableTrigger(r)

\* A function that was started runs on, and so does its session.
Fairness == \A m \in Migrations : WF_vars(Migrate(m)) /\ WF_vars(Copying(m))

Spec == Init /\ [][Next]_vars /\ Fairness

-----------------------------------------------------------------------------
(* Properties *)

\* Every record and every function under way holds values of its type.
TypeOK ==
    /\ item \in [Migrations -> {"none", "Pending", "Success", "Failed"}]
    /\ run \in [Migrations -> [pc : Steps, script : DOMAIN Scripts, second : BOOLEAN]]
    /\ to \in [Migrations -> Recipients \cup {None}]
    /\ links \cup erred \cup asked \cup complete \cup missed \cup swallowed \cup killed \cup unsettled \subseteq Migrations
    /\ session \in [Migrations -> 0 .. Len(Script) + 1]
    /\ keyed \cup stuck \subseteq Recipients
    /\ donorActive \in BOOLEAN
    /\ activeAt \in [Recipients -> {"none", "active", "inactive"}]
    /\ trigger \in [Recipients -> {"on", "off"}] /\ job \in [Recipients -> BOOLEAN]

\* A migration is marked 'Success' only when every statement of the script has run:
\* also when another one drops a procedure under it, whatever else goes wrong. Except
\* after an error that was taken for an answer.
SuccessIsComplete ==
    \A m \in Migrations \ swallowed :
        item[m] = "Success" => m \in complete

\* When a statement of the script comes up, each table of the migration that it looks
\* into has been copied, and is not cleared any more of what the payroll brought: no row
\* is dropped and no reference left NULL for the order of the statements.
ReferencesFound ==
    \A m \in Migrations : InSession(m) => session[m] \in FindsRows

\* The donor's users are locked out only when a recipient has them as active users, so
\* that a migration that fails later leaves them a place to log in.
UsersKept ==
    donorActive \/ missed # {} \/ \E r \in Recipients : activeAt[r] = "active"

\* The script of a migration is not started twice, whatever becomes of its answer: it
\* would copy everything again.
CopiedOnce == [][\A m \in Migrations : session'[m] = 1 /\ session[m] # 1 => m \notin asked]_vars

\* A migration that was started is marked as done or as failed in the end, unless its
\* function is killed or the status cannot be written.
MigrationSettles ==
    \A m \in Migrations :
        item[m] = "Pending" ~> (item[m] \in {"Success", "Failed"} \/ m \in killed \cup unsettled)

\* A recipient whose audit trigger is disabled has a job that will enable it, or a call
\* that is about to make one: also when two migrations share the recipient and the job of
\* the first deletes itself between the calls of the second. Unless the call that disabled
\* it did not reach the schedule.
TriggerRestored ==
    \A r \in Recipients : trigger[r] = "off" =>
        \/ job[r] \/ r \in stuck
        \/ \E m \in Migrations : to[m] = r /\ run[m].pc = "schedule"

=============================================================================
