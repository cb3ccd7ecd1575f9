--------------------------- MODULE TenantDatabase ---------------------------
(***************************************************************************)
(* The databases of the tenants (api/tenants/src/tenants.service.ts): their *)
(* placement on an RDS instance and creation by a state machine, the search *)
(* for the instance that holds one (database.service.ts), and their         *)
(* scheduled deletion by the expiry of an item of DynamoDB, whose stream    *)
(* calls the function that backs a database up and drops it.                *)
(*                                                                         *)
(* db           what each instance holds of each tenant                    *)
(* load         the databases it holds of other tenants                    *)
(* conn         the table ConnectionStrings, one item per domain           *)
(* down         instances that are not 'available'                         *)
(* admin        the HR global administrator of each tenant in SSO          *)
(* creation     the executions of HrDatabaseCreator                        *)
(* patch        the PATCH requests of /tenants/{tenantId}                  *)
(* stream       expired items that were not delivered yet                  *)
(* deletion     the function that deletes, and the batch it was given      *)
(*                                                                         *)
(* History, read by properties only: backups (of databases that still       *)
(* exist), asked (the last patch that found the item of the tenant), blind  *)
(* (tenants checked for while the search failed, while the instance of      *)
(* their database was down, or while another creation had passed the        *)
(* check), doubled (tenants that had two databases at once),                *)
(* crowded (two creations were placed at once), skipped (records that were  *)
(* delivered behind another), again (records that were delivered twice).    *)
(***************************************************************************)
EXTENDS Integers, Sequences, FiniteSets

CONSTANTS
    Tenants,        \* the tenants; a domain each
    Instances,      \* 1 .. n, in the order in which RDS lists them
    Creations,      \* executions that may be in flight
    Patches,        \* patch requests that may be in flight
    MaxDatabases,   \* 100 in the code: databases that an instance may hold
    MaxBatch,       \* records of the stream that are delivered at once
    MaxCreations,   \* bounds the creations that are started
    MaxPatches,     \* bounds the patches that are sent
    MaxFailures,    \* bounds the calls that fail and the instances that go down
    None

ASSUME InstancesAssumption == Instances = 1 .. Cardinality(Instances) /\ Instances # {}
ASSUME FiniteAssumption == IsFiniteSet(Instances) /\ IsFiniteSet(Tenants)
ASSUME LimitsAssumption == MaxDatabases \in Nat \ {0} /\ MaxBatch \in Nat \ {0}
ASSUME NoneAssumption == None \notin Instances \cup Tenants

VARIABLES db, load, conn, down, admin, creation, patch, stream, deletion,
          backups, asked, blind, doubled, crowded, skipped, again, started, failures

history == <<backups, asked, blind, doubled, crowded, skipped, again>>
stores == <<db, load, conn, down, admin>>
vars == <<stores, creation, patch, stream, deletion, history, started, failures>>

\* What a creation has made of a database so far.
Levels == {"none", "bare", "tables", "ready"}

\* An item has a tenant and an instance ("full"), or only what an update of a
\* missing item left ("stub"); `ttl` says whether it expires.
NoItem == [kind |-> "none", at |-> None, ttl |-> FALSE]
Items == [kind : {"none", "full", "stub"}, at : Instances \cup {None}, ttl : BOOLEAN]

CreationSteps == {"idle", "check", "place", "create", "tables", "auth", "publish",
                  "account"}
PatchSteps == {"idle", "info", "url", "update"}
DeletionSteps == {"idle", "backup", "poll", "drop"}

Begun(pc, t) == [pc |-> pc, tenant |-> t, at |-> None, seen |-> {}, least |-> 0]
NoCreation == Begun("idle", None)
NoPatch == [pc |-> "idle", tenant |-> None, op |-> "none"]
NoDeletion == [pc |-> "idle", tenant |-> None, task |-> None]

Init ==
    /\ db = [i \in Instances |-> [t \in Tenants |-> "none"]]
    /\ load \in [Instances -> 0 .. MaxDatabases]
    /\ conn = [t \in Tenants |-> NoItem]
    /\ down = {}
    /\ admin = [t \in Tenants |-> None]
    /\ creation = [c \in Creations |-> NoCreation]
    /\ patch = [p \in Patches |-> NoPatch]
    /\ stream = <<>>
    /\ deletion = NoDeletion
    /\ backups = {}
    /\ asked = [t \in Tenants |-> "none"]
    /\ blind = {} /\ doubled = {} /\ crowded = FALSE /\ skipped = {} /\ again = {}
    /\ started = [creations |-> 0, patches |-> 0]
    /\ failures = 0

-----------------------------------------------------------------------------
(* Where a database is *)

Holders(t) == {i \in Instances : db[i][t] # "none"}

Count(i) == load[i] + Cardinality({t \in Tenants : db[i][t] # "none"})

MayFail == failures < MaxFailures
Least(S) == CHOOSE i \in S : \A j \in S : i <= j

\* Mutant: the instances are not searched.
ByItemOnly(t) == IF conn[t].kind = "full" THEN conn[t].at ELSE None

\* findConnectionString without an error: the item of the tenant, or the first
\* available instance that has its database.
Located(t) ==
    IF conn[t].kind = "full" THEN conn[t].at
    ELSE IF Holders(t) \ down # {} THEN Least(Holders(t) \ down) ELSE None

\* What it may answer: the query of the table may fail, so that the instances are
\* searched although there is an item, or the search fails as well.
Answers(t) ==
    {[at |-> Located(t), failed |-> FALSE]}
        \cup (IF MayFail
              THEN {[at |-> IF Holders(t) \ down # {} THEN Least(Holders(t) \ down) ELSE None,
                     failed |-> TRUE],
                    [at |-> None, failed |-> TRUE]}
              ELSE {})

Counted(answer) == failures' = failures + (IF answer.failed THEN 1 ELSE 0)

\* A query of the tenant's database: it needs an instance that has it and answers.
Reached(t, answer) ==
    answer.at # None /\ answer.at \notin down /\ db[answer.at][t] # "none"

-----------------------------------------------------------------------------
(* Creation: the steps of the state machine HrDatabaseCreator *)

Goto(c, pc) == creation' = [creation EXCEPT ![c].pc = pc]
End(c) == creation' = [creation EXCEPT ![c] = NoCreation]

AddRdsDatabase(c, t) ==
    /\ creation[c].pc = "idle"
    /\ started.creations < MaxCreations
    /\ creation' = [creation EXCEPT ![c] = Begun("check", t)]
    /\ started' = [started EXCEPT !.creations = @ + 1]
    /\ UNCHANGED <<stores, patch, stream, deletion, history, failures>>

\* The handler of POST .../admin: only the last state of the machine.
AddAdmin(c, t) ==
    /\ creation[c].pc = "idle"
    /\ started.creations < MaxCreations
    /\ creation' = [creation EXCEPT ![c] = Begun("account", t)]
    /\ started' = [started EXCEPT !.creations = @ + 1]
    /\ UNCHANGED <<stores, patch, stream, deletion, history, failures>>

Rivals(c) == {o \in Creations \ {c} : creation[o].tenant = creation[c].tenant
                                        /\ creation[o].pc \in {"place", "create"}}

\* exists takes every error of the search for "not found".
TenantChecker(c) ==
    LET t == creation[c].tenant IN
    /\ creation[c].pc = "check"
    /\ \E answer \in Answers(t) :
        /\ Counted(answer)
        /\ IF answer.at # None THEN End(c) ELSE Goto(c, "place")
        /\ blind' = IF \/ answer.failed
                       \/ Holders(t) \cap down # {}
                       \/ Rivals(c) # {}
                     THEN blind \cup {t} ELSE blind
    /\ UNCHANGED <<stores, patch, stream, deletion, backups, asked, doubled, crowded,
                   skipped, again, started>>

\* Mutant: an instance is never full.
LimitIgnored(count) == FALSE

\* The instance with the fewest databases is at the limit.
LimitReached(count) == count = MaxDatabases

\* An instance is taken only if it holds fewer than the ones before it.
FewerThan(count, least) == count < least

\* One call per instance, in their order; the first one is the first choice. An
\* instance that does not answer ends the execution.
DbPlacementDeterminant(c) ==
    LET cr == creation[c]
        i == Cardinality(cr.seen) + 1
        count == Count(i)
        better == cr.at = None \/ FewerThan(count, cr.least)
        at == IF better THEN i ELSE cr.at
        least == IF better THEN count ELSE cr.least
        others == {o \in Creations \ {c} : creation[o].pc \in {"place", "create"}}
    IN
    /\ cr.pc = "place"
    /\ crowded' = (crowded \/ others # {})
    /\ IF i \in down \/ (i = Cardinality(Instances) /\ LimitReached(least)) THEN End(c)
       ELSE creation' = [creation EXCEPT ![c] =
                [pc |-> IF i = Cardinality(Instances) THEN "create" ELSE "place",
                 tenant |-> cr.tenant, at |-> at, seen |-> cr.seen \cup {i}, least |-> least]]
    /\ UNCHANGED <<stores, patch, stream, deletion, backups, asked, blind, doubled,
                   skipped, again, started, failures>>

\* The script in the S3 bucket (external) creates a database that is not there yet.
\* createRdsTenantDb swallows every error: the machine goes on in any case.
CreateDatabase(c) ==
    LET t == creation[c].tenant
        i == creation[c].at
    IN
    /\ creation[c].pc = "create"
    /\ i \notin down /\ db[i][t] = "none"
    /\ db' = [db EXCEPT ![i][t] = "bare"]
    /\ doubled' = IF Holders(t) # {} THEN doubled \cup {t} ELSE doubled
    /\ backups' = backups \ {<<t, i>>}
    /\ Goto(c, "tables")
    /\ UNCHANGED <<conn, down, admin, load, patch, stream, deletion, asked, blind, crowded,
                   skipped, again, started, failures>>

\* Scripts of the folder 'dbo', then auth-setup.sql.
ApplyScripts(c, pc, from, to, next) ==
    LET t == creation[c].tenant
        i == creation[c].at
    IN
    /\ creation[c].pc = pc
    /\ i \notin down /\ db[i][t] # "none"
    /\ db' = IF db[i][t] = from THEN [db EXCEPT ![i][t] = to] ELSE db
    /\ Goto(c, next)
    /\ UNCHANGED <<conn, down, admin, load, patch, stream, deletion, history, started, failures>>

ApplySchema(c) == ApplyScripts(c, "tables", "bare", "tables", "auth")

\* Mutant: the connection string is published before the schema is applied.
PublishEarly(c) ==
    /\ creation[c].pc \in {"tables", "publish"}
    /\ conn' = [conn EXCEPT ![creation[c].tenant] =
                    [kind |-> "full", at |-> creation[c].at, ttl |-> FALSE]]
    /\ Goto(c, IF creation[c].pc = "tables" THEN "auth" ELSE "account")
    /\ UNCHANGED <<db, down, admin, load, patch, stream, deletion, history, started, failures>>

AuthSetup(c) == ApplyScripts(c, "auth", "tables", "ready", "publish")

\* addConnectionString: a put, whatever the item was.
AddConnectionString(c) ==
    /\ creation[c].pc = "publish"
    /\ conn' = [conn EXCEPT ![creation[c].tenant] =
                    [kind |-> "full", at |-> creation[c].at, ttl |-> FALSE]]
    /\ asked' = [asked EXCEPT ![creation[c].tenant] = "none"]
    /\ Goto(c, "account")
    /\ UNCHANGED <<db, down, admin, load, patch, stream, deletion, backups, blind, doubled,
                   crowded, skipped, again, started, failures>>

\* A step of createRdsTenantDb fails: what was done stays and nobody is told.
CreationFails(c) ==
    LET t == creation[c].tenant
        i == creation[c].at
    IN
    /\ creation[c].pc \in {"create", "tables", "auth", "publish"}
    /\ \/ MayFail /\ failures' = failures + 1
       \/ /\ failures' = failures
          /\ \/ i \in down
             \/ creation[c].pc = "create" /\ db[i][t] # "none"
             \/ creation[c].pc \in {"tables", "auth"} /\ db[i][t] = "none"
    /\ Goto(c, "account")
    /\ UNCHANGED <<stores, patch, stream, deletion, history, started>>

\* addHrGlobalAdminAccount: the account, which SSO (external) refuses if there is one,
\* then its three roles; a call that is refused ends the execution at its error handler,
\* which does nothing.
AddHrGlobalAdminAccount(c) ==
    LET t == creation[c].tenant IN
    /\ creation[c].pc = "account"
    /\ \/ admin[t] # None /\ UNCHANGED <<admin, failures>>
       \/ admin[t] = None /\ admin' = [admin EXCEPT ![t] = 3] /\ UNCHANGED failures
       \/ /\ MayFail /\ failures' = failures + 1
          /\ \/ UNCHANGED admin
             \/ /\ admin[t] = None
                /\ \E roles \in 0 .. 2 : admin' = [admin EXCEPT ![t] = roles]
    /\ End(c)
    /\ UNCHANGED <<db, conn, down, load, patch, stream, deletion, history, started>>

-----------------------------------------------------------------------------
(* PATCH /tenants/{tenantId}: schedule a deletion, or undo that *)

PatchGoto(p, pc) == patch' = [patch EXCEPT ![p].pc = pc]
PatchEnd(p) == patch' = [patch EXCEPT ![p] = NoPatch]

ScheduleTenantDeletion(p, t, op) ==
    /\ patch[p].pc = "idle"
    /\ started.patches < MaxPatches
    /\ patch' = [patch EXCEPT ![p] = [pc |-> "info", tenant |-> t, op |-> op]]
    /\ started' = [started EXCEPT !.patches = @ + 1]
    /\ UNCHANGED <<stores, creation, stream, deletion, history, failures>>

\* The query of the tenant's URLs; auth-setup.sql fills its table.
ReadTenantInfo(p) ==
    LET t == patch[p].tenant IN
    /\ patch[p].pc = "info"
    /\ \E answer \in Answers(t) :
        /\ Counted(answer)
        /\ IF Reached(t, answer) /\ db[answer.at][t] = "ready" THEN PatchGoto(p, "url")
           ELSE PatchEnd(p)
    /\ UNCHANGED <<stores, creation, stream, deletion, history, started>>

\* A URL of the tenant still answers, or none does (external).
CheckUrl(p) ==
    /\ patch[p].pc = "url"
    /\ PatchEnd(p) \/ PatchGoto(p, "update")
    /\ UNCHANGED <<stores, creation, stream, deletion, history, started, failures>>

\* updateConnectionString on an item that is there.
Updated(item, op) == [item EXCEPT !.ttl = (op = "remove")]

\* DynamoDB makes an item of an update whose key it does not have; for an update
\* that only removes an attribute that is its choice.
UpdateConnectionString(p) ==
    LET t == patch[p].tenant
        op == patch[p].op
    IN
    /\ patch[p].pc = "update"
    /\ \/ /\ conn[t].kind # "none"
          /\ conn' = [conn EXCEPT ![t] = Updated(@, op)]
          /\ asked' = IF conn[t].kind = "full" THEN [asked EXCEPT ![t] = op] ELSE asked
       \/ /\ conn[t].kind = "none"
          /\ \/ conn' = [conn EXCEPT ![t] = [kind |-> "stub", at |-> None, ttl |-> op = "remove"]]
             \/ op = "undo" /\ UNCHANGED conn
          /\ UNCHANGED asked
    /\ PatchEnd(p)
    /\ UNCHANGED <<db, down, admin, load, creation, stream, deletion, backups, blind, doubled,
                   crowded, skipped, again, started, failures>>

PatchFails(p) ==
    /\ patch[p].pc \in {"info", "update"}
    /\ MayFail
    /\ failures' = failures + 1
    /\ PatchEnd(p)
    /\ UNCHANGED <<stores, creation, stream, deletion, history, started>>

-----------------------------------------------------------------------------
(* Deletion: an item expires, its record calls deleteTenantDatabase *)

\* DynamoDB removes an item whose time has come (external).
Expire(t) ==
    /\ conn[t].ttl
    /\ conn' = [conn EXCEPT ![t] = NoItem]
    /\ stream' = Append(stream, [tenant |-> t, full |-> conn[t].kind = "full"])
    /\ UNCHANGED <<db, down, admin, load, creation, patch, deletion, history, started, failures>>

\* The handler looks at the first record of its batch; one batch at a time.
Deliver(n) ==
    LET batch == SubSeq(stream, 1, n)
        behind == {batch[k].tenant : k \in 2 .. n}
    IN
    /\ deletion.pc = "idle"
    /\ n <= Len(stream)
    /\ stream' = SubSeq(stream, n + 1, Len(stream))
    /\ skipped' = skipped \cup behind
    /\ deletion' = IF batch[1].full
                   THEN [pc |-> "backup", tenant |-> batch[1].tenant, task |-> None]
                   ELSE NoDeletion
    /\ UNCHANGED <<stores, creation, patch, backups, asked, blind, doubled, crowded,
                   again, started, failures>>

\* The query that starts the backup; an error, or an answer without a task, ends it.
StartBackup ==
    LET t == deletion.tenant IN
    /\ deletion.pc = "backup"
    /\ \E answer \in Answers(t) :
        /\ Counted(answer)
        /\ deletion' = IF Reached(t, answer)
                       THEN [deletion EXCEPT !.pc = "poll", !.task = answer.at]
                       ELSE NoDeletion
    /\ UNCHANGED <<stores, creation, patch, stream, history, started>>

\* Mutant: a backup that failed is taken for one that is done.
FailedIsDone ==
    LET t == deletion.tenant IN
    /\ deletion.pc = "poll"
    /\ deletion' = [deletion EXCEPT !.pc = "drop"]
    /\ UNCHANGED <<stores, creation, patch, stream, history, started, failures>>

\* The status of the backup task, asked from the instance that is found now.
PollBackup ==
    LET t == deletion.tenant IN
    /\ deletion.pc = "poll"
    /\ \E answer \in Answers(t) :
        /\ Counted(answer)
        /\ IF Reached(t, answer) /\ answer.at = deletion.task
           THEN /\ deletion' = [deletion EXCEPT !.pc = "drop"]
                /\ backups' = backups \cup {<<t, deletion.task>>}
           ELSE deletion' = NoDeletion /\ UNCHANGED backups
    /\ UNCHANGED <<stores, creation, patch, stream, asked, blind, doubled, crowded,
                   skipped, again, started>>

\* The backup ends in an error.
BackupFails ==
    /\ deletion.pc = "poll"
    /\ MayFail
    /\ failures' = failures + 1
    /\ deletion' = NoDeletion
    /\ UNCHANGED <<stores, creation, patch, stream, history, started>>

\* The database is dropped where it is found now. One that is not found is answered
\* in a body that the caller takes for a result.
DropDatabase ==
    LET t == deletion.tenant IN
    /\ deletion.pc = "drop"
    /\ \E answer \in Answers(t) :
        /\ Counted(answer)
        /\ db' = IF Reached(t, answer) THEN [db EXCEPT ![answer.at][t] = "none"] ELSE db
    /\ deletion' = NoDeletion
    /\ UNCHANGED <<conn, down, admin, load, creation, patch, stream, history, started>>

\* The function runs into its timeout, before or just after the drop: the stream
\* delivers the same batch again.
DeletionTimesOut ==
    LET t == deletion.tenant
        at == Located(t)
    IN
    /\ deletion.pc \in {"backup", "poll", "drop"}
    /\ MayFail
    /\ failures' = failures + 1
    /\ deletion' = [deletion EXCEPT !.pc = "backup", !.task = None]
    /\ again' = again \cup {t}
    /\ \/ UNCHANGED db
       \/ /\ deletion.pc = "drop" /\ at # None /\ at \notin down
          /\ db' = [db EXCEPT ![at][t] = "none"]
    /\ UNCHANGED <<conn, down, admin, load, creation, patch, stream, backups, asked, blind,
                   doubled, crowded, skipped, started>>

-----------------------------------------------------------------------------
(* Outside: instances are maintained *)

GoDown(i) ==
    /\ MayFail
    /\ i \notin down
    /\ down' = down \cup {i}
    /\ failures' = failures + 1
    /\ UNCHANGED <<db, conn, admin, load, creation, patch, stream, deletion, history, started>>

ComeUp(i) ==
    /\ i \in down
    /\ down' = down \ {i}
    /\ UNCHANGED <<db, conn, admin, load, creation, patch, stream, deletion, history, started, failures>>

-----------------------------------------------------------------------------

CreationStep(c) ==
    \/ \E t \in Tenants : AddRdsDatabase(c, t) \/ AddAdmin(c, t)
    \/ TenantChecker(c) \/ DbPlacementDeterminant(c)
    \/ CreateDatabase(c) \/ ApplySchema(c) \/ AuthSetup(c) \/ AddConnectionString(c)
    \/ CreationFails(c)
    \/ AddHrGlobalAdminAccount(c)

PatchStep(p) ==
    \/ \E t \in Tenants, op \in {"remove", "undo"} : ScheduleTenantDeletion(p, t, op)
    \/ ReadTenantInfo(p) \/ CheckUrl(p) \/ UpdateConnectionString(p) \/ PatchFails(p)

Deleting == StartBackup \/ PollBackup \/ DropDatabase

Next ==
    \/ \E c \in Creations : CreationStep(c)
    \/ \E p \in Patches : PatchStep(p)
    \/ \E t \in Tenants : Expire(t)
    \/ \E n \in 1 .. MaxBatch : Deliver(n)
    \/ Deleting \/ BackupFails \/ DeletionTimesOut
    \/ \E i \in Instances : GoDown(i) \/ ComeUp(i)

\* The stream is delivered and its function runs; instances come back.
Fairness ==
    /\ WF_vars(\E n \in 1 .. MaxBatch : Deliver(n))
    /\ WF_vars(Deleting)
    /\ \A i \in Instances : WF_vars(ComeUp(i))

Spec == Init /\ [][Next]_vars /\ Fairness

-----------------------------------------------------------------------------
(* Properties *)

\* Every store and every function under way holds values of its type.
TypeOK ==
    /\ db \in [Instances -> [Tenants -> Levels]]
    /\ load \in [Instances -> Nat]
    /\ conn \in [Tenants -> Items]
    /\ down \subseteq Instances
    /\ admin \in [Tenants -> 0 .. 3 \cup {None}]
    /\ creation \in [Creations -> [pc : CreationSteps, tenant : Tenants \cup {None},
                                   at : Instances \cup {None}, seen : SUBSET Instances,
                                   least : Nat]]
    /\ patch \in [Patches -> [pc : PatchSteps, tenant : Tenants \cup {None},
                              op : {"remove", "undo", "none"}]]
    /\ deletion \in [pc : DeletionSteps, tenant : Tenants \cup {None},
                      task : Instances \cup {None}]
    /\ stream \in Seq([tenant : Tenants, full : BOOLEAN])
    /\ backups \subseteq Tenants \X Instances
    /\ asked \in [Tenants -> {"none", "remove", "undo"}]
    /\ blind \cup doubled \cup skipped \cup again \subseteq Tenants
    /\ crowded \in BOOLEAN

\* A connection string names a database that was created to its end, whatever steps of
\* its creation failed and whatever is deleted meanwhile (createRdsTenantDb publishes it
\* last; a deletion starts when it is gone). Except for a tenant that had two databases,
\* or whose deletion was delivered twice.
ServedIsComplete ==
    \A t \in Tenants \ (doubled \cup again) :
        conn[t].kind = "full" => db[conn[t].at][t] = "ready"

\* A tenant gets a second database only if a check failed or raced: what a creation left
\* when it failed is found by the next one, although no connection string names it, and
\* so is the database of an item that expired.
DoubledOnlyIfBlind == doubled \subseteq blind

\* Without two placements at once no instance gets more databases than it may hold:
\* what a creation left when it failed counts, since the instance itself is asked.
WithinLimit == crowded \/ \A i \in Instances :
    load[i] + Cardinality({t \in Tenants : db[i][t] # "none"}) <= MaxDatabases

Dropped(i, t) == db[i][t] # "none" /\ db'[i][t] = "none"

\* deleteTenantDatabase drops a database only after a backup of it: the backup, its
\* status and the drop each look for the database anew, and find the same one unless
\* the tenant has two. And it drops one only if the last patch that found its item asked
\* for that: an undo that comes before the expiry keeps it, and a new database of the
\* tenant is not dropped for what was asked of the old one.
DropIsDue ==
    [][\A i \in Instances, t \in Tenants \ doubled :
        Dropped(i, t) => <<t, i>> \in backups /\ (t \in again \/ asked[t] = "remove")]_vars

Expired(t) == \E k \in DOMAIN stream : stream[k].tenant = t /\ stream[k].full

\* The database of a tenant whose item expired is dropped in the end, unless a call went
\* wrong, the record came behind another one, or the tenant had two databases.
ExpiredIsDropped ==
    \A t \in Tenants : Expired(t) ~> (Holders(t) = {} \/ failures > 0 \/ t \in skipped \cup doubled)

=============================================================================
