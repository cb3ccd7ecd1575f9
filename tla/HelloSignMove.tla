---------------------------- MODULE HelloSignMove ----------------------------
(***************************************************************************)
(* The '/platform/integration' instruction of a company patch              *)
(* (services/api/tenants/src/company.service.ts,                           *)
(* updateHelloSignConfigurations): a migrated company takes over the       *)
(* HelloSign application, and with it the signature requests, of its donor. *)
(*                                                                         *)
(* The integrations service holds which application a company uses,        *)
(* HelloSign the applications.  Five calls change them; an action that     *)
(* undoes each is queued when it has answered.  If a call or a later       *)
(* instruction of the patch fails the queue is run, oldest action first;   *)
(* an action that throws abandons the others.                              *)
(***************************************************************************)
EXTENDS CompanyPatch

CONSTANT MaxAttempts   \* bound: times the patch is sent

ASSUME HelloSignAssumption == MaxAttempts \in Nat \ {0}

VARIABLES
    apps,       \* the applications of HelloSign, by client id
    config,     \* the client id each company is configured with, or NoApp
    call,       \* the next call of the instruction
    local,      \* what the instruction has read
    attempts    \* times the patch was sent

helloSignStores == <<apps, config, call, local, attempts>>

helloSignVars == <<helloSignStores, undo, phase, failures>>

Companies == {"donor", "recipient"}

NoApp == 0

\* The names that were given to the two applications, the name a new application
\* of the recipient gets, and how often ' donor' was appended.
Names == [base : {"donor", "recipient", "created"}, suffixes : 0 .. 2 * MaxAttempts]

App == [name : Names, domain : Companies, live : BOOLEAN]

Calls == {"readConfigs", "pointRecipient", "readApps", "renameRecipient", "renameDonor",
          "deleteApp", "deleteConfig", "returned"}

Plain(base) == [base |-> base, suffixes |-> 0]

\* Each company has an application; base names the recipient's.
HelloSignStores(base) ==
    /\ apps = << [name |-> Plain("donor"), domain |-> "donor", live |-> TRUE],
                 [name |-> Plain(base), domain |-> "recipient", live |-> TRUE] >>
    /\ config = [donor |-> 1, recipient |-> 2]
    /\ call = "readConfigs"
    /\ local = [app |-> config, hs |-> [donor |-> apps[1], recipient |-> apps[2]]]
    /\ attempts = 1

\* The recipient's application may have been created by this program, and then
\* has the name that a new one would get.
HelloSignInit ==
    /\ \E base \in {"recipient", "created"} : HelloSignStores(base)
    /\ undo = <<>>
    /\ phase = "moving"
    /\ failures = [kind \in FaultKinds |-> 0]

-----------------------------------------------------------------------------
(* HelloSign and the integrations service.  No call goes to a tenant's         *)
(* database, so none is missed.                                              *)

Live(id) == id \in DOMAIN apps /\ apps[id].live

\* "HelloSign does not allow apps with duplicate names".
NameFree(name, id) == \A i \in DOMAIN apps \ {id} : apps[i].live => apps[i].name # name

MayRename(id, name) == Live(id) /\ NameFree(name, id)

Renamed(id, name, domain) == [apps EXCEPT ![id].name = name, ![id].domain = domain]

Deleted(id) == [apps EXCEPT ![id].live = FALSE]

Created(name, domain) == Append(apps, [name |-> name, domain |-> domain, live |-> TRUE])

Configured(company, id) == [config EXCEPT ![company] = id]

-----------------------------------------------------------------------------
(* The instruction.                                                          *)

At(c) == phase = "moving" /\ call = c

\* Mutant: the newest action comes first, as it does for the documents.
ProceedFront(next) ==
    /\ call' = next
    /\ undo' = <<call>> \o undo
    /\ UNCHANGED <<phase, failures>>

\* A call that changes something has answered: its undo action is queued.
Proceed(next) ==
    /\ call' = next
    /\ undo' = Append(undo, call)
    /\ UNCHANGED <<phase, failures>>

Break == phase' = "undoing" /\ UNCHANGED <<call, undo>>

\* A call to HelloSign, which accepts it if ok, and then has the applications new.
CallHelloSign(ok, new, next) ==
    /\ \/ ok /\ apps' = new /\ Proceed(next)
       \/ ~ok /\ Break /\ UNCHANGED <<apps, failures>>
       \/ GoesWrong("refused") /\ Break /\ UNCHANGED apps
       \/ ok /\ GoesWrong("lost") /\ apps' = new /\ Break
    /\ UNCHANGED <<config, local, attempts>>

CallIntegrations(new, next) ==
    /\ \/ config' = new /\ Proceed(next)
       \/ GoesWrong("refused") /\ Break /\ UNCHANGED config
       \/ GoesWrong("lost") /\ config' = new /\ Break
    /\ UNCHANGED <<apps, local, attempts>>

\* Mutant: configurations[0] is used unchecked.
ReadConfigsUnchecked ==
    /\ At("readConfigs")
    /\ local' = [local EXCEPT !.app = config]
    /\ call' = "pointRecipient"
    /\ UNCHANGED <<apps, config, undo, phase, failures, attempts>>

\* A company without a configuration is not found.
ReadConfigs ==
    /\ At("readConfigs")
    /\ \/ /\ \A c \in Companies : config[c] # NoApp
          /\ local' = [local EXCEPT !.app = config]
          /\ call' = "pointRecipient"
          /\ UNCHANGED <<undo, phase, failures>>
       \/ /\ \E c \in Companies : config[c] = NoApp
          /\ Break
          /\ UNCHANGED <<local, failures>>
       \/ GoesWrong("refused") /\ Break /\ UNCHANGED local
    /\ UNCHANGED <<apps, config, attempts>>

PointRecipient ==
    /\ At("pointRecipient")
    /\ CallIntegrations(Configured("recipient", local.app.donor), "readApps")

ReadApps ==
    /\ At("readApps")
    /\ \/ /\ \A c \in Companies : Live(local.app[c])
          /\ local' = [local EXCEPT !.hs = [c \in Companies |-> apps[local.app[c]]]]
          /\ call' = "renameRecipient"
          /\ UNCHANGED <<undo, phase, failures>>
       \/ /\ \E c \in Companies : ~Live(local.app[c])
          /\ Break
          /\ UNCHANGED <<local, failures>>
       \/ GoesWrong("refused") /\ Break /\ UNCHANGED local
    /\ UNCHANGED <<apps, config, attempts>>

TemporaryName == [local.hs.recipient.name EXCEPT !.suffixes = @ + 1]

RenameRecipient ==
    /\ At("renameRecipient")
    /\ LET id == local.app.recipient
       IN  CallHelloSign(MayRename(id, TemporaryName),
                         Renamed(id, TemporaryName, apps[id].domain), "renameDonor")

RenameDonor ==
    /\ At("renameDonor")
    /\ LET id == local.app.donor
           to == local.hs.recipient
       IN  CallHelloSign(MayRename(id, to.name), Renamed(id, to.name, to.domain), "deleteApp")

DeleteApp ==
    /\ At("deleteApp")
    /\ LET id == local.app.recipient
       IN  CallHelloSign(Live(id), Deleted(id), "deleteConfig")

DeleteConfig ==
    /\ At("deleteConfig")
    /\ CallIntegrations(Configured("donor", NoApp), "returned")

Return ==
    /\ At("returned")
    /\ phase' = "done"
    /\ UNCHANGED <<apps, config, call, local, undo, failures, attempts>>

HelloSignLater == LaterInstructions /\ UNCHANGED <<apps, config, call, local, attempts>>

-----------------------------------------------------------------------------
(* The rollback: shift, then run.                                            *)

NextUndo == Head(undo)

Undoing(c) == phase = "undoing" /\ undo # <<>> /\ NextUndo = c

Undone == undo' = Tail(undo) /\ UNCHANGED phase

Abandon == undo' = Tail(undo) /\ phase' = "abandoned"

UndoHelloSign(ok, new, rest) ==
    /\ \/ ok /\ apps' = new /\ undo' = rest /\ UNCHANGED <<phase, failures>>
       \/ ~ok /\ Abandon /\ UNCHANGED <<apps, failures>>
       \/ GoesWrong("refused") /\ Abandon /\ UNCHANGED apps
       \/ ok /\ GoesWrong("lost") /\ apps' = new /\ Abandon
    /\ UNCHANGED <<config, call, local, attempts>>

UndoIntegrations(new) ==
    /\ \/ config' = new /\ Undone /\ UNCHANGED failures
       \/ GoesWrong("refused") /\ Abandon /\ UNCHANGED config
       \/ GoesWrong("lost") /\ config' = new /\ Abandon
    /\ UNCHANGED <<apps, call, local, attempts>>

UndoPointRecipient ==
    /\ Undoing("pointRecipient")
    /\ UndoIntegrations(Configured("recipient", local.app.recipient))

\* The exception is eaten: the application may be deleted already.
UndoRenameRecipient ==
    /\ Undoing("renameRecipient")
    /\ LET id == local.app.recipient
           name == local.hs.recipient.name
           ok == MayRename(id, name)
           new == Renamed(id, name, apps[id].domain)
       IN  \/ apps' = (IF ok THEN new ELSE apps) /\ UNCHANGED failures
           \/ GoesWrong("refused") /\ UNCHANGED apps
           \/ ok /\ GoesWrong("lost") /\ apps' = new
    /\ Undone
    /\ UNCHANGED <<config, call, local, attempts>>

UndoRenameDonor ==
    /\ Undoing("renameDonor")
    /\ LET id == local.app.donor
           to == local.hs.donor
       IN  UndoHelloSign(MayRename(id, to.name), Renamed(id, to.name, to.domain), Tail(undo))

\* The recipient's application is created anew, then its configuration updated.
UndoDeleteApp ==
    /\ Undoing("deleteApp")
    /\ UndoHelloSign(NameFree(Plain("created"), NoApp),
                     Created(Plain("created"), local.hs.recipient.domain),
                     <<"pointNew">> \o Tail(undo))

UndoDeleteAppPoint ==
    /\ Undoing("pointNew")
    /\ UndoIntegrations(Configured("recipient", Len(apps)))

UndoDeleteConfig ==
    /\ Undoing("deleteConfig")
    /\ UndoIntegrations(Configured("donor", local.app.donor))

HelloSignUndoEnds == UndoEnds("undone") /\ UNCHANGED <<apps, config, call, local, attempts>>

\* The patch is sent again.
Retry ==
    /\ phase \in {"committed", "undone", "abandoned"}
    /\ attempts < MaxAttempts
    /\ phase' = "moving"
    /\ call' = "readConfigs"
    /\ undo' = <<>>
    /\ attempts' = attempts + 1
    /\ UNCHANGED <<apps, config, local, failures>>

-----------------------------------------------------------------------------

Instruction ==
    \/ ReadConfigs \/ PointRecipient \/ ReadApps \/ RenameRecipient \/ RenameDonor
    \/ DeleteApp \/ DeleteConfig \/ Return

Rollback ==
    \/ UndoPointRecipient \/ UndoRenameRecipient \/ UndoRenameDonor
    \/ UndoDeleteApp \/ UndoDeleteAppPoint \/ UndoDeleteConfig \/ HelloSignUndoEnds

HelloSignNext == Instruction \/ HelloSignLater \/ Rollback \/ Retry

HelloSignSpec == HelloSignInit /\ [][HelloSignNext]_helloSignVars

-----------------------------------------------------------------------------
(* Properties.                                                               *)

\* Stores and locals hold values of their types; no two live applications have
\* the same name.
HelloSignTypeOK ==
    /\ apps \in Seq(App)
    /\ \A i \in DOMAIN apps : apps[i].live => NameFree(apps[i].name, i)
    /\ config \in [Companies -> {NoApp} \cup DOMAIN apps]
    /\ call \in Calls
    /\ local \in [app : [Companies -> {NoApp} \cup DOMAIN apps], hs : [Companies -> App]]
    /\ undo \in Seq(Calls \cup {"pointNew"})
    /\ phase \in Phases
    /\ failures \in [FaultKinds -> 0 .. MaxFailures]
    /\ attempts \in 1 .. MaxAttempts

\* "delete recipient HelloSign app": the application that carries the donor's
\* signature requests is never deleted.
DonorAppKept == Live(1)

\* It is so whatever goes wrong while the patch is sent only once.
DonorAppKeptAtFirst == attempts = 1 => DonorAppKept

\* Until a rollback begins the recipient can sign documents: its configuration
\* names an application that exists, whatever went wrong, too.
ServedUntilUndone ==
    attempts = 1 /\ phase \in {"moving", "done", "committed"}
        => Live(config["recipient"])

\* A rollback that comes to its end leaves each company with an application of
\* its own, of its own domain, unless an answer was lost.
UndoneMeansServed ==
    ~Misled /\ attempts = 1 /\ phase = "undone" =>
        /\ \A c \in Companies : Live(config[c]) /\ apps[config[c]].domain = c
        /\ config["donor"] # config["recipient"]

\* A patch that succeeded has moved the donor's application to the recipient,
\* under the recipient's name and domain, and deleted the other.
CommittedMeansMoved ==
    attempts = 1 /\ phase = "committed" =>
        /\ config = [donor |-> NoApp, recipient |-> 1]
        /\ apps[1].domain = "recipient" /\ apps[1].name = local.hs.recipient.name
        /\ \A i \in DOMAIN apps : apps[i].live <=> i = 1

\* What the first patch leaves, whichever of its calls go wrong.
FirstPatchIsSafe ==
    DonorAppKeptAtFirst /\ ServedUntilUndone /\ UndoneMeansServed /\ CommittedMeansMoved

\* A company that has been moved stays moved: the patch sent again finds no
\* configuration of the donor and changes nothing.
MovedStaysMoved ==
    [](phase = "committed" /\ Live(config["recipient"]) => [](Live(config["recipient"])))

=============================================================================
