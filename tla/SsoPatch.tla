------------------------------- MODULE SsoPatch -------------------------------
(***************************************************************************)
(* The '/sso/account' instruction of a company patch                       *)
(* (services/api/tenants/src/company.service.ts, handleSsoPatch).  'copy'  *)
(* creates the accounts of a migrated company's users in the recipient's   *)
(* tenant and points dbo.HRnextUser at them, 'remove' disables the donor's *)
(* accounts, 'test' looks them up.                                         *)
(*                                                                         *)
(* All users are served at once, each by an async function of its own that *)
(* logs its failure; afterwards the users that were updated are counted.   *)
(* What 'copy' did is not undone; the accounts that 'remove' disabled are  *)
(* enabled, oldest first.                                                  *)
(***************************************************************************)
EXTENDS CompanyPatch

CONSTANTS
    Users,        \* the users of the company
    Roles,        \* roles of the SSO service
    DonorRoles,   \* the enabled roles of each user's account in the donor tenant
    Operations,   \* the operations that patches ask for
    MaxPatches    \* bound: patches; MaxFailures bounds each of them

ASSUME SsoAssumption ==
    /\ Users # {}
    /\ DonorRoles \in [Users -> SUBSET Roles]
    /\ Operations \subseteq {"copy", "remove", "test"}
    /\ MaxPatches \in Nat

VARIABLES
    donor,     \* the accounts of the donor tenant
    created,   \* the accounts created in the recipient tenant, for each user
    key,       \* PR_Integration_PK in the recipient database: 0 for the donor's
               \* account, n for the nth account created for the user
    op,        \* the operation of the patch
    stage,     \* where the function of each user is
    todo,      \* the roles that are still to be added
    patches,   \* patches that were sent
    before     \* history: donor when the patch began

stores == <<donor, created, key>>

ssoStores == <<stores, op, stage, todo, patches, before>>

ssoVars == <<ssoStores, undo, phase, failures>>

Status == {"enabled", "disabled", "absent"}

Account == [status : Status, roles : SUBSET Roles]

Stages == {"get", "create", "listRoles", "addRoles", "point", "disable", "look",
          "looked", "updated", "failed"}

SsoPhases == {"idle", "running", "done", "undoing", "committed", "failed", "abandoned"}

\* Before the first patch.
SsoStores ==
    /\ created = [u \in Users |-> <<>>]
    /\ key = [u \in Users |-> 0]
    /\ stage = [u \in Users |-> "failed"]
    /\ todo = [u \in Users |-> {}]
    /\ patches = 0
    /\ before = donor

SsoInit ==
    /\ donor \in [Users -> Status]
    /\ op \in Operations
    /\ SsoStores
    /\ undo = <<>>
    /\ phase = "idle"
    /\ failures = [kind \in FaultKinds |-> 0]

-----------------------------------------------------------------------------

FirstStep(o) == [copy |-> "get", remove |-> "disable", test |-> "look"][o]

\* Users whose account has no key in dbo.HRnextUser take no part.
Patch(o) ==
    /\ phase \in {"idle", "committed", "failed", "abandoned"}
    /\ patches < MaxPatches
    /\ patches' = patches + 1
    /\ op' = o
    /\ stage' = [u \in Users |-> FirstStep(o)]
    /\ phase' = "running"
    /\ undo' = <<>>
    /\ failures' = [kind \in FaultKinds |-> 0]
    /\ before' = donor
    /\ UNCHANGED <<stores, todo>>

AtStage(u, label) == phase = "running" /\ stage[u] = label

Goto(u, label) == stage' = [stage EXCEPT ![u] = label]

\* The function of u has what it asked for, or gives up: ok says whether the
\* service can serve the call, effect what it then does.
Call(u, ok, effect, none, next) ==
    /\ \/ ok /\ effect /\ Goto(u, next) /\ UNCHANGED failures
       \/ ~ok /\ none /\ Goto(u, "failed") /\ UNCHANGED failures
       \/ GoesWrong("refused") /\ none /\ Goto(u, "failed")
       \/ ok /\ GoesWrong("lost") /\ effect /\ Goto(u, "failed")
    /\ UNCHANGED <<op, phase, patches, before>>

Latest(u) == Len(created[u])

\* The account that the recipient's row names is looked for in the donor tenant.
GetAccount(u) ==
    /\ AtStage(u, "get")
    /\ Call(u, key[u] = 0 /\ donor[u] # "absent", TRUE, TRUE, "create")
    /\ UNCHANGED <<stores, todo, undo>>

CreateAccount(u) ==
    /\ AtStage(u, "create")
    /\ Call(u, TRUE,
            created' = [created EXCEPT ![u] = Append(@, [status |-> donor[u], roles |-> {}])],
            UNCHANGED created, "listRoles")
    /\ UNCHANGED <<donor, key, todo, undo>>

ListRoles(u) ==
    /\ AtStage(u, "listRoles")
    /\ Call(u, TRUE, todo' = [todo EXCEPT ![u] = DonorRoles[u]], UNCHANGED todo, "addRoles")
    /\ UNCHANGED <<stores, undo>>

Granted(u, r) == created' = [created EXCEPT ![u][Latest(u)].roles = @ \cup {r}]

\* Mutant: a role that cannot be added is passed over.
AddRoleOrSkip(u) ==
    /\ AtStage(u, "addRoles")
    /\ \E r \in todo[u] :
          /\ Granted(u, r) \/ UNCHANGED created
          /\ todo' = [todo EXCEPT ![u] = @ \ {r}]
    /\ UNCHANGED <<donor, key, op, stage, undo, phase, failures, patches, before>>

AddRole(u) ==
    /\ AtStage(u, "addRoles")
    /\ \E r \in todo[u] :
          /\ Call(u, TRUE, Granted(u, r), UNCHANGED created, "addRoles")
          /\ todo' = [todo EXCEPT ![u] = @ \ {r}]
    /\ UNCHANGED <<donor, key, undo>>

RolesAdded(u) ==
    /\ AtStage(u, "addRoles")
    /\ todo[u] = {}
    /\ Goto(u, "point")
    /\ UNCHANGED <<stores, op, todo, undo, phase, failures, patches, before>>

PointUser(u) ==
    /\ AtStage(u, "point")
    /\ Call(u, TRUE, key' = [key EXCEPT ![u] = Latest(u)], UNCHANGED key, "updated")
    /\ UNCHANGED <<donor, created, todo, undo>>

\* queryExecutor cannot find the database and its error is taken for a result.
PointUserMissed(u) ==
    /\ AtStage(u, "point")
    /\ GoesWrong("missed")
    /\ Goto(u, "updated")
    /\ UNCHANGED <<stores, op, todo, undo, phase, patches, before>>

SetStatus(u, status) == donor' = [donor EXCEPT ![u] = status]

\* Mutant: the accounts are not remembered for the rollback.
DisableForGood(u) ==
    /\ AtStage(u, "disable")
    /\ Call(u, donor[u] # "absent", SetStatus(u, "disabled"), UNCHANGED donor, "updated")
    /\ UNCHANGED <<created, key, todo, undo>>

Disable(u) ==
    /\ AtStage(u, "disable")
    /\ Call(u, donor[u] # "absent", SetStatus(u, "disabled"), UNCHANGED donor, "updated")
    /\ undo' = IF stage'[u] = "updated" THEN Append(undo, u) ELSE undo
    /\ UNCHANGED <<created, key, todo>>

\* The only operation that serves the users one after the other; it changes
\* nothing, and counts nobody as updated.
Look(u) ==
    /\ AtStage(u, "look")
    /\ Call(u, donor[u] # "absent", TRUE, TRUE, "looked")
    /\ UNCHANGED <<stores, todo, undo>>

Updated == {u \in Users : stage[u] = "updated"}

Settled == phase = "running" /\ \A u \in Users : stage[u] \in {"looked", "updated", "failed"}

\* Promise.allSettled, then the check of updatedUsers.
SettleUsers ==
    /\ Settled
    /\ phase' = IF Updated = Users THEN "done" ELSE "undoing"
    /\ UNCHANGED <<stores, op, stage, todo, undo, failures, patches, before>>

SsoLater == LaterInstructions /\ UNCHANGED <<stores, op, stage, todo, patches, before>>

Enable ==
    /\ phase = "undoing"
    /\ undo # <<>>
    /\ \/ SetStatus(Head(undo), "enabled") /\ UNCHANGED <<phase, failures>>
       \/ GoesWrong("refused") /\ phase' = "abandoned" /\ UNCHANGED donor
       \/ GoesWrong("lost") /\ phase' = "abandoned" /\ SetStatus(Head(undo), "enabled")
    /\ undo' = Tail(undo)
    /\ UNCHANGED <<created, key, op, stage, todo, patches, before>>

SsoUndoEnds == UndoEnds("failed") /\ UNCHANGED <<stores, op, stage, todo, patches, before>>

-----------------------------------------------------------------------------

Copy(u) ==
    \/ GetAccount(u) \/ CreateAccount(u) \/ ListRoles(u) \/ AddRole(u) \/ RolesAdded(u)
    \/ PointUser(u) \/ PointUserMissed(u)

Serve(u) == Copy(u) \/ Disable(u) \/ Look(u)

SsoNext ==
    \/ \E o \in Operations : Patch(o)
    \/ \E u \in Users : Serve(u)
    \/ SettleUsers \/ SsoLater \/ Enable \/ SsoUndoEnds

SsoSpec == SsoInit /\ [][SsoNext]_ssoVars

-----------------------------------------------------------------------------
(* Properties.                                                               *)

\* Stores and locals hold values of their types.
SsoTypeOK ==
    /\ donor \in [Users -> Status] /\ before \in [Users -> Status]
    /\ created \in [Users -> Seq(Account)]
    /\ \A u \in Users : key[u] \in 0 .. Len(created[u])
    /\ op \in Operations
    /\ stage \in [Users -> Stages]
    /\ todo \in [Users -> SUBSET Roles]
    /\ undo \in Seq(Users) /\ \A i, j \in DOMAIN undo : undo[i] = undo[j] => i = j
    /\ phase \in SsoPhases
    /\ failures \in [FaultKinds -> 0 .. MaxFailures]
    /\ patches \in 0 .. MaxPatches

\* Whatever goes wrong, a user who was moved to a new account has there every
\* role that the donor's account has.
MigratedWithRoles ==
    \A u \in Users : key[u] > 0 => created[u][key[u]].roles = DonorRoles[u]

\* A patch that succeeded has served every user, unless an update missed its
\* database and the error was taken for a result.
CommittedMeansServed ==
    phase = "committed" =>
        /\ op = "copy" /\ failures["missed"] = 0 => \A u \in Users : key[u] > 0
        /\ op = "remove" => \A u \in Users : donor[u] = "disabled"

\* A removal that fails and is undone leaves the accounts enabled that were,
\* unless the answer of a call was lost.
FailedKeepsEnabled ==
    phase = "failed" /\ failures["lost"] = 0
        => \A u \in Users : before[u] = "enabled" => donor[u] = "enabled"

\* The answer of a patch tells what became of the accounts.
AnswerIsTrue == CommittedMeansServed /\ FailedKeepsEnabled

\* 'test' succeeds when every account is there and every call was answered: it is
\* among the supportedOperations, and the patch is refused when an operation is not.
TestSucceeds ==
    phase = "failed" /\ op = "test" /\ (\A u \in Users : donor[u] # "absent") => Failures > 0

=============================================================================
