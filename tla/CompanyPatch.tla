---------------------------- MODULE CompanyPatch ----------------------------
(***************************************************************************)
(* What the instructions of a company patch have in common                 *)
(* (services/api/tenants/src/company.service.ts, companyUpdate).  Each     *)
(* instruction calls other services and keeps a list of the actions that   *)
(* undo its calls.  If it fails, or an instruction after it does, the      *)
(* actions are run.                                                        *)
(*                                                                         *)
(* A call takes effect, or it goes wrong.  It may be refused.  Its answer  *)
(* may be lost, and the caller takes it for refused.  It may be missed:    *)
(* when queryExecutor cannot find the tenant's database it answers an      *)
(* error, which the caller takes for a result.                             *)
(***************************************************************************)
EXTENDS Integers, Sequences

CONSTANTS
    Faults,       \* the ways in which calls go wrong
    MaxFailures   \* bound: calls that go wrong

FaultKinds == {"refused", "lost", "missed"}

ASSUME FaultsAssumption == Faults \subseteq FaultKinds /\ MaxFailures \in Nat

VARIABLES
    undo,       \* rollbackActions
    phase,      \* where the instruction is
    failures    \* how many calls went wrong in each way

Phases == {"moving", "done", "undoing", "committed", "undone", "abandoned"}

Failures == failures["refused"] + failures["lost"] + failures["missed"]

GoesWrong(fault) ==
    /\ fault \in Faults
    /\ Failures < MaxFailures
    /\ failures' = [failures EXCEPT ![fault] = @ + 1]

\* A caller was told something else than what its call did.
Misled == failures["lost"] + failures["missed"] > 0

\* The instruction has succeeded; one that follows it in the patch may fail, and then
\* this one is undone, unless an undo action of the other throws as well.
LaterInstructions ==
    /\ phase = "done"
    /\ phase' \in {"committed", "undoing", "abandoned"}
    /\ UNCHANGED <<undo, failures>>

\* No action is left to be run.
UndoEnds(end) ==
    /\ phase = "undoing"
    /\ undo = <<>>
    /\ phase' = end
    /\ UNCHANGED <<undo, failures>>

=============================================================================
