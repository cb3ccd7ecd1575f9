--------------------------- MODULE ServiceRequests ---------------------------
(* What DirectDeposit and GroupTermLife share: the invocations of the handlers *)
(* and where each of them is.  pc is the next step of an invocation.  met is   *)
(* history: what has come between an invocation and what it works on since it  *)
(* looked; no handler reads it.                                                *)

CONSTANTS
    Requests,      \* the invocations that may be in flight at once
    Employees,     \* employees of the tenant
    None           \* stands for nothing

VARIABLES
    req,           \* the locals of each invocation
    met            \* what each invocation has met

At(r, label) == req[r].pc = label

Goto(r, label) == req' = [req EXCEPT ![r].pc = label]

\* The invocation takes this step and goes on.
Passes(r, label) == At(r, label) /\ req'[r].pc \notin {label, "idle"}
=============================================================================
