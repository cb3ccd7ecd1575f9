---------------------------- MODULE PayrollFirst ----------------------------
(***************************************************************************)
(* What the handlers promise that keep a record both in the tenant's HR    *)
(* database and in Evolution payroll: a writer tells payroll first, and HR *)
(* only ever takes over what its writer has told payroll.  A writer that   *)
(* gives up leaves payroll ahead of HR, never HR ahead of payroll; between *)
(* the two steps of one writer others may take theirs.                     *)
(***************************************************************************)
CONSTANTS
    Keys,      \* what is kept, one record for each key
    Values,    \* values of a record
    Absent,    \* the value of a record that does not exist
    Writers,   \* the invocations that write
    Nothing    \* what a writer has told payroll before it does

VARIABLES
    hr,        \* the record of each key in the HR database
    payroll,   \* the record of each key in Evolution
    told       \* what each writer has told payroll and HR has not taken over

Init ==
    /\ hr = [k \in Keys |-> Absent]
    /\ payroll = [k \in Keys |-> Absent]
    /\ told = [w \in Writers |-> Nothing]

PayrollLearns(w, k, v) ==
    /\ told[w] = Nothing
    /\ told' = [told EXCEPT ![w] = [key |-> k, value |-> v]]
    /\ payroll' = [payroll EXCEPT ![k] = v]
    /\ UNCHANGED hr

HrFollows(w) ==
    /\ told[w] # Nothing
    /\ hr' = [hr EXCEPT ![told[w].key] = told[w].value]
    /\ told' = [told EXCEPT ![w] = Nothing]
    /\ UNCHANGED payroll

\* The record is not there any more, or not to be reached.
GivesUp(w) ==
    /\ told' = [told EXCEPT ![w] = Nothing]
    /\ UNCHANGED <<hr, payroll>>

Next ==
    \E w \in Writers :
        \/ \E k \in Keys, v \in Values : PayrollLearns(w, k, v)
        \/ HrFollows(w)
        \/ GivesUp(w)

Spec == Init /\ [][Next]_<<hr, payroll, told>>

=============================================================================
