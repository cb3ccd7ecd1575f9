--------------------------- MODULE MCDirectDeposit ---------------------------
(* Amounts are counted in tenths of a cent.                                   *)
EXTENDS DirectDeposit, DepositAmount, TLC

\* Invocations are alike.
Interchangeable == Permutations(Requests)

\* The service drops the last digit.
MCTruncatedAmount == [a \in Amounts |-> a - (a % 10)]

\* What double precision makes of it.
MCStoredAmount == [a \in Amounts |-> 10 * Truncated(a \div 10)]

\* "Truncate the amount field by removing excess decimal places. This will not
\* round the value": an amount of whole cents, which has none in excess, is
\* stored as it was sent.
WholeCentsKept ==
    [][\A r \in Requests :
          /\ At(r, "insert") /\ live' # live
          /\ req[r].pay.amt \in {a \in Amounts : a % 10 = 0}
          => dd'[nextId].amt = req[r].pay.amt]_vars

=============================================================================
