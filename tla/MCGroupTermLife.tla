--------------------------- MODULE MCGroupTermLife ---------------------------
(* Numbers are counted in thousandths: a numeric(18,2) column rounds to tens, *)
(* an int column drops what is below 1000, and a small number becomes 0.     *)
EXTENDS GroupTermLife, TLC

\* Invocations are alike.
Interchangeable == Permutations(Requests)

MCStoredNumber == [n \in Numbers |-> ((n + 5) \div 10) * 10]

MCStoredHours == [n \in Numbers |-> (n \div 1000) * 1000]

Flat(amount, rate, hours) ==
    [flat |-> TRUE, figures |-> [amount |-> amount, rate |-> rate, hours |-> hours]]

Multiple(rate, hours) ==
    [flat |-> FALSE, figures |-> [amount |-> None, rate |-> rate, hours |-> hours]]

\* An amount that becomes 0, with a 0 that counts as missing; one with hours and
\* one of 0, which are refused; earnings without hours, for the salaried only, and
\* with hours that become 0; an amount beside earnings, which is refused.
MCBodies == {Flat(4, 0, None), Flat(1000, None, 4), Flat(0, None, None),
             Multiple(1000, None), Multiple(1000, 4),
             [Flat(1000, 1000, 1000) EXCEPT !.flat = FALSE]}
=============================================================================
