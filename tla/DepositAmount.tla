---------------------------- MODULE DepositAmount ----------------------------
(***************************************************************************)
(* What the direct deposit service stores for an amount.  create and       *)
(* update both compute parseInt('' + amount * 100, 10) / 100, in double    *)
(* precision, to drop all but two decimals.  Amounts are counted in cents: *)
(* every amount here has two decimals, so nothing is there to be dropped.  *)
(*                                                                         *)
(* The double next to cents/100, times 100, is the integer cents or the    *)
(* double just below it, and then parseInt yields cents - 1.  Which one it *)
(* is follows exactly from the two roundings, in integers: with            *)
(* 2^e <= cents < 2^(e+1) and 2^f <= cents/100 < 2^(f+1), the double of    *)
(* cents/100 is a multiple of 2^(f-52) and falls short of it by            *)
(* rest * 2^(f-52) / 100, where rest = cents * 2^(52-f) mod 100, unless    *)
(* rest >= 50 rounds it up; times 100, that is closer to cents than to the *)
(* double below when rest <= 2^(e-f-1).                                    *)
(***************************************************************************)
EXTENDS Integers

\* The greatest n with 2^n <= cents; amounts lie below 2^24 cents.
Exponent(cents) == CHOOSE n \in 0 .. 24 : 2 ^ n <= cents /\ cents < 2 ^ (n + 1)

\* The same of cents/100, which lies six or seven binary orders below cents.
QuotientExponent(cents) ==
    LET e == Exponent(cents) IN
    IF 100 * 2 ^ e <= 64 * cents THEN e - 6 ELSE e - 7

PowerOf2Mod100[n \in Nat] == IF n = 0 THEN 1 ELSE (2 * PowerOf2Mod100[n - 1]) % 100

Rest(cents) == ((cents % 100) * PowerOf2Mod100[52 - QuotientExponent(cents)]) % 100

\* The product is the double below cents.
FallsShort(cents) ==
    /\ Rest(cents) < 50
    /\ Rest(cents) > 2 ^ (Exponent(cents) - QuotientExponent(cents) - 1)

\* What is stored of an amount.
Truncated(cents) == IF FallsShort(cents) THEN cents - 1 ELSE cents

=============================================================================
