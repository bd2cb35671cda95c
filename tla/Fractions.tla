-------------------------------- MODULE Fractions --------------------------------
(***************************************************************************)
(* Exact fractions: pairs of a numerator and a positive denominator in     *)
(* lowest terms.  They stand for the Decimal values of a valuation, which  *)
(* is not rounded before it is stored.                                     *)
(***************************************************************************)
EXTENDS Integers

Gcd[p \in Nat \X Nat] == IF p[2] = 0 THEN p[1] ELSE Gcd[<<p[2], p[1] % p[2]>>]

Reduced(n, d) ==
    LET g == Gcd[<<IF n < 0 THEN -n ELSE n, d>>]
    IN  <<n \div g, d \div g>>

Whole(n)    == <<n, 1>>
Nothing     == Whole(0)
Negative(a) == a[1] < 0

a ++ b == Reduced(a[1] * b[2] + b[1] * a[2], a[2] * b[2])
a -- b == Reduced(a[1] * b[2] - b[1] * a[2], a[2] * b[2])
a ** n == Reduced(a[1] * n, a[2])             \* n times, n an integer
a // n == Reduced(a[1], a[2] * n)             \* an n-th part, n positive

=============================================================================
