------------------------------ MODULE Rationals ------------------------------
(***************************************************************************)
(* Exact fractions, for the numbers that the program computes with as      *)
(* floats (indicators) and as Decimals (calculators).                      *)
(***************************************************************************)
EXTENDS Integers

\* Euclid's algorithm: Gcd[b][a] is the greatest common divisor of a and b.
Gcd[b \in Nat] == [a \in Nat |-> IF b = 0 THEN a ELSE Gcd[a % b][b]]

AbsInt(i) == IF i < 0 THEN -i ELSE i

\* n / d in lowest terms, for d > 0.
Frac(n, d) ==
    LET g == Gcd[d][AbsInt(n)] IN [num |-> n \div g, den |-> d \div g]

\* Fractions in lowest terms.
Rational == {x \in [num : Int, den : Nat \ {0}] : x = Frac(x.num, x.den)}

Rat(n) == [num |-> n, den |-> 1]
Zero == Rat(0)
Hundred == Rat(100)

x ++ y == Frac(x.num * y.den + y.num * x.den, x.den * y.den)
x -- y == Frac(x.num * y.den - y.num * x.den, x.den * y.den)
x ** y == Frac(x.num * y.num, x.den * y.den)
x // y == IF y.num > 0 THEN Frac(x.num * y.den, x.den * y.num)
                       ELSE Frac((-x.num) * y.den, x.den * (-y.num))

Leq(x, y) == x.num * y.den <= y.num * x.den
Less(x, y) == x.num * y.den < y.num * x.den

MaxOf(x, y) == IF Leq(x, y) THEN y ELSE x
MinOf(x, y) == IF Leq(x, y) THEN x ELSE y
AbsOf(x) == IF x.num < 0 THEN Zero -- x ELSE x
=============================================================================
