------------------------------ MODULE Rational ------------------------------
(***************************************************************************)
(* Exact fractions for the decimals of src/shared/decimal.ts: a numerator and  *)
(* a positive denominator in lowest terms, so that equal numbers are the same. *)
(***************************************************************************)
EXTENDS Integers, SequencesExt

\* The greatest common divisor of b and a, by Euclid's algorithm.
gcd[b \in Nat] == [a \in Nat |-> IF b = 0 THEN a ELSE gcd[a % b][b]]
Magnitude(n) == IF n < 0 THEN -n ELSE n

Divided(n, d, g) == <<n \div g, d \div g>>
Ratio(n, d) == IF d < 0 THEN Divided(-n, -d, gcd[-d][Magnitude(n)])
               ELSE Divided(n, d, gcd[d][Magnitude(n)])

Q(n) == <<n, 1>>
Zero == Q(0)

\* Common factors are taken out first, which keeps the products small.
PlusBy(a, b, g) ==
  Ratio(a[1] * (b[2] \div g) + b[1] * (a[2] \div g), a[2] * (b[2] \div g))
Plus(a, b) == PlusBy(a, b, gcd[a[2]][b[2]])
Minus(a, b) == Plus(a, <<-b[1], b[2]>>)
Crossed(x, y) == <<x[1] * y[1], x[2] * y[2]>>
Times(a, b) == Crossed(Ratio(a[1], b[2]), Ratio(b[1], a[2]))
Over(a, b) == Times(a, Ratio(b[2], b[1]))
Less(a, b) == Minus(a, b)[1] < 0
AtMost(a, b) == ~Less(b, a)
Abs(a) == IF a[1] < 0 THEN <<-a[1], a[2]>> ELSE a
Larger(a, b) == IF Less(a, b) THEN b ELSE a
Smaller(a, b) == IF Less(b, a) THEN b ELSE a
IsZero(a) == a = Zero
IsPositive(a) == a[1] > 0
Percent(a) == Times(a, Q(100))

SumOf(seq) == FoldLeft(Plus, Zero, seq)
LargestOf(seq) == FoldLeft(Larger, Head(seq), seq)
SmallestOf(seq) == FoldLeft(Smaller, Head(seq), seq)
=============================================================================
