-------------------------------- MODULE Bits -------------------------------
(* Powers of two, and words combined bit by bit.                              *)
EXTENDS Integers

Pow2[n \in Nat] == IF n = 0 THEN 1 ELSE 2 * Pow2[n - 1]

Bit(x, i) == (x \div Pow2[i]) % 2

\* What &, | and ^ of C make of two bits.
Table(op, p, q) ==
  CASE op = "AND" -> p * q
    [] op = "OR" -> p + q - p * q
    [] op = "XOR" -> (p + q) % 2

\* Of the lowest n bits of two words.
Combined(op, x, y, n) ==
  LET low[k \in 0 .. n] ==
        IF k = 0 THEN 0 ELSE low[k - 1] + Pow2[k - 1] * Table(op, Bit(x, k - 1), Bit(y, k - 1))
  IN low[n]
=============================================================================
