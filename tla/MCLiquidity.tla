------------------------------ MODULE MCLiquidity ------------------------------
EXTENDS Liquidity, TLC

\* No operation tells one player from another.
Symmetry == Permutations(Players)

\* integer_sqrt yields the integer part of the square root: neither the
\* rounding of its divisions nor the end of its loop is off.
ASSUME IntegerSqrtIsFloor == \A v \in 0 .. 400 : IntegerSqrt(v) = Sqrt(v)
================================================================================
