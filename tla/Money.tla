--------------------------------- MODULE Money ---------------------------------
(***************************************************************************)
(* Amounts, and the value that stands for one nobody knows. Where nothing  *)
(* else is said an amount is a number of 100 won.                          *)
(***************************************************************************)
EXTENDS Integers

CONSTANT None       \* Python's None: not known, not given, no end

ASSUME NoneIsNoNumber == None \notin Int
ASSUME NoneIsNoFlag == None \notin {"yes", "no"}

Million == 10000
Manwon == 100

Larger(m, n) == IF m < n THEN n ELSE m
Smaller(m, n) == IF m < n THEN m ELSE n

\* quantize(1, ROUND_HALF_UP) of a quotient.
HalfUp(dividend, divisor) == (2 * dividend + divisor) \div (2 * divisor)
===============================================================================
