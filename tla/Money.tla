------------------------------- MODULE Money -------------------------------
(***************************************************************************)
(* Integer-KRW arithmetic of money.util.ts.  Amounts are BigInt in the      *)
(* program, hence unbounded integers here.                                  *)
(***************************************************************************)
EXTENDS Integers, Functions

WholeBps == 10000

\* Mutated form: the share is rounded up.
CeilBps(amount, bps) == (amount * bps + WholeBps - 1) \div WholeBps

\* The BigInt quotient truncates toward zero, where \div rounds down.
FloorBps(amount, bps) ==
  IF amount >= 0 THEN (amount * bps) \div WholeBps
                 ELSE -((-amount * bps) \div WholeBps)

\* What rows with an amount come to: the _sum of an aggregate.
AmountOf(rows) == SumFunction([r \in rows |-> r.amount])

=============================================================================
