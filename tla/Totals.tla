------------------------------- MODULE Totals -------------------------------
(***************************************************************************)
(* Sums of money over a finite set of rows.                                *)
(*                                                                         *)
(* The code adds balances up one row at a time (a for loop over            *)
(* milestones, a query over earnings).  Here a sum counts units: every row *)
(* x contributes the pairs <<x, 1>>, ..., <<x, f[x]>>, and the sum is the  *)
(* number of pairs.  It is the ordinary sum, written without recursion so  *)
(* that facts about it follow from facts about cardinality.                *)
(***************************************************************************)
EXTENDS Integers, FiniteSets

\* The units that the rows of S hold according to f, a function into Nat.
Units(f, S) == UNION { {x} \X (1 .. f[x]) : x \in S }

\* The sum of f[x] over the x in S.
Total(f, S) == Cardinality(Units(f, S))

\* max(0, a - b): a debit that the code clamps at zero.
Minus(a, b) == IF b <= a THEN a - b ELSE 0
=============================================================================
