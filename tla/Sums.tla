-------------------------------- MODULE Sums --------------------------------
(***************************************************************************)
(* Totals of natural-valued functions: what "the sum over all rows of a    *)
(* table" means in the invariants of the other modules.                    *)
(*                                                                         *)
(* The total is defined by counting: every unit of f[x] is a distinct      *)
(* coin <<x, i>>, and the total is the number of coins.  The definition is *)
(* not recursive, so that the lemmas of SumLemmas can be proved for every  *)
(* finite domain, and TLC evaluates it directly.                           *)
(***************************************************************************)
EXTENDS Integers, FiniteSets

CoinsOf(f, x) == {x} \X (1 .. f[x])

Coins(f) == UNION {CoinsOf(f, x) : x \in DOMAIN f}

Total(f) == Cardinality(Coins(f))

(* For a table with one row per pair of S: the totals of the rows that     *)
(* begin with a, and of those that end with a.                             *)
TotalFrom(D, S, a) == Total([x \in S |-> D[<<a, x>>]])
TotalTo(D, S, a) == Total([x \in S |-> D[<<x, a>>]])

(* The sum of a function that may be negative. *)
NotBelow0(x) == IF x < 0 THEN 0 ELSE x
SumOf(f) ==
  Total([x \in DOMAIN f |-> NotBelow0(f[x])])
  - Total([x \in DOMAIN f |-> NotBelow0(-f[x])])
==============================================================================
