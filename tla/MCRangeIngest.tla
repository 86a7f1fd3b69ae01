---------------------------- MODULE MCRangeIngest ----------------------------
(* Six heights, the upper three of them disputed; the finalized view names *)
(* the first or the last.                                                  *)
EXTENDS RangeIngest

MCHeads == {[number |-> 1, hash |-> "a"], [number |-> To, hash |-> "c"]}
=============================================================================
