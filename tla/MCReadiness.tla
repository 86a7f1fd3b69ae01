---------------------------- MODULE MCReadiness ----------------------------
(***************************************************************************)
(* Two evaluations, the ticker's and a scrape's, and a bound of four time  *)
(* units: the shortest for which the observer's interval (2) and timeout   *)
(* (1) differ from each other and from the bound.  Two heights: one block  *)
(* to be behind by, committed once, again as a duplicate, or once more     *)
(* after a re-seed.                                                        *)
(***************************************************************************)
EXTENDS Readiness, TLC

(* Evaluations are alike: a model value for each, and no order among them. *)
Sym == Permutations(Refreshers)
=============================================================================
