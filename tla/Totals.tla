-------------------------------- MODULE Totals --------------------------------
(***************************************************************************)
(* The sum of what a function gives to the members of a finite set.        *)
(***************************************************************************)
EXTENDS Integers, FiniteSetsExt

Total(f, S) == MapThenSumSet(LAMBDA x : f[x], S)
=============================================================================
