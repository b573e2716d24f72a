------------------------------ MODULE MCReports -------------------------------
(***************************************************************************)
(* Instance of Reports for TLC: two brands, one request beside the weekly  *)
(* run, weeks of one day and one cluster.                                  *)
(***************************************************************************)
EXTENDS Reports, TLC

\* Nothing orders the brands or the recipients.
Symmetry == Permutations(Brands) \cup Permutations(Recipients)

===============================================================================
