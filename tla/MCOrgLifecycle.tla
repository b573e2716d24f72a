---------------------------- MODULE MCOrgLifecycle ----------------------------
(***************************************************************************)
(* Instance of OrgLifecycle for TLC: two sign-ups under one name, two runs *)
(* of the wizard, a tour, two seeds of the demo and one fault.  Somebody   *)
(* has a token for an organisation that may not be there.                  *)
(***************************************************************************)
EXTENDS OrgLifecycle, TLC

\* Requests of a kind, e-mails and brand slugs differ in nothing but their names.
Symmetry == Permutations(Signups) \cup Permutations(Wizards) \cup Permutations(Seeds)
              \cup Permutations(Emails) \cup Permutations(BrandSlugs)

\* The demo organisation shares no rows with the others: their requests need not mix.
Unmixed == seed = Idle(Seeds) \/ signup = Idle(Signups)

MCTokens == {n \in Slugs : n[2] = MaxSuffix}

===============================================================================
