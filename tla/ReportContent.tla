---------------------------- MODULE ReportContent -----------------------------
(***************************************************************************)
(* What a weekly report says (services/report_generator.py): the latest    *)
(* score of each cluster in the week it is for and in the week before.     *)
(*                                                                         *)
(* Time is counted in points, two to a day: 2*d is day d up to 23:59:59,   *)
(* 2*d + 1 the fraction of a second that is left of it.                    *)
(***************************************************************************)
EXTENDS Integers

CONSTANTS Clusters,  \* intent cluster slugs
          Week       \* days of a week

ASSUME WeekAssumption == Week \in Nat \ {0}

\* Faulty: the window ends a week after its start instead of six days.
EightDays(d) == 2 * d .. 2 * (d + Week)

\* A window of _assemble that starts with day d: both ends are included, and the second
\* one is 23:59:59.
CurrentWindow(d) == 2 * d .. 2 * (d + Week - 1)
PreviousWindow(d) == 2 * d - 2 * Week .. 2 * d - 2

\* The scores are pairs of a cluster and the point at which it was calculated.
InWindow(S, c, W) == {t \in W : <<c, t>> \in S}

\* _latest_sps_per_cluster.
Latest(S, c, W) == CHOOSE t \in InWindow(S, c, W) : \A u \in InWindow(S, c, W) : u <= t

Seen(S, W) == {c \in Clusters : InWindow(S, c, W) # {}}

Current(S, d) == [c \in Seen(S, CurrentWindow(d)) |-> Latest(S, c, CurrentWindow(d))]

\* A cluster without a score the week before is given this week's.
Before(S, d) ==
  [c \in Seen(S, CurrentWindow(d)) |->
     IF c \in Seen(S, PreviousWindow(d)) THEN Latest(S, c, PreviousWindow(d))
                                         ELSE Latest(S, c, CurrentWindow(d))]

Content(S, d) == [current |-> Current(S, d), previous |-> Before(S, d)]

===============================================================================
