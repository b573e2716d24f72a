---------------------------- MODULE WindowLimiter ----------------------------
(***************************************************************************)
(* What the token bucket promises: in each one-minute window of the clock  *)
(* callers receive at most Limit tokens.  Windows alternate between two    *)
(* slots, the current window and the previous one, because a caller may    *)
(* still be served against the window in which it read the clock.          *)
(***************************************************************************)
EXTENDS Integers

CONSTANTS Limit,      \* tokens a window may hand out
          Requests    \* the sizes a caller may ask for

VARIABLES current,    \* the slot of the window the clock is in
          avail       \* tokens left in each of the two live windows

limiterVars == <<current, avail>>

Slots == {0, 1}

LimiterInit ==
  /\ current = 0
  /\ avail = [k \in Slots |-> Limit]

\* Hand r tokens out of window k, which must still hold them.
Grant(k, r) ==
  /\ r <= avail[k]
  /\ avail' = [avail EXCEPT ![k] = @ - r]
  /\ UNCHANGED current

\* The next minute starts: the older slot becomes a fresh window.
NewWindow ==
  /\ current' = 1 - current
  /\ avail' = [avail EXCEPT ![1 - current] = Limit]

LimiterNext ==
  \/ \E k \in Slots, r \in Requests : Grant(k, r)
  \/ NewWindow

LimiterSpec == LimiterInit /\ [][LimiterNext]_limiterVars

===============================================================================
