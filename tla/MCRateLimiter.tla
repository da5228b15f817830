---------------------------- MODULE MCRateLimiter ----------------------------
(***************************************************************************)
(* RateLimiterHistory on a small instance.  The log and the clock grow     *)
(* without end: MaxClock and MaxLog bound them.                            *)
(***************************************************************************)
EXTENDS RateLimiterHistory, TLC

CONSTANTS MaxClock, MaxLog, MaxDebt

CallSymmetry == Permutations(Calls)

MCLives == {3, NoDeadline}

Within ==
  /\ clock' <= MaxClock
  /\ Cardinality(log') <= MaxLog
  /\ credit' >= -MaxDebt

MCNext == HistoryNext /\ Within

MCSpec == HistoryInit /\ [][MCNext]_historyVars

=============================================================================
