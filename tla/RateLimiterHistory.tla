------------------------- MODULE RateLimiterHistory -------------------------
(***************************************************************************)
(* RateLimiter with the history that its promise is about: when each call  *)
(* it let through was due.  The history follows the limiter's steps and    *)
(* never constrains them.                                                  *)
(***************************************************************************)
EXTENDS RateLimiter, FiniteSets

VARIABLES
  clock,  \* ticks since the limiter was made
  spent,  \* credit taken from the bucket so far, less what was given back
  log,    \* the reservations that were not cancelled
  held    \* held[c]: c's latest reservation

historyVars == <<limiterVars, clock, spent, log, held>>

\* The instant from which all credit, had none been capped, has been spent: it
\* moves only when the bucket overflows.
Base == clock - credit - spent

\* The reservation that a call making it now gets.
Reservation(c) ==
  [call  |-> c,
   due   |-> clock + Delay,
   spent |-> spent + Period,  \* what is spent once it is made
   base  |-> Base]

HistoryInit ==
  /\ LimiterInit
  /\ clock = 0
  /\ spent = 0
  /\ log = {}
  /\ held = [c \in Calls |-> Reservation(c)]

ReserveLogged(c) ==
  /\ Reserve(c)
  /\ spent' = spent + Period
  /\ log'   = log \cup {Reservation(c)}
  /\ held'  = [held EXCEPT ![c] = Reservation(c)]
  /\ UNCHANGED clock

CancelLogged(c) ==
  /\ Cancel(c)
  /\ spent' = spent - Restored(c)
  /\ log'   = log \ {held[c]}
  /\ UNCHANGED <<clock, held>>

TickLogged == Tick /\ clock' = clock + 1 /\ UNCHANGED <<spent, log, held>>

Unlogged ==
  /\ \/ \E c \in Calls : Refuse(c) \/ Fire(c) \/ Return(c) \/ CancelContext(c)
     \/ \E c \in Calls, life \in Lives : NewContext(c, life)
  /\ UNCHANGED <<clock, spent, log, held>>

HistoryNext ==
  \/ \E c \in Calls : ReserveLogged(c) \/ CancelLogged(c)
  \/ TickLogged
  \/ Unlogged

HistorySpec == HistoryInit /\ [][HistoryNext]_historyVars

(***************************************************************************)
(* Properties.                                                             *)
(***************************************************************************)
Waiting(c) == turn[c] = "waiting"

\* Between the dues of any two requests let through, no more credit is spent
\* than a full bucket and what is earned between them: every window of the
\* limiter's life keeps the rate AtlasRateLimit, whatever was reserved,
\* cancelled and given back in it (limits.go:31).
WindowBound ==
  \A r, s \in log :
    r.spent <= s.spent => s.spent - r.spent + Period <= Cap + (s.due - r.due)

\* The same as the limiter's users read it: n requests that are due within w ticks
\* never need more tokens than a full bucket and w ticks hold (limits.go:13).
RateKept ==
  \A r, s \in log :
    LET window == {q \in log : r.due <= q.due /\ q.due <= s.due}
    IN  r.due <= s.due => Period * Cardinality(window) <= Cap + (s.due - r.due)

\* A request let through has spent a token of its own: giving back a cancelled
\* one never lets two requests through on the same token.
OwnToken ==
  \A r, s \in log : r = s \/ r.spent + Period <= s.spent
                          \/ s.spent + Period <= r.spent

\* Turns come in the order in which they were asked for: a request that asks now
\* is due at least one Period after every request that is still waiting, even
\* when an earlier one gave up and its token was given back.
NoOvertaking ==
  \A c \in Calls : Waiting(c) /\ wait[c] # Overdue => wait[c] + Period <= Delay

\* Nobody is put to sleep past the end of its own context: whoever waits with a
\* context still alive is due before the context's deadline.
DueInTime ==
  \A c \in Calls :
    Waiting(c) /\ ttl[c] > 0 => wait[c] <= ttl[c]

(***************************************************************************)
(* The inductive invariant behind them, in named parts.                    *)
(***************************************************************************)
Records == [call : Calls, due : Int, spent : Int, base : Int]

HistoryTypeOK ==
  /\ LimiterTypeOK
  /\ clock \in Nat /\ spent \in Int
  /\ log \subseteq Records
  /\ held \in [Calls -> Records]

Pending(c) == Waiting(c) /\ wait[c] # Overdue

\* Who waits holds a reservation of the log, due when its credit is earned.
Held ==
  \A c \in Calls : Waiting(c) =>
    /\ held[c] \in log
    /\ held[c].call = c
    /\ held[c].due = held[c].base + held[c].spent

\* The countdown of a reservation not yet due agrees with its due, with the
\* latest event of the bucket and with the credit the bucket owes.
Scheduled ==
  \A c \in Calls : Pending(c) =>
    /\ held[c].due = clock + wait[c]
    /\ wait[c] <= horizon
    /\ wait[c] <= -credit

\* Every reservation of the log is past its due or still waited for.
Settled ==
  \A r \in log : r.due <= clock \/ \E c \in Calls : Pending(c) /\ r = held[c]

\* No reservation is ahead of the bucket, and each is due once its credit is
\* earned, or later by at most what a full bucket had to spare.
Earned ==
  \A r \in log :
    /\ r.spent <= spent
    /\ r.base <= Base
    /\ r.base + r.spent <= r.due
    /\ r.due <= r.base + r.spent + Cap - Period

\* Reservations are made one after the other, each on credit of its own.
Precedes(r, s) == r.spent + Period <= s.spent /\ r.base <= s.base

Ordered == \A r, s \in log : r = s \/ Precedes(r, s) \/ Precedes(s, r)

HistoryInv ==
  /\ HistoryTypeOK
  /\ Held
  /\ Scheduled
  /\ Settled
  /\ Earned
  /\ Ordered
  /\ DueInTime

=============================================================================
