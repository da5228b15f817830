---------------------------- MODULE RateLimiter ----------------------------
(***************************************************************************)
(* The round tripper of limits/limits.go: one token bucket, shared by all  *)
(* calls of a client, in front of the round tripper that sends them.       *)
(*                                                                         *)
(* A bucket of golang.org/x/time/rate is a number of tokens that grows by  *)
(* one every Period and never exceeds Burst.  It is kept here in ticks:    *)
(* credit is Period times the number of tokens, so it grows by one with    *)
(* every tick, and one request costs Period.  Instants are relative to the *)
(* current one: wait[c] and ttl[c] count down with every tick.             *)
(***************************************************************************)
EXTENDS Integers

CONSTANTS
  Calls,    \* the calls in flight on one client, one goroutine each
  Period,   \* ticks in which the bucket earns one token
  Burst,    \* tokens a full bucket holds
  Lives     \* the lives, in ticks, a new context may be given

NoDeadline == -1  \* the life of a context that never expires by itself

ASSUME PeriodAssumption == Period \in Nat \ {0}
ASSUME BurstAssumption  == Burst \in Nat \ {0}
ASSUME LivesAssumption  == Lives \subseteq Nat \cup {NoDeadline}

VARIABLES
  credit,   \* what the bucket holds; negative when tokens are owed to waiters
  horizon,  \* ticks until the latest reservation is due, 0 once it is past
  wait,     \* wait[c]: ticks until c's reservation is due, Overdue when past
  ttl,      \* ttl[c]: ticks c's context has left, 0 once it is done
  turn      \* turn[c]: where c stands in RoundTrip

limiterVars == <<credit, horizon, wait, ttl, turn>>

Overdue == -1
Cap     == Burst * Period

Larger(a, b)  == IF a >= b THEN a ELSE b
Smaller(a, b) == IF a <= b THEN a ELSE b

LimiterTypeOK ==
  /\ credit \in Int /\ credit <= Cap
  /\ horizon \in Nat
  /\ wait \in [Calls -> Nat \cup {Overdue}]
  /\ ttl  \in [Calls -> Nat \cup {NoDeadline}]
  /\ turn \in [Calls -> {"idle", "waiting", "granted", "refused"}]

\* rate.NewLimiter(limits.AtlasRateLimit, 5): the bucket starts full.
LimiterInit ==
  /\ credit  = Cap
  /\ horizon = 0
  /\ wait = [c \in Calls |-> Overdue]
  /\ ttl  = [c \in Calls |-> NoDeadline]
  /\ turn = [c \in Calls |-> "idle"]

(***************************************************************************)
(* Limiter.Wait.                                                           *)
(***************************************************************************)
\* How long a reservation made now has to wait for its token.
Delay == Larger(0, Period - credit)

\* Mutant of Deadline: Wait is given context.Background().
DeadlineUnseen(c) == NoDeadline

\* What the context that Wait is given, that of the request, has left.
Deadline(c) == ttl[c]

ContextDone(c) == Deadline(c) = 0

\* Wait turns a context that is already done, or ends before its token, away.
Affordable(c) ==
  ~ContextDone(c) /\ (Deadline(c) = NoDeadline \/ Delay <= Deadline(c))

\* Mutant of Reserve: every round trip has a copy of the limiter.
ReserveFromCopy(c) ==
  /\ turn[c] = "idle"
  /\ Affordable(c)
  /\ turn' = [turn EXCEPT ![c] = "granted"]
  /\ UNCHANGED <<credit, horizon, wait, ttl>>

\* A reservation is due after Delay: at once, or once a timer has fired.
Reserve(c) ==
  /\ turn[c] = "idle"
  /\ Affordable(c)
  /\ credit'  = credit - Period
  /\ horizon' = Delay
  /\ wait' = [wait EXCEPT ![c] = IF Delay = 0 THEN Overdue ELSE Delay]
  /\ turn' = [turn EXCEPT ![c] = IF Delay = 0 THEN "granted" ELSE "waiting"]
  /\ UNCHANGED ttl

Refuse(c) ==
  /\ turn[c] = "idle"
  /\ ~Affordable(c)
  /\ turn' = [turn EXCEPT ![c] = "refused"]
  /\ UNCHANGED <<credit, horizon, wait, ttl>>

Fire(c) ==
  /\ turn[c] = "waiting"
  /\ wait[c] <= 0
  /\ wait' = [wait EXCEPT ![c] = Overdue]
  /\ turn' = [turn EXCEPT ![c] = "granted"]
  /\ UNCHANGED <<credit, horizon, ttl>>

\* Mutant of Restored: the whole token, although later waiters count on it.
RestoredWhole(c) == IF wait[c] = Overdue THEN 0 ELSE Period

\* Reservation.CancelAt gives back the token, less what was reserved behind it.
Restored(c) ==
  IF wait[c] = Overdue THEN 0 ELSE Larger(0, Period - (horizon - wait[c]))

Cancel(c) ==
  /\ turn[c] = "waiting"
  /\ ContextDone(c)
  /\ credit'  = Smaller(Cap, credit + Restored(c))
  /\ horizon' = IF wait[c] = horizon /\ horizon >= Period
                THEN horizon - Period ELSE horizon
  /\ wait' = [wait EXCEPT ![c] = Overdue]
  /\ turn' = [turn EXCEPT ![c] = "refused"]
  /\ UNCHANGED ttl

\* The inner round tripper, or the error of Wait, returns to the caller.
Return(c) ==
  /\ turn[c] \in {"granted", "refused"}
  /\ turn' = [turn EXCEPT ![c] = "idle"]
  /\ UNCHANGED <<credit, horizon, wait, ttl>>

(***************************************************************************)
(* The callers' contexts, and time.                                        *)
(***************************************************************************)
NewContext(c, life) ==
  /\ turn[c] = "idle"
  /\ ttl' = [ttl EXCEPT ![c] = life]
  /\ UNCHANGED <<credit, horizon, wait, turn>>

CancelContext(c) ==
  /\ ~ContextDone(c)
  /\ ttl' = [ttl EXCEPT ![c] = 0]
  /\ UNCHANGED <<credit, horizon, wait, turn>>

\* Mutant of Refilled: tokens are earned past a full bucket.
RefilledPastFull == credit + 1

Refilled == Smaller(Cap, credit + 1)

\* Time does not wait for a timer's goroutine: a grant may come late.
Tick ==
  /\ credit'  = Refilled
  /\ horizon' = Larger(0, horizon - 1)
  /\ wait' = [c \in Calls |-> Larger(Overdue, wait[c] - 1)]
  /\ ttl'  = [c \in Calls |-> IF ttl[c] \in {0, NoDeadline} THEN ttl[c]
                              ELSE ttl[c] - 1]
  /\ UNCHANGED turn

LimiterStep(c) == Reserve(c) \/ Refuse(c) \/ Fire(c) \/ Cancel(c)

LimiterNext ==
  \/ \E c \in Calls : LimiterStep(c) \/ Return(c) \/ CancelContext(c)
  \/ \E c \in Calls, life \in Lives : NewContext(c, life)
  \/ Tick

LimiterSpec == LimiterInit /\ [][LimiterNext]_limiterVars

=============================================================================
