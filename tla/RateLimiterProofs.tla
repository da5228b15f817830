------------------------- MODULE RateLimiterProofs -------------------------
(***************************************************************************)
(* What RateLimiterHistory promises, for every number of calls, every rate *)
(* and every burst.                                                        *)
(***************************************************************************)
EXTENDS RateLimiterHistory, FiniteSetTheorems, WellFoundedInduction, TLAPS

\* A bucket holds at least one token: no request asks for more than the burst.
LEMMA CapFacts == Cap \in Nat /\ Period \in Nat \ {0} /\ Period <= Cap
<1>1. Period \in Nat \ {0} /\ Burst \in Nat \ {0}
  BY PeriodAssumption, BurstAssumption
<1>2. \A p, b \in Nat \ {0} : b * p \in Nat /\ p <= b * p
  <2> SUFFICES ASSUME NEW p \in Nat \ {0}, NEW b \in Nat \ {0}
               PROVE  b * p \in Nat /\ p <= b * p
    OBVIOUS
  <2>1. b * p = p + (b - 1) * p
    OBVIOUS
  <2>2. (b - 1) * p \in Nat
    OBVIOUS
  <2> QED BY <2>1, <2>2
<1> QED BY <1>1, <1>2 DEF Cap

\* A new limiter satisfies the invariant.
LEMMA InitInv == HistoryInit => HistoryInv
<1> SUFFICES ASSUME HistoryInit PROVE HistoryInv
  OBVIOUS
<1> USE CapFacts DEF HistoryInit, LimiterInit
<1>1. HistoryTypeOK
  <2>1. LimiterTypeOK
    BY DEF LimiterTypeOK, NoDeadline, Overdue
  <2>2. ASSUME NEW c \in Calls PROVE Reservation(c) \in Records
    BY DEF Reservation, Records, Delay, Base, Larger
  <2> QED BY <2>1, <2>2 DEF HistoryTypeOK
<1>2. Held /\ Scheduled /\ DueInTime
  BY DEF Held, Scheduled, DueInTime, Pending, Waiting
<1>3. Settled /\ Earned /\ Ordered
  BY DEF Settled, Earned, Ordered
<1> QED BY <1>1, <1>2, <1>3 DEF HistoryInv

\* What a reservation made now is worth.
LEMMA ReservationFacts ==
  ASSUME HistoryInv, NEW c \in Calls
  PROVE  /\ Delay \in Nat /\ Base \in Int
         /\ Reservation(c) \in Records
         /\ Delay > 0 => Delay = Period - credit
         /\ Delay = 0 => credit >= Period
BY CapFacts DEF HistoryInv, HistoryTypeOK, LimiterTypeOK, Delay, Base,
                Reservation, Records, Larger

\* Making a reservation keeps the invariant.
LEMMA ReserveInv ==
  ASSUME HistoryInv, NEW c \in Calls, ReserveLogged(c)
  PROVE  HistoryInv'
<1> DEFINE new == Reservation(c)
<1> USE CapFacts, ReservationFacts
<1>1. /\ turn[c] = "idle" /\ credit' = credit - Period /\ horizon' = Delay
      /\ wait' = [wait EXCEPT ![c] = IF Delay = 0 THEN Overdue ELSE Delay]
      /\ turn' = [turn EXCEPT ![c] = IF Delay = 0 THEN "granted" ELSE "waiting"]
      /\ ttl' = ttl /\ clock' = clock /\ spent' = spent + Period
      /\ log' = log \cup {new} /\ held' = [held EXCEPT ![c] = new]
  BY DEF ReserveLogged, Reserve
<1>2. /\ credit \in Int /\ credit <= Cap /\ horizon \in Nat
      /\ wait \in [Calls -> Nat \cup {Overdue}]
      /\ ttl \in [Calls -> Nat \cup {NoDeadline}]
      /\ turn \in [Calls -> {"idle", "waiting", "granted", "refused"}]
      /\ clock \in Nat /\ spent \in Int
      /\ log \subseteq Records /\ held \in [Calls -> Records]
  BY DEF HistoryInv, HistoryTypeOK, LimiterTypeOK
<1>3. HistoryTypeOK'
  BY <1>1, <1>2 DEF HistoryTypeOK, LimiterTypeOK
<1>4. Base' = Base
  BY <1>1, <1>2 DEF Base
<1>5. /\ new.call = c /\ new.due = clock + Delay
      /\ new.spent = spent + Period /\ new.base = Base
  BY DEF Reservation
<1>6. Held'
  <2> SUFFICES ASSUME NEW d \in Calls, Waiting(d)'
               PROVE  /\ held'[d] \in log'
                      /\ held'[d].call = d
                      /\ held'[d].due = held'[d].base + held'[d].spent
    BY DEF Held
  <2>1. CASE d = c
    <3>1. Delay > 0
      BY <1>1, <1>2, <2>1 DEF Waiting
    <3>2. held'[d] = new
      BY <1>1, <1>2, <2>1
    <3>3. new.due = new.base + new.spent
      BY <3>1, <1>2, <1>5 DEF Base
    <3> QED BY <3>2, <3>3, <1>1, <1>5, <2>1
  <2>2. CASE d # c
    BY <2>2, <1>1, <1>2 DEF HistoryInv, Held, Waiting
  <2> QED BY <2>1, <2>2
<1>7. ASSUME NEW d \in Calls, d # c
      PROVE  /\ Pending(d)' <=> Pending(d)
             /\ wait'[d] = wait[d] /\ held'[d] = held[d]
  BY <1>1, <1>2, <1>7 DEF Pending, Waiting
<1>8. Scheduled'
  <2> SUFFICES ASSUME NEW d \in Calls, Pending(d)'
               PROVE  /\ held'[d].due = clock + wait'[d]
                      /\ wait'[d] <= Delay
                      /\ wait'[d] <= Period - credit
    BY <1>1, <1>2 DEF Scheduled
  <2>1. CASE d = c
    <3>1. Delay > 0 /\ wait'[d] = Delay /\ held'[d] = new
      BY <1>1, <1>2, <2>1 DEF Pending, Waiting
    <3> QED BY <3>1, <1>5, <1>2
  <2>2. CASE d # c
    <3>1. Pending(d) /\ wait'[d] = wait[d] /\ held'[d] = held[d]
      BY <1>7, <2>2
    <3>2. wait[d] \in Nat
      BY <3>1, <1>2 DEF Pending
    <3>3. held[d].due = clock + wait[d] /\ wait[d] <= -credit
      BY <3>1 DEF HistoryInv, Scheduled
    <3>4. Delay = Period - credit
      BY <3>2, <3>3, <1>2
    <3> QED BY <3>1, <3>2, <3>3, <3>4, <1>2
  <2> QED BY <2>1, <2>2
<1>9. Settled'
  <2> SUFFICES ASSUME NEW r \in log', ~(r.due <= clock)
               PROVE  \E d \in Calls : Pending(d)' /\ r = held'[d]
    BY <1>1 DEF Settled
  <2>1. CASE r = new
    <3>1. Delay > 0
      BY <2>1, <1>2, <1>5
    <3>2. turn'[c] = "waiting" /\ wait'[c] = Delay /\ held'[c] = new
      BY <3>1, <1>1, <1>2
    <3>3. Pending(c)'
      BY <3>1, <3>2 DEF Pending, Waiting, Overdue
    <3> QED BY <3>2, <3>3, <2>1
  <2>2. CASE r # new
    <3>1. PICK d \in Calls : Pending(d) /\ r = held[d]
      BY <2>2, <1>1 DEF HistoryInv, Settled
    <3>2. d # c
      BY <3>1, <1>1 DEF Pending, Waiting
    <3> QED BY <3>1, <3>2, <1>7
  <2> QED BY <2>1, <2>2
<1>10. Earned'
  <2> SUFFICES ASSUME NEW r \in log'
               PROVE  /\ r.spent <= spent + Period
                      /\ r.base <= Base
                      /\ r.base + r.spent <= r.due
                      /\ r.due <= r.base + r.spent + Cap - Period
    BY <1>1, <1>4 DEF Earned
  <2>1. CASE r = new
    BY <2>1, <1>2, <1>5 DEF Base
  <2>2. CASE r \in log
    BY <2>2, <1>2 DEF HistoryInv, Earned, Records
  <2> QED BY <2>1, <2>2, <1>1
<1>11. Ordered'
  <2>1. ASSUME NEW r \in log PROVE Precedes(r, new)
    BY <1>2, <1>5 DEF HistoryInv, Earned, Precedes, Records
  <2>2. \A r, s \in log \cup {new} :
           r = s \/ Precedes(r, s) \/ Precedes(s, r)
    BY <2>1 DEF HistoryInv, Ordered
  <2> QED BY <2>2, <1>1 DEF Ordered, Precedes
<1>12. DueInTime'
  <2> SUFFICES ASSUME NEW d \in Calls, Waiting(d)', ttl[d] > 0
               PROVE  wait'[d] <= ttl[d]
    BY <1>1 DEF DueInTime
  <2>1. CASE d = c
    <3>1. Delay > 0 /\ wait'[d] = Delay
      BY <1>1, <1>2, <2>1 DEF Waiting
    <3>2. Affordable(c)
      BY DEF ReserveLogged, Reserve
    <3> QED BY <3>1, <3>2, <1>2, <2>1 DEF Affordable, ContextDone, Deadline, NoDeadline
  <2>2. CASE d # c
    BY <2>2, <1>1, <1>2 DEF HistoryInv, DueInTime, Waiting
  <2> QED BY <2>1, <2>2
<1> QED BY <1>3, <1>6, <1>8, <1>9, <1>10, <1>11, <1>12 DEF HistoryInv

\* The types of the state, for the lemmas below.
LEMMA Types ==
  ASSUME HistoryInv
  PROVE  /\ credit \in Int /\ credit <= Cap /\ horizon \in Nat
         /\ wait \in [Calls -> Nat \cup {Overdue}]
         /\ ttl \in [Calls -> Nat \cup {NoDeadline}]
         /\ turn \in [Calls -> {"idle", "waiting", "granted", "refused"}]
         /\ clock \in Nat /\ spent \in Int
         /\ log \subseteq Records /\ held \in [Calls -> Records]
         /\ \A c \in Calls : Pending(c) => wait[c] \in Nat
BY DEF HistoryInv, HistoryTypeOK, LimiterTypeOK, Pending

\* Two calls that wait are due at least one Period apart.
LEMMA WaitersApart ==
  ASSUME HistoryInv, NEW c \in Calls, NEW d \in Calls, c # d,
         Pending(c), Pending(d)
  PROVE  wait[c] + Period <= wait[d] \/ wait[d] + Period <= wait[c]
<1>1. /\ held[c] \in log /\ held[d] \in log /\ held[c] # held[d]
      /\ held[c].due = held[c].base + held[c].spent
      /\ held[d].due = held[d].base + held[d].spent
  BY DEF HistoryInv, Held, Pending
<1>2. Precedes(held[c], held[d]) \/ Precedes(held[d], held[c])
  BY <1>1 DEF HistoryInv, Ordered
<1>3. held[c].due = clock + wait[c] /\ held[d].due = clock + wait[d]
  BY DEF HistoryInv, Scheduled
<1>4. held[c] \in Records /\ held[d] \in Records
  BY Types
<1>5. wait[c] \in Nat /\ wait[d] \in Nat /\ clock \in Nat /\ Period \in Nat
  BY Types, CapFacts
<1> QED BY <1>1, <1>2, <1>3, <1>4, <1>5 DEF Precedes, Records

\* The token given back is never one that a later reservation rests on.
LEMMA RestoredFacts ==
  ASSUME HistoryInv, NEW c \in Calls, Waiting(c)
  PROVE  /\ Restored(c) \in Nat /\ Restored(c) <= Period
         /\ Restored(c) > 0 =>
              \A r \in log : r = held[c] \/ r.spent + Period <= spent
<1> USE CapFacts, Types
<1>1. CASE wait[c] = Overdue
  BY <1>1 DEF Restored
<1>2. CASE wait[c] # Overdue
  <2>1. Pending(c) /\ wait[c] \in Nat
    BY <1>2 DEF Pending
  <2>2. wait[c] <= horizon /\ held[c].due = clock + wait[c]
    BY <2>1 DEF HistoryInv, Scheduled
  <2>3. Restored(c) = Larger(0, Period - (horizon - wait[c]))
    BY <1>2 DEF Restored
  <2>4. Restored(c) \in Nat /\ Restored(c) <= Period
    BY <2>1, <2>2, <2>3 DEF Larger
  <2>5. ASSUME Restored(c) > 0, NEW r \in log, r # held[c]
        PROVE  r.spent + Period <= spent
    <3>1. horizon < wait[c] + Period
      BY <2>1, <2>3, <2>5 DEF Larger
    <3>2. r.due <= clock + horizon
      <4>1. CASE r.due <= clock
        BY <4>1 DEF Records
      <4>2. CASE \E d \in Calls : Pending(d) /\ r = held[d]
        BY <4>2 DEF HistoryInv, Scheduled
      <4> QED BY <4>1, <4>2 DEF HistoryInv, Settled
    <3>3. /\ held[c] \in log /\ held[c].due = held[c].base + held[c].spent
          /\ held[c].spent <= spent /\ r.base + r.spent <= r.due
      BY <2>1 DEF HistoryInv, Held, Earned, Pending
    <3>4. r \in Records /\ held[c] \in Records
      OBVIOUS
    <3>5. ~Precedes(held[c], r)
      BY <2>1, <2>2, <3>1, <3>2, <3>3, <3>4 DEF Precedes, Records
    <3>6. Precedes(r, held[c])
      BY <2>5, <3>3, <3>5 DEF HistoryInv, Ordered
    <3> QED BY <3>3, <3>4, <3>6 DEF Precedes, Records
  <2> QED BY <2>4, <2>5
<1> QED BY <1>1, <1>2

\* Cancelling one keeps the invariant.
LEMMA CancelInv ==
  ASSUME HistoryInv, NEW c \in Calls, CancelLogged(c)
  PROVE  HistoryInv'
<1> DEFINE R == Restored(c)
<1> USE CapFacts, Types
<1>1. /\ Waiting(c) /\ ttl[c] = 0
      /\ credit' = Smaller(Cap, credit + R)
      /\ horizon' = IF wait[c] = horizon /\ horizon >= Period
                    THEN horizon - Period ELSE horizon
      /\ wait' = [wait EXCEPT ![c] = Overdue]
      /\ turn' = [turn EXCEPT ![c] = "refused"]
      /\ ttl' = ttl /\ clock' = clock /\ held' = held
      /\ spent' = spent - R /\ log' = log \ {held[c]}
  BY DEF CancelLogged, Cancel, Waiting, ContextDone, Deadline
<1>2. /\ R \in Nat /\ R <= Period
      /\ R > 0 => \A r \in log' : r.spent + Period <= spent
  BY <1>1, RestoredFacts
<1>3. /\ credit' \in Int /\ credit' <= Cap /\ credit' <= credit + R
      /\ horizon' \in Nat
  BY <1>1, <1>2 DEF Smaller
<1>4. HistoryTypeOK'
  BY <1>1, <1>2, <1>3 DEF HistoryTypeOK, LimiterTypeOK
<1>5. Base' \in Int /\ Base \in Int /\ Base <= Base'
  BY <1>1, <1>2, <1>3 DEF Base
<1>6. ASSUME NEW d \in Calls, Waiting(d)'
      PROVE  d # c /\ Waiting(d) /\ wait'[d] = wait[d] /\ held[d] # held[c]
  <2>1. d # c /\ Waiting(d) /\ wait'[d] = wait[d]
    BY <1>1, <1>6 DEF Waiting
  <2> QED BY <2>1, <1>1 DEF HistoryInv, Held
<1>7. Held'
  BY <1>1, <1>6 DEF HistoryInv, Held
<1>8. Scheduled'
  <2> SUFFICES ASSUME NEW d \in Calls, Pending(d)'
               PROVE  /\ held[d].due = clock + wait[d]
                      /\ wait[d] <= horizon'
                      /\ wait[d] <= -credit'
    BY <1>1, <1>6 DEF Scheduled, Pending
  <2>1. d # c /\ Pending(d) /\ wait[d] \in Nat
    BY <1>6 DEF Pending
  <2>2. held[d].due = clock + wait[d] /\ wait[d] <= horizon /\ wait[d] <= -credit
    BY <2>1 DEF HistoryInv, Scheduled
  <2>3. CASE wait[c] = Overdue
    BY <2>1, <2>2, <2>3, <1>1, <1>3 DEF Restored, Overdue
  <2>4. CASE wait[c] # Overdue
    <3>1. Pending(c) /\ wait[c] \in Nat
      BY <2>4, <1>1 DEF Pending
    <3>2. wait[c] <= horizon /\ wait[c] <= -credit
      BY <3>1 DEF HistoryInv, Scheduled
    <3>3. wait[c] + Period <= wait[d] \/ wait[d] + Period <= wait[c]
      BY <2>1, <3>1, WaitersApart
    <3>4. CASE wait[d] + Period <= wait[c]
      BY <2>1, <2>2, <3>1, <3>2, <3>4, <1>1, <1>2, <1>3
    <3>5. CASE wait[c] + Period <= wait[d]
      <4>1. R = 0
        BY <2>1, <2>2, <2>4, <3>1, <3>5 DEF Restored, Larger
      <4> QED BY <4>1, <2>1, <2>2, <3>1, <3>5, <1>1, <1>3
    <3> QED BY <3>3, <3>4, <3>5
  <2> QED BY <2>2, <2>3, <2>4
<1>9. Settled'
  BY <1>1 DEF HistoryInv, Settled, Pending, Waiting
<1>10. Earned'
  <2> SUFFICES ASSUME NEW r \in log'
               PROVE  /\ r.spent <= spent'
                      /\ r.base <= Base'
                      /\ r.base + r.spent <= r.due
                      /\ r.due <= r.base + r.spent + Cap - Period
    BY DEF Earned
  <2>1. r \in log /\ r \in Records
    BY <1>1
  <2> QED BY <2>1, <1>1, <1>2, <1>5 DEF HistoryInv, Earned, Records
<1>11. Ordered'
  BY <1>1 DEF HistoryInv, Ordered, Precedes
<1>12. DueInTime'
  BY <1>1, <1>6 DEF HistoryInv, DueInTime
<1> QED BY <1>4, <1>7, <1>8, <1>9, <1>10, <1>11, <1>12 DEF HistoryInv

\* The passing of time keeps the invariant.
LEMMA TickInv ==
  ASSUME HistoryInv, TickLogged
  PROVE  HistoryInv'
<1> USE CapFacts, Types
<1>1. /\ credit' = Smaller(Cap, credit + 1)
      /\ horizon' = Larger(0, horizon - 1)
      /\ wait' = [c \in Calls |-> Larger(Overdue, wait[c] - 1)]
      /\ ttl' = [c \in Calls |-> IF ttl[c] \in {0, NoDeadline} THEN ttl[c]
                                  ELSE ttl[c] - 1]
      /\ turn' = turn /\ clock' = clock + 1
      /\ spent' = spent /\ log' = log /\ held' = held
  BY DEF TickLogged, Tick, Refilled
<1>2. /\ credit' \in Int /\ credit' <= Cap /\ credit' <= credit + 1
      /\ horizon' \in Nat /\ horizon' >= horizon - 1
  BY <1>1 DEF Smaller, Larger
<1>3. ASSUME NEW c \in Calls
      PROVE  /\ wait'[c] \in Nat \cup {Overdue}
             /\ ttl'[c] \in Nat \cup {NoDeadline}
  BY <1>1 DEF Larger, Overdue, NoDeadline
<1>4. HistoryTypeOK'
  BY <1>1, <1>2, <1>3 DEF HistoryTypeOK, LimiterTypeOK
<1>5. Base' \in Int /\ Base \in Int /\ Base <= Base'
  BY <1>1, <1>2 DEF Base
<1>6. ASSUME NEW c \in Calls
      PROVE  /\ Waiting(c)' <=> Waiting(c)
             /\ Pending(c)' => Pending(c) /\ wait'[c] = wait[c] - 1
             /\ Pending(c) /\ wait[c] > 0 => Pending(c)'
  BY <1>1 DEF Waiting, Pending, Larger, Overdue
<1>7. Held'
  BY <1>1, <1>6 DEF HistoryInv, Held
<1>8. Scheduled'
  <2> SUFFICES ASSUME NEW c \in Calls, Pending(c)'
               PROVE  /\ held[c].due = (clock + 1) + wait'[c]
                      /\ wait'[c] <= horizon'
                      /\ wait'[c] <= -credit'
    BY <1>1 DEF Scheduled
  <2>1. Pending(c) /\ wait'[c] = wait[c] - 1 /\ wait[c] \in Nat
    BY <1>6
  <2>2. held[c].due = clock + wait[c] /\ wait[c] <= horizon /\ wait[c] <= -credit
    BY <2>1 DEF HistoryInv, Scheduled
  <2> QED BY <2>1, <2>2, <1>2
<1>9. Settled'
  <2> SUFFICES ASSUME NEW r \in log, ~(r.due <= clock + 1)
               PROVE  \E c \in Calls : Pending(c)' /\ r = held[c]
    BY <1>1 DEF Settled
  <2>1. PICK c \in Calls : Pending(c) /\ r = held[c]
    BY DEF HistoryInv, Settled, Records
  <2>2. wait[c] > 0
    BY <2>1 DEF HistoryInv, Scheduled
  <2> QED BY <2>1, <2>2, <1>6
<1>10. Earned'
  BY <1>1, <1>5 DEF HistoryInv, Earned, Records
<1>11. Ordered'
  BY <1>1 DEF HistoryInv, Ordered, Precedes
<1>12. DueInTime'
  <2> SUFFICES ASSUME NEW c \in Calls, Waiting(c)', ttl'[c] > 0
               PROVE  wait'[c] <= ttl'[c]
    BY DEF DueInTime
  <2>1. ttl[c] > 0 /\ ttl'[c] = ttl[c] - 1
    BY <1>1 DEF NoDeadline
  <2>2. wait[c] <= ttl[c]
    BY <2>1, <1>6 DEF HistoryInv, DueInTime
  <2>3. wait'[c] = Larger(Overdue, wait[c] - 1)
    BY <1>1
  <2> QED BY <2>1, <2>2, <2>3, <1>3 DEF Larger, Overdue, NoDeadline
<1> QED BY <1>4, <1>7, <1>8, <1>9, <1>10, <1>11, <1>12 DEF HistoryInv

\* So do the steps that make and cancel no reservation.
LEMMA UnloggedInv ==
  ASSUME HistoryInv, Unlogged
  PROVE  HistoryInv'
<1> USE CapFacts, Types
<1>1. /\ clock' = clock /\ spent' = spent /\ log' = log /\ held' = held
      /\ credit' = credit /\ horizon' = horizon
  BY DEF Unlogged, Refuse, Fire, Return, CancelContext, NewContext
<1>2. Earned' /\ Ordered'
  BY <1>1 DEF HistoryInv, Earned, Ordered, Precedes, Base
<1>3. CASE \E c \in Calls : Fire(c)
  <2>1. PICK c \in Calls : Fire(c)
    BY <1>3
  <2>2. /\ Waiting(c) /\ wait[c] <= 0 /\ ttl' = ttl
        /\ wait' = [wait EXCEPT ![c] = Overdue]
        /\ turn' = [turn EXCEPT ![c] = "granted"]
    BY <2>1 DEF Fire, Waiting
  <2>3. HistoryTypeOK'
    BY <2>2, <1>1 DEF HistoryTypeOK, LimiterTypeOK
  <2>4. ASSUME NEW d \in Calls
        PROVE  /\ Waiting(d)' <=> Waiting(d) /\ d # c
               /\ d # c => wait'[d] = wait[d]
               /\ Pending(d)' <=> Pending(d) /\ d # c
    BY <2>2 DEF Waiting, Pending
  <2>5. Held' /\ Scheduled' /\ DueInTime'
    BY <2>2, <2>4, <1>1 DEF HistoryInv, Held, Scheduled, DueInTime
  <2>6. Settled'
    <3> SUFFICES ASSUME NEW r \in log, ~(r.due <= clock)
                 PROVE  \E d \in Calls : Pending(d)' /\ r = held[d]
      BY <1>1 DEF Settled
    <3>1. PICK d \in Calls : Pending(d) /\ r = held[d]
      BY DEF HistoryInv, Settled
    <3>2. d # c
      BY <3>1, <2>2 DEF HistoryInv, Scheduled
    <3> QED BY <3>1, <3>2, <2>4
  <2> QED BY <2>3, <2>5, <2>6, <1>2 DEF HistoryInv
<1>4. CASE \E c \in Calls : Refuse(c) \/ Return(c)
  <2>1. PICK c \in Calls : Refuse(c) \/ Return(c)
    BY <1>4
  <2>2. /\ turn[c] # "waiting" /\ wait' = wait /\ ttl' = ttl
        /\ turn' = [turn EXCEPT ![c] = turn'[c]]
        /\ turn'[c] \in {"idle", "refused"}
    BY <2>1 DEF Refuse, Return
  <2>3. ASSUME NEW d \in Calls
        PROVE  (Waiting(d)' <=> Waiting(d)) /\ (Pending(d)' <=> Pending(d))
    BY <2>2 DEF Waiting, Pending
  <2>4. HistoryTypeOK'
    BY <2>2, <1>1 DEF HistoryTypeOK, LimiterTypeOK
  <2>5. Held' /\ Scheduled' /\ DueInTime' /\ Settled'
    BY <2>2, <2>3, <1>1 DEF HistoryInv, Held, Scheduled, DueInTime, Settled
  <2> QED BY <2>4, <2>5, <1>2 DEF HistoryInv
<1>5. CASE \/ \E c \in Calls : CancelContext(c)
           \/ \E c \in Calls, life \in Lives : NewContext(c, life)
  <2>1. PICK c \in Calls, life \in Nat \cup {NoDeadline} :
          /\ ttl' = [ttl EXCEPT ![c] = life] /\ wait' = wait /\ turn' = turn
          /\ turn[c] = "idle" \/ life = 0
    BY <1>5, LivesAssumption DEF CancelContext, NewContext
  <2>2. HistoryTypeOK'
    BY <2>1, <1>1 DEF HistoryTypeOK, LimiterTypeOK
  <2>3. Held' /\ Scheduled' /\ Settled'
    BY <2>1, <1>1 DEF HistoryInv, Held, Scheduled, Settled, Pending, Waiting
  <2>4. DueInTime'
    BY <2>1, <1>1 DEF HistoryInv, DueInTime, Waiting
  <2> QED BY <2>2, <2>3, <2>4, <1>2 DEF HistoryInv
<1> QED BY <1>3, <1>4, <1>5 DEF Unlogged

\* The inductive invariant holds in every state of the limiter.
THEOREM HistoryInvariant == HistorySpec => []HistoryInv
<1>1. ASSUME HistoryInv, [HistoryNext]_historyVars PROVE HistoryInv'
  <2>1. CASE UNCHANGED historyVars
    BY <1>1, <2>1 DEF historyVars, limiterVars, HistoryInv, HistoryTypeOK,
       LimiterTypeOK, Held, Scheduled, Settled, Earned, Ordered, Precedes,
       DueInTime, Pending, Waiting, Base
  <2>2. CASE HistoryNext
    BY <1>1, <2>2, ReserveInv, CancelInv, TickInv, UnloggedInv DEF HistoryNext
  <2> QED BY <1>1, <2>1, <2>2
<1> QED BY <1>1, InitInv, PTL DEF HistorySpec

\* The types of the limiter's state: no bucket ever holds more than its burst.
THEOREM LimiterTypeCorrect == HistorySpec => []LimiterTypeOK
<1>1. HistoryInv => LimiterTypeOK
  BY DEF HistoryInv, HistoryTypeOK
<1> QED BY <1>1, HistoryInvariant, PTL

\* Every window of the limiter's life keeps the rate (limits.go:13 and 31).
THEOREM RateLimitKept == HistorySpec => []WindowBound
<1>1. HistoryInv => WindowBound
  <2> SUFFICES ASSUME HistoryInv, NEW r \in log, NEW s \in log,
                      r.spent <= s.spent
               PROVE  s.spent - r.spent + Period <= Cap + (s.due - r.due)
    BY DEF WindowBound
  <2>1. r \in Records /\ s \in Records
    BY Types
  <2>2. r.base <= s.base
    <3>1. r = s \/ Precedes(r, s) \/ Precedes(s, r)
      BY DEF HistoryInv, Ordered
    <3> QED BY <2>1, <3>1, CapFacts DEF Precedes, Records
  <2>3. /\ r.due <= r.base + r.spent + Cap - Period
        /\ s.base + s.spent <= s.due
    BY DEF HistoryInv, Earned
  <2> QED BY <2>1, <2>2, <2>3, CapFacts DEF Records
<1> QED BY <1>1, HistoryInvariant, PTL

\* No two requests go ahead on the same token, given back and taken again or not.
THEOREM TokensOwned == HistorySpec => []OwnToken
<1>1. HistoryInv => OwnToken
  BY DEF HistoryInv, Ordered, OwnToken, Precedes
<1> QED BY <1>1, HistoryInvariant, PTL

\* The natural numbers below one another.
Below == {pair \in Nat \X Nat : pair[1] < pair[2]}

\* That order is well-founded: the library says so of numbers, here it is named.
LEMMA BelowWellFounded == IsWellFoundedOn(Below, Nat)
BY NatLessThanWellFounded DEF Below, OpToRel

\* Some element of a set of naturals is the least.
LEMMA Least ==
  ASSUME NEW S \in SUBSET Nat, S # {}
  PROVE  \E m \in S : \A n \in S : m <= n
<1>1. PICK m \in S : \A n \in S : <<n, m>> \notin Below
  BY BelowWellFounded, WFMin
<1>2. ASSUME NEW n \in S PROVE m <= n
  <2>1. ~(n < m)
    BY <1>1 DEF Below
  <2> QED BY <2>1
<1> QED BY <1>2

\* How often p goes into a number.
LEMMA Quotients ==
  ASSUME NEW p \in Nat \ {0}, NEW a \in Nat
  PROVE  a \div p \in Nat /\ p * (a \div p) <= a /\ a < p * (a \div p) + p
OBVIOUS

\* Numbers that lie at least p apart within a span of d: no more than d holds.
LEMMA Spaced ==
  ASSUME NEW p \in Nat \ {0}, NEW d \in Nat, NEW S, NEW at \in [S -> Int],
         \A x, y \in S : x = y \/ at[x] + p <= at[y] \/ at[y] + p <= at[x],
         \A x, y \in S : at[y] - at[x] <= d
  PROVE  Cardinality(S) \in Nat /\ p * Cardinality(S) <= d + p
<1>1. CASE S = {}
  <2>1. Cardinality(S) = 0
    BY <1>1, FS_EmptySet
  <2> QED BY <2>1
<1>2. CASE S # {}
  <2>1. PICK o \in S : \A x \in S : at[o] <= at[x]
    <3>1. PICK z \in S : TRUE
      BY <1>2
    <3> DEFINE T == {at[x] - at[z] + d : x \in S}
    <3>2. T \in SUBSET Nat /\ T # {}
      BY <3>1
    <3>3. PICK m \in T : \A n \in T : m <= n
      BY <3>2, Least
    <3>4. PICK o \in S : m = at[o] - at[z] + d
      BY <3>3
    <3>5. ASSUME NEW x \in S PROVE at[o] <= at[x]
      <4>1. at[x] - at[z] + d \in T
        OBVIOUS
      <4>2. m <= at[x] - at[z] + d
        BY <3>3, <4>1
      <4> QED BY <3>1, <3>4, <4>2
    <3> QED BY <3>5
  <2> DEFINE slot == [x \in S |-> (at[x] - at[o]) \div p]
  <2> DEFINE k == d \div p
  <2>2. k \in Nat /\ p * k <= d /\ IsFiniteSet(0..k) /\ Cardinality(0..k) = k + 1
    <3>1. k \in Nat /\ p * k <= d
      BY Quotients
    <3> HIDE DEF k
    <3>2. IsFiniteSet(0..k) /\ Cardinality(0..k) = IF 0 > k THEN 0 ELSE k - 0 + 1
      BY <3>1, FS_Interval
    <3> QED BY <3>1, <3>2
  <2>3. ASSUME NEW x \in S
        PROVE  /\ at[x] - at[o] \in Nat /\ slot[x] \in 0..k
               /\ p * slot[x] <= at[x] - at[o] /\ at[x] - at[o] < p * slot[x] + p
    <3>1. at[x] - at[o] \in Nat /\ at[x] - at[o] <= d
      BY <2>1
    <3>2. /\ slot[x] \in Nat /\ p * slot[x] <= at[x] - at[o]
          /\ at[x] - at[o] < p * slot[x] + p
      BY <3>1, Quotients
    <3>3. d < p * k + p
      BY Quotients
    <3>4. slot[x] <= k
      <4>1. \A i, j \in Nat : j < i => p * j + p <= p * i
        OBVIOUS
      <4> HIDE DEF slot, k
      <4>2. k < slot[x] => p * k + p <= p * slot[x]
        BY <2>2, <3>2, <4>1
      <4>3. p * k \in Nat /\ p * slot[x] \in Nat
        BY <2>2, <3>2
      <4> QED BY <2>1, <2>2, <3>1, <3>2, <3>3, <4>2, <4>3
    <3> QED BY <2>2, <3>1, <3>2, <3>4
  <2>4. slot \in Injection(S, 0..k)
    <3>1. slot \in [S -> 0..k]
      BY <2>3
    <3>2. ASSUME NEW x \in S, NEW y \in S, slot[x] = slot[y] PROVE x = y
      BY <2>3, <3>2
    <3> QED BY <3>1, <3>2 DEF Injection, IsInjective
  <2>5. IsFiniteSet(S) /\ Cardinality(S) <= k + 1
    BY <2>2, <2>4, FS_Injection
  <2>6. Cardinality(S) \in Nat
    BY <2>5, FS_CardinalityType
  <2>7. \A i, j \in Nat : i <= j + 1 => p * i <= p * j + p
    OBVIOUS
  <2> QED BY <2>2, <2>5, <2>6, <2>7
<1> QED BY <1>1, <1>2

\* As the limiter's users read it: in no window are more requests due than a full bucket and
\* the window's ticks have tokens for.
THEOREM RateKeptAlways == HistorySpec => []RateKept
<1>1. HistoryInv /\ WindowBound /\ OwnToken => RateKept
  <2> SUFFICES ASSUME HistoryInv, WindowBound, OwnToken, NEW r \in log, NEW s \in log,
                      r.due <= s.due
               PROVE  Period * Cardinality({q \in log : r.due <= q.due /\ q.due <= s.due})
                        <= Cap + (s.due - r.due)
    BY DEF RateKept
  <2> DEFINE window == {q \in log : r.due <= q.due /\ q.due <= s.due}
  <2> DEFINE at == [q \in window |-> q.spent]
  <2> DEFINE d == Cap - Period + (s.due - r.due)
  <2>1. ASSUME NEW q \in log PROVE q.due \in Int /\ q.spent \in Int
    BY Types DEF Records
  <2>2. d \in Nat
    BY <2>1, CapFacts
  <2>3. at \in [window -> Int]
    BY <2>1
  <2>4. \A x, y \in window : x = y \/ at[x] + Period <= at[y] \/ at[y] + Period <= at[x]
    BY DEF OwnToken
  <2>5. ASSUME NEW x \in window, NEW y \in window PROVE at[y] - at[x] <= d
    <3>1. CASE x.spent <= y.spent
      <4>1. y.spent - x.spent + Period <= Cap + (y.due - x.due)
        BY <3>1 DEF WindowBound
      <4> QED BY <2>1, <4>1, CapFacts
    <3>2. CASE ~(x.spent <= y.spent)
      BY <2>1, <2>2, <3>2
    <3> QED BY <3>1, <3>2
  <2> HIDE DEF at, d, window
  <2>6. Cardinality(window) \in Nat /\ Period * Cardinality(window) <= d + Period
    BY <2>2, <2>3, <2>4, <2>5, CapFacts, Spaced
  <2>7. d + Period = Cap + (s.due - r.due)
    BY <2>1, CapFacts DEF d
  <2> QED BY <2>6, <2>7 DEF window
<1> QED BY <1>1, HistoryInvariant, RateLimitKept, TokensOwned, PTL

\* Nobody sleeps past the end of its own context.
THEOREM DeadlinesKept == HistorySpec => []DueInTime
<1>1. HistoryInv => DueInTime
  BY DEF HistoryInv
<1> QED BY <1>1, HistoryInvariant, PTL

\* Turns come in the order in which they were asked for.
THEOREM TurnsKept == HistorySpec => []NoOvertaking
<1>1. HistoryInv => NoOvertaking
  <2> SUFFICES ASSUME HistoryInv, NEW c \in Calls, Pending(c)
               PROVE  wait[c] + Period <= Delay
    BY DEF NoOvertaking, Pending
  <2>1. wait[c] <= -credit /\ wait[c] \in Nat
    BY Types DEF HistoryInv, Scheduled
  <2> QED BY <2>1, Types, CapFacts DEF Delay, Larger
<1> QED BY <1>1, HistoryInvariant, PTL

=============================================================================
