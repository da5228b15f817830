----------------------------- MODULE CircuitLog -----------------------------
(***************************************************************************)
(* The loop that circuitBreakerDoer.init starts once per program           *)
(* (gen-go/client/doer.go): it subscribes to the stream of events that     *)
(* hystrix publishes about its circuits, every second, and logs some of    *)
(* them.                                                                   *)
(*                                                                         *)
(* The circuits and the stream are external: a circuit opens and closes    *)
(* at any time, events may be held up and dropped, and the stream may      *)
(* break.  The loop only ranges over stream.Events: it does not read       *)
(* stream.Errors and closes nothing, so that whether a broken stream       *)
(* comes back, ends or does neither is up to the library.                  *)
(***************************************************************************)
EXTENDS Naturals, Sequences

CONSTANTS
  Circuits,      \* the circuits, one for each address of a client
  LogFrequency,  \* in seconds
  Buffer         \* the events about a circuit that may be held up on their way

ASSUME LogFrequencyAssumption == LogFrequency \in Nat \ {0}
ASSUME BufferAssumption == Buffer \in Nat \ {0}

VARIABLES
  circuit,  \* circuit[k]: "open" or "closed", "none" before a call has used it
  stream,   \* "up" while the loop hears from hystrix, "broken", "none" between streams
  queue,    \* queue[k]: the events about k on their way to the loop, oldest first
  seen,     \* lastEventSeen[k]
  elapsed,  \* the seconds since lastEventLogTime[k], up to LogFrequency + 1
  logged,   \* logged[k]: what the last line about k in the log says
  unlogged  \* unlogged[k]: the events about k received since

logVars == <<circuit, stream, queue, seen, elapsed, logged, unlogged>>

States == {"open", "closed"}

LogTypeOK ==
  /\ stream \in {"none", "up", "broken"}
  /\ {circuit, seen, logged} \subseteq [Circuits -> States \cup {"none"}]
  /\ queue \in [Circuits -> Seq(States)]
  /\ \A k \in Circuits : Len(queue[k]) <= Buffer /\ (queue[k] # <<>> => stream = "up")
  /\ elapsed \in [Circuits -> 0..(LogFrequency + 1)]
  /\ unlogged \in [Circuits -> Nat]

LogInit ==
  /\ stream = "none"
  /\ queue = [k \in Circuits |-> <<>>]
  /\ LET nothing == [k \in Circuits |-> "none"]
     IN circuit = nothing /\ seen = nothing /\ logged = nothing
  /\ LET zero == [k \in Circuits |-> 0] IN elapsed = zero /\ unlogged = zero

\* Calls open and close a circuit, which the first of them has made, closed.
Switch(k) ==
  /\ circuit' = [circuit EXCEPT ![k] = IF @ = "closed" THEN "open" ELSE "closed"]
  /\ UNCHANGED <<stream, queue, seen, elapsed, logged, unlogged>>

\* Every second hystrix publishes the state of each circuit it knows, whether or not
\* the loop has kept up.  Published are the events that get on their way: what finds
\* the buffers full is dropped.
Second(published) ==
  /\ published \subseteq
       {k \in Circuits : stream = "up" /\ circuit[k] # "none" /\ Len(queue[k]) < Buffer}
  /\ queue' = [k \in Circuits |->
       IF k \in published THEN Append(queue[k], circuit[k]) ELSE queue[k]]
  /\ elapsed' = [k \in Circuits |->
       IF elapsed[k] > LogFrequency THEN elapsed[k] ELSE elapsed[k] + 1]
  /\ UNCHANGED <<circuit, stream, seen, logged, unlogged>>

\* At a tick of the loop; one that fails is repeated at the next.
Subscribe ==
  /\ stream = "none"
  /\ stream' = "up"
  /\ UNCHANGED <<circuit, queue, seen, elapsed, logged, unlogged>>

\* Mutant of StreamBreaks: what is on its way is still handled.
StreamBreaksLate ==
  /\ stream = "up"
  /\ stream' = "broken"
  /\ UNCHANGED <<circuit, queue, seen, elapsed, logged, unlogged>>

\* What is on its way is lost, and what was seen is not.
StreamBreaks ==
  /\ stream = "up"
  /\ stream' = "broken"
  /\ queue' = [k \in Circuits |-> <<>>]
  /\ UNCHANGED <<circuit, seen, elapsed, logged, unlogged>>

\* The library connects again behind the same stream.
StreamResumes ==
  /\ stream = "broken"
  /\ stream' = "up"
  /\ UNCHANGED <<circuit, queue, seen, elapsed, logged, unlogged>>

\* The library closes stream.Events, which ends the range over it.
StreamEnds ==
  /\ stream = "broken"
  /\ stream' = "none"
  /\ UNCHANGED <<circuit, queue, seen, elapsed, logged, unlogged>>

\* Seconds are counted by ticks that are not exact: the time since the last line
\* may exceed logFrequency after LogFrequency ticks.
Overdue(k) == {late \in BOOLEAN :
  IF late THEN elapsed[k] >= LogFrequency ELSE elapsed[k] <= LogFrequency}

\* Mutant of ToLog: the last event is compared after it has been overwritten.
ToLogOverwritten(k, late) == seen[k] = "none" \/ late

\* Logged are the first event, a change, and an event after a while.
ToLog(k, late) == seen[k] = "none" \/ seen[k] # Head(queue[k]) \/ late

\* Mutant of Receive: every event restarts the clock.
ReceiveRestart(k) ==
  /\ queue[k] # <<>>
  /\ \E late \in Overdue(k) :
       IF ToLog(k, late)
       THEN /\ logged' = [logged EXCEPT ![k] = Head(queue[k])]
            /\ unlogged' = [unlogged EXCEPT ![k] = 0]
       ELSE /\ unlogged' = [unlogged EXCEPT ![k] = @ + 1]
            /\ UNCHANGED logged
  /\ elapsed' = [elapsed EXCEPT ![k] = 0]
  /\ seen' = [seen EXCEPT ![k] = Head(queue[k])]
  /\ queue' = [queue EXCEPT ![k] = Tail(@)]
  /\ UNCHANGED <<circuit, stream>>

\* The loop handles the oldest event about k, at any moment: after a stall a backlog
\* is handled in an instant.
Receive(k) ==
  /\ queue[k] # <<>>
  /\ \E late \in Overdue(k) :
       IF ToLog(k, late)
       THEN /\ logged' = [logged EXCEPT ![k] = Head(queue[k])]
            /\ elapsed' = [elapsed EXCEPT ![k] = 0]
            /\ unlogged' = [unlogged EXCEPT ![k] = 0]
       ELSE /\ unlogged' = [unlogged EXCEPT ![k] = @ + 1]
            /\ UNCHANGED <<logged, elapsed>>
  /\ seen' = [seen EXCEPT ![k] = Head(queue[k])]
  /\ queue' = [queue EXCEPT ![k] = Tail(@)]
  /\ UNCHANGED <<circuit, stream>>

LogNext ==
  \/ \E k \in Circuits : Switch(k) \/ Receive(k)
  \/ \E published \in SUBSET Circuits : Second(published)
  \/ Subscribe \/ StreamBreaks \/ StreamResumes \/ StreamEnds

LogSpec == LogInit /\ [][LogNext]_logVars

(***************************************************************************)
(* Properties.                                                             *)
(***************************************************************************)
\* The last line about a circuit says what was last seen of it: no change between
\* two events is missed, across subscriptions and the events that were lost with
\* them (doer.go:280-293).
LogShowsState == logged = seen

\* The log is not silent about a circuit that is heard of: of LogFrequency + Buffer
\* events received of it one is logged.  Between two lines come at most the backlog
\* behind the first and one event a second, whenever the loop stalls and catches up,
\* streams break and the ticks of the two clocks fall (doer.go:256, 295-297).
NotSilent == \A k \in Circuits : unlogged[k] < LogFrequency + Buffer

=============================================================================
