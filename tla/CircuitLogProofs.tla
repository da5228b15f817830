-------------------------- MODULE CircuitLogProofs --------------------------
(***************************************************************************)
(* The event log of CircuitLog, for any circuits, frequency and buffer.    *)
(***************************************************************************)
EXTENDS CircuitLog, TLAPS

\* The events received since the last line, and those on their way, are fewer than
\* the seconds since and a full buffer, until the next event is logged anyway.
Spaced ==
  \A k \in Circuits :
    elapsed[k] <= LogFrequency => unlogged[k] + Len(queue[k]) < elapsed[k] + Buffer

LogInv == LogTypeOK /\ LogShowsState /\ NotSilent /\ Spaced

\* Nothing has been heard of any circuit.
LEMMA InitLogInv == LogInit => LogInv
<1> SUFFICES ASSUME LogInit PROVE LogInv
  OBVIOUS
<1> USE LogFrequencyAssumption, BufferAssumption
<1>1. /\ circuit = [k \in Circuits |-> "none"] /\ seen = circuit /\ logged = circuit
      /\ queue = [k \in Circuits |-> <<>>] /\ stream = "none"
      /\ elapsed = [k \in Circuits |-> 0] /\ unlogged = elapsed
  BY DEF LogInit
<1>2. LogTypeOK
  <2>1. circuit \in [Circuits -> States \cup {"none"}]
    BY <1>1
  <2>2. queue \in [Circuits -> Seq(States)] /\ \A k \in Circuits : Len(queue[k]) = 0
    BY <1>1
  <2>3. elapsed \in [Circuits -> 0..(LogFrequency + 1)] /\ unlogged \in [Circuits -> Nat]
    BY <1>1
  <2> QED BY <1>1, <2>1, <2>2, <2>3 DEF LogTypeOK
<1>3. NotSilent /\ Spaced
  BY <1>1 DEF NotSilent, Spaced
<1> QED BY <1>1, <1>2, <1>3 DEF LogInv, LogShowsState

\* A second passes, and at most one event of each circuit gets on its way.
LEMMA SecondInv ==
  ASSUME LogInv, NEW published \in SUBSET Circuits, Second(published)
  PROVE  LogInv'
<1> USE LogFrequencyAssumption, BufferAssumption
<1>1. /\ stream' = stream /\ circuit' = circuit /\ seen' = seen
      /\ logged' = logged /\ unlogged' = unlogged
  BY DEF Second
<1>2. ASSUME NEW k \in Circuits
      PROVE  /\ queue'[k] \in Seq(States) /\ Len(queue'[k]) <= Buffer
             /\ queue'[k] # <<>> => stream = "up"
             /\ Len(queue'[k]) <= Len(queue[k]) + 1
  <2>1. /\ queue[k] \in Seq(States) /\ Len(queue[k]) <= Buffer
        /\ queue[k] # <<>> => stream = "up"
    BY DEF LogInv, LogTypeOK
  <2>2. CASE k \in published
    <3>1. /\ queue'[k] = Append(queue[k], circuit[k]) /\ stream = "up"
          /\ circuit[k] \in States /\ Len(queue[k]) < Buffer
      BY <2>2 DEF Second, LogInv, LogTypeOK
    <3> QED BY <2>1, <3>1
  <2>3. CASE k \notin published
    <3>1. queue'[k] = queue[k]
      BY <2>3 DEF Second
    <3> QED BY <2>1, <3>1
  <2> QED BY <2>2, <2>3
<1>3. ASSUME NEW k \in Circuits
      PROVE  /\ elapsed[k] \in 0..(LogFrequency + 1)
             /\ elapsed'[k] = IF elapsed[k] > LogFrequency THEN elapsed[k] ELSE elapsed[k] + 1
  BY DEF Second, LogInv, LogTypeOK
<1>4. LogTypeOK'
  <2>1. queue' \in [Circuits -> Seq(States)]
    BY <1>2 DEF Second
  <2>2. elapsed' \in [Circuits -> 0..(LogFrequency + 1)]
    <3>1. elapsed' = [k \in Circuits |-> elapsed'[k]]
      BY DEF Second
    <3> QED BY <1>3, <3>1
  <2> QED BY <1>1, <1>2, <2>1, <2>2 DEF LogInv, LogTypeOK
<1>5. Spaced'
  <2> SUFFICES ASSUME NEW k \in Circuits, elapsed'[k] <= LogFrequency
               PROVE  unlogged'[k] + Len(queue'[k]) < elapsed'[k] + Buffer
    BY DEF Spaced
  <2>1. elapsed[k] <= LogFrequency /\ elapsed'[k] = elapsed[k] + 1
    BY <1>3
  <2>2. unlogged[k] \in Nat /\ unlogged[k] + Len(queue[k]) < elapsed[k] + Buffer
    BY <2>1 DEF LogInv, LogTypeOK, Spaced
  <2>3. Len(queue[k]) \in Nat /\ Len(queue'[k]) \in Nat
    BY <1>2 DEF LogInv, LogTypeOK
  <2> QED BY <1>1, <1>2, <1>3, <2>1, <2>2, <2>3
<1> QED BY <1>1, <1>4, <1>5 DEF LogInv, LogShowsState, NotSilent

\* An event is handled: it is logged, or it is not late.
LEMMA ReceiveInv ==
  ASSUME LogInv, NEW k \in Circuits, Receive(k)
  PROVE  LogInv'
<1> USE LogFrequencyAssumption, BufferAssumption
<1> DEFINE ev == Head(queue[k])
<1> PICK late \in Overdue(k) :
      IF ToLog(k, late)
      THEN /\ logged' = [logged EXCEPT ![k] = ev]
           /\ elapsed' = [elapsed EXCEPT ![k] = 0]
           /\ unlogged' = [unlogged EXCEPT ![k] = 0]
      ELSE /\ unlogged' = [unlogged EXCEPT ![k] = @ + 1]
           /\ UNCHANGED <<logged, elapsed>>
  BY DEF Receive
<1>1. /\ queue[k] # <<>> /\ UNCHANGED <<circuit, stream>>
      /\ seen' = [seen EXCEPT ![k] = ev]
      /\ queue' = [queue EXCEPT ![k] = Tail(@)]
  BY DEF Receive
<1>2. /\ queue[k] \in Seq(States) /\ Len(queue[k]) \in Nat /\ Len(queue[k]) <= Buffer
      /\ stream = "up"
  BY <1>1 DEF LogInv, LogTypeOK
<1>3. /\ ev \in States /\ Tail(queue[k]) \in Seq(States)
      /\ Len(Tail(queue[k])) = Len(queue[k]) - 1 /\ Len(queue[k]) >= 1
  BY <1>1, <1>2
<1> HIDE DEF ev
<1>4. LogTypeOK'
  <2>1. /\ queue' \in [Circuits -> Seq(States)]
        /\ \A j \in Circuits : Len(queue'[j]) <= Buffer /\ (queue'[j] # <<>> => stream' = "up")
    BY <1>1, <1>2, <1>3 DEF LogInv, LogTypeOK
  <2>2. /\ stream' \in {"none", "up", "broken"}
        /\ {circuit', seen', logged'} \subseteq [Circuits -> States \cup {"none"}]
    BY <1>1, <1>3 DEF LogInv, LogTypeOK
  <2>3. /\ elapsed' \in [Circuits -> 0..(LogFrequency + 1)]
        /\ unlogged' \in [Circuits -> Nat]
    <3>1. elapsed \in [Circuits -> 0..(LogFrequency + 1)] /\ unlogged \in [Circuits -> Nat]
      BY DEF LogInv, LogTypeOK
    <3>2. elapsed' = elapsed \/ elapsed' = [elapsed EXCEPT ![k] = 0]
      OBVIOUS
    <3>3. \/ unlogged' = [unlogged EXCEPT ![k] = 0]
          \/ unlogged' = [unlogged EXCEPT ![k] = unlogged[k] + 1]
      OBVIOUS
    <3> QED BY <3>1, <3>2, <3>3
  <2> QED BY <2>1, <2>2, <2>3 DEF LogTypeOK
<1>5. LogShowsState'
  BY <1>1 DEF LogInv, LogTypeOK, LogShowsState, ToLog, ev
<1>6. ~ToLog(k, late) => elapsed[k] <= LogFrequency
  BY DEF ToLog, Overdue
<1>7. Spaced' /\ NotSilent'
  <2> SUFFICES ASSUME NEW j \in Circuits
               PROVE  /\ elapsed'[j] <= LogFrequency =>
                           unlogged'[j] + Len(queue'[j]) < elapsed'[j] + Buffer
                      /\ unlogged'[j] < LogFrequency + Buffer
    BY DEF Spaced, NotSilent
  <2>1. /\ unlogged[j] \in Nat /\ elapsed[j] \in Nat /\ unlogged[j] < LogFrequency + Buffer
        /\ elapsed[j] <= LogFrequency => unlogged[j] + Len(queue[j]) < elapsed[j] + Buffer
    BY DEF LogInv, LogTypeOK, NotSilent, Spaced
  <2>2. CASE j # k
    <3>1. unlogged'[j] = unlogged[j] /\ elapsed'[j] = elapsed[j] /\ queue'[j] = queue[j]
      BY <1>1, <2>2 DEF LogInv, LogTypeOK
    <3> QED BY <2>1, <3>1
  <2>3. CASE j = k
    <3>1. Len(queue'[k]) = Len(queue[k]) - 1
      BY <1>1, <1>3 DEF LogInv, LogTypeOK
    <3>2. CASE ToLog(k, late)
      <4>1. unlogged'[k] = 0 /\ elapsed'[k] = 0
        BY <3>2 DEF LogInv, LogTypeOK
      <4> QED BY <1>2, <2>3, <3>1, <4>1
    <3>3. CASE ~ToLog(k, late)
      <4>1. unlogged'[k] = unlogged[k] + 1 /\ elapsed'[k] = elapsed[k]
        BY <3>3 DEF LogInv, LogTypeOK
      <4>2. /\ unlogged[k] \in Nat /\ elapsed[k] \in Nat /\ elapsed[k] <= LogFrequency
            /\ unlogged[k] + Len(queue[k]) < elapsed[k] + Buffer
        BY <1>6, <2>1, <2>3, <3>3
      <4>3. /\ unlogged'[k] + Len(queue'[k]) < elapsed'[k] + Buffer
            /\ unlogged'[k] < LogFrequency + Buffer
        BY <1>2, <1>3, <3>1, <4>1, <4>2
      <4> QED BY <2>3, <4>3
    <3> QED BY <3>2, <3>3
  <2> QED BY <2>2, <2>3
<1> QED BY <1>4, <1>5, <1>7 DEF LogInv

\* Streams come and go, and so do circuits; what is on its way stays so, or is lost.
LEMMA UnheardInv ==
  ASSUME LogInv,
         \/ Subscribe \/ StreamBreaks \/ StreamResumes \/ StreamEnds
         \/ (\E k \in Circuits : Switch(k)) \/ UNCHANGED logVars
  PROVE  LogInv'
<1>1. UNCHANGED <<seen, elapsed, logged, unlogged>>
  BY DEF Subscribe, StreamBreaks, StreamResumes, StreamEnds, Switch, logVars
<1>2. /\ stream' \in {"none", "up", "broken"}
      /\ \/ queue' = queue /\ (stream' = stream \/ stream # "up")
         \/ queue' = [k \in Circuits |-> <<>>]
  BY DEF LogInv, LogTypeOK, Subscribe, StreamBreaks, StreamResumes, StreamEnds, Switch, logVars
<1>3. circuit' \in [Circuits -> States \cup {"none"}]
  BY DEF LogInv, LogTypeOK, Subscribe, StreamBreaks, StreamResumes, StreamEnds, Switch,
         logVars, States
<1>4. ASSUME NEW k \in Circuits
      PROVE  /\ queue'[k] \in Seq(States) /\ Len(queue'[k]) <= Buffer
             /\ queue'[k] # <<>> => stream' = "up"
             /\ Len(queue'[k]) <= Len(queue[k]) /\ Len(queue[k]) \in Nat
  <2>1. /\ queue[k] \in Seq(States) /\ Len(queue[k]) <= Buffer
        /\ queue[k] # <<>> => stream = "up"
    BY DEF LogInv, LogTypeOK
  <2>2. CASE queue' = [j \in Circuits |-> <<>>]
    <3>1. queue'[k] = <<>>
      BY <2>2
    <3> QED BY <2>1, <3>1, BufferAssumption
  <2> QED BY <1>2, <2>1, <2>2
<1>5. LogTypeOK'
  <2>1. queue' \in [Circuits -> Seq(States)]
    BY <1>2, <1>4 DEF LogInv, LogTypeOK
  <2> QED BY <1>1, <1>2, <1>3, <1>4, <2>1 DEF LogInv, LogTypeOK
<1>6. Spaced'
  <2> SUFFICES ASSUME NEW k \in Circuits, elapsed[k] <= LogFrequency
               PROVE  unlogged[k] + Len(queue'[k]) < elapsed[k] + Buffer
    BY <1>1 DEF Spaced
  <2>1. /\ unlogged[k] \in Nat /\ elapsed[k] \in Nat
        /\ unlogged[k] + Len(queue[k]) < elapsed[k] + Buffer
    BY DEF LogInv, LogTypeOK, Spaced
  <2>2. Len(queue'[k]) \in Nat
    BY <1>4
  <2> QED BY <1>4, <2>1, <2>2, BufferAssumption
<1> QED BY <1>1, <1>5, <1>6 DEF LogInv, LogShowsState, NotSilent

\* The inductive invariant of the log.
THEOREM LogInvariant == LogSpec => []LogInv
<1>1. ASSUME LogInv, [LogNext]_logVars PROVE LogInv'
  BY <1>1, SecondInv, ReceiveInv, UnheardInv DEF LogNext
<1> QED BY <1>1, InitLogInv, PTL DEF LogSpec

\* The log keeps its types, and events only come through a stream that is up.
THEOREM LogTypeCorrect == LogSpec => []LogTypeOK
<1>1. LogInv => LogTypeOK
  BY DEF LogInv
<1> QED BY <1>1, LogInvariant, PTL

\* No change that was seen of a circuit is missing in the log (doer.go:280-293).
THEOREM ChangesLogged == LogSpec => []LogShowsState
<1>1. LogInv => LogShowsState
  BY DEF LogInv
<1> QED BY <1>1, LogInvariant, PTL

\* However large the buffers and whenever the loop stalls, of LogFrequency + Buffer
\* events received of a circuit one is logged (doer.go:295-297).
THEOREM NeverSilent == LogSpec => []NotSilent
<1>1. LogInv => NotSilent
  BY DEF LogInv
<1> QED BY <1>1, LogInvariant, PTL

=============================================================================
