--------------------------- MODULE JsClientProofs ---------------------------
(***************************************************************************)
(* What JsClient promises, for every number of calls, every limit of its   *)
(* command and every service.                                              *)
(***************************************************************************)
EXTENDS JsClient, FiniteSetTheorems, SequenceTheorems, TLAPS

(***************************************************************************)
(* The inductive invariant.                                                *)
(***************************************************************************)
Settled == [kind : {"pending", "success", "failure", "unknown", "error", "declined"},
            status : Nat]

Typed ==
  /\ stage \in [Calls -> {"new", "attempt", "backoff", "settled", "refused", "done"}]
  /\ DOMAIN request = Calls
  /\ retries \in [Calls -> Nat] /\ wire \in [Calls -> SUBSET Nat]
  /\ reply \in [Calls -> Nat] /\ outcome \in [Calls -> Settled]
  /\ told \in [Calls -> Seq({"result", "error"})] /\ handled \in [Calls -> Nat]

\* The command's executions, and its count of them.
Executions == {c \in Calls : stage[c] \in {"attempt", "backoff", "settled"}}

Counted ==
  /\ IsFiniteSet(Executions)
  /\ running = Cardinality(Executions) /\ running <= MaxConcurrent

\* A call asks for one of its Requests, and is retried as its policy has it: never, when
\* it creates or changes something and the policy is one of the client's own.
Bounded(c) ==
  /\ IF stage[c] = "new" THEN request[c] = NoRequest ELSE request[c] \in Requests[c]
  /\ retries[c] <= Backoffs[request[c].policy]
  /\ OnceOnly(request[c]) => retries[c] = 0

\* Only attempts made are on the wire, and none of a call that has not been made or was
\* declined; a promise is pending, and a reply awaited, as long as the call runs.
Staged(c) ==
  /\ wire[c] \subseteq 0..retries[c]
  /\ outcome[c].kind = "pending" <=> stage[c] \in {"new", "attempt", "backoff"}
  /\ stage[c] = "new" => retries[c] = 0
  /\ stage[c] = "new" \/ outcome[c].kind = "declined" => wire[c] = {}
  /\ reply[c] # Nothing => stage[c] = "attempt"

\* Every attempt made is carried out, on the wire, or neither, and the next is due.
Due(c) == IF stage[c] \in {"new", "backoff"} THEN 1 ELSE 0

Budget(c) == handled[c] + Cardinality(wire[c]) + Due(c) <= retries[c] + 1

\* Unless a caller's policy retries what may still be on its way, the current attempt is
\* the only one on the wire, and it is not once there is a response to it.
Current(c) ==
  ~Unsettled(c) =>
    /\ wire[c] \subseteq {retries[c]}
    /\ reply[c] # Nothing \/ stage[c] = "backoff"
         \/ outcome[c].kind \in {"success", "failure", "unknown"} => wire[c] = {}

\* A response that says success follows what it says, and after one that rejects the
\* current attempt the attempts before it are all there is.
Truthful(c) ==
  reply[c] # Nothing =>
    /\ reply[c] < 300 => handled[c] > 0
    /\ reply[c] \in 300..499 => handled[c] + Cardinality(wire[c]) <= retries[c]

\* A promise that a response has settled says what the switch says of its status.
Switched(c) ==
  outcome[c].kind \in {"success", "failure", "unknown"} =>
    outcome[c].kind = Settlement(request[c].op, outcome[c].status)

CallInv(c) ==
  /\ Bounded(c) /\ Staged(c) /\ Budget(c) /\ Current(c) /\ Truthful(c) /\ Switched(c)

JsInv == Typed /\ Counted /\ \A c \in Calls : CallInv(c)

(***************************************************************************)
(* What is known of requests and statuses.                                 *)
(***************************************************************************)
\* The methods of the 33 operations, and their statuses.
LEMMA RequestFacts ==
  ASSUME NEW c \in Calls, NEW r \in Requests[c]
  PROVE  /\ r.op \in JsOperations /\ r.policy \in DOMAIN Backoffs
         /\ Backoffs[r.policy] \in Nat
         /\ r.callback \in {"none", "returns", "throws"}
<1>1. r \in [op : JsOperations, empty : SUBSET UNION {op.params : op \in JsOperations},
             policy : DOMAIN Backoffs, callback : {"none", "returns", "throws"}]
  BY JsRequestsAssumption
<1>2. r.op \in JsOperations /\ r.policy \in DOMAIN Backoffs
      /\ r.callback \in {"none", "returns", "throws"}
  BY <1>1
<1> QED BY <1>2 DEF Backoffs

\* A success is below 300, and a failure is not.
LEMMA StatusFacts ==
  ASSUME NEW o \in JsOperations
  PROVE  o.success \in {200, 201, 202} /\ o.failures \subseteq 400..500
BY DEF JsOperations, JsOperation, JsQuery, Usual,
   getClusters, createCluster, deleteCluster, getCluster, updateCluster,
   restartPrimaries, getRestoreJobs, createRestoreJob, getSnapshotSchedule,
   updateSnapshotSchedule, getSnapshots, getRestoreJob, getContainers,
   createContainer, getContainer, updateContainer, getDatabaseUsers,
   createDatabaseUser, deleteDatabaseUser, getDatabaseUser, updateDatabaseUser,
   getEvents, getPeers, createPeer, deletePeer, getPeer, updatePeer, getProcesses,
   getProcessDatabases, getProcessDatabaseMeasurements, getProcessDisks,
   getProcessDiskMeasurements, getProcessMeasurements

\* The switch, case by case.
LEMMA SettlementCases ==
  ASSUME NEW o, NEW status
  PROVE  /\ Settlement(o, status) \in {"success", "failure", "unknown"}
         /\ Settlement(o, status) = "success" => status = o.success
         /\ Settlement(o, status) = "failure" => status \in o.failures
<1>1. CASE status = o.success /\ status \notin o.failures
  BY <1>1, Zenon DEF Settlement
<1>2. CASE status # o.success /\ status \in o.failures
  BY <1>2, Zenon DEF Settlement
<1>3. CASE status # o.success /\ status \notin o.failures
  BY <1>3, Zenon DEF Settlement
<1>4. CASE status = o.success /\ status \in o.failures
  BY <1>4, Zenon DEF Settlement
<1> QED BY <1>1, <1>2, <1>3, <1>4

\* The operation of the Go client that an operation of this one stands for.
Alike(op, o) ==
  /\ op.name = o.name /\ op.method = o.method /\ op.query = o.query
  /\ op.params = o.params \ {"port"}
  /\ op.success = o.success /\ op.failures = o.failures

\* Each of the 33 operations of gen-js/index.js has its counterpart in client.go.
LEMMA SameOperations ==
  ASSUME NEW o \in JsOperations
  PROVE  \E op \in Go!Operations : Alike(op, o)
<1> USE DEF Alike, JsOperation, JsQuery, Usual, Group, Cluster, Container, User, Peer,
         Process, Pages, Measures, Go!Operation, Go!Failures, Go!Path, Go!Group,
         Go!Cluster, Go!Container, Go!User, Go!Peer, Go!Process, Go!Pages, Go!Measures
<1>1. /\ Alike(Go!GetClusters, getClusters)
      /\ Alike(Go!CreateCluster, createCluster)
      /\ Alike(Go!DeleteCluster, deleteCluster)
      /\ Alike(Go!GetCluster, getCluster)
      /\ Alike(Go!UpdateCluster, updateCluster)
      /\ Alike(Go!RestartPrimaries, restartPrimaries)
      /\ Alike(Go!GetRestoreJobs, getRestoreJobs)
      /\ Alike(Go!CreateRestoreJob, createRestoreJob)
      /\ Alike(Go!GetSnapshotSchedule, getSnapshotSchedule)
  BY DEF
     Go!GetClusters, Go!CreateCluster, Go!DeleteCluster, Go!GetCluster, Go!UpdateCluster,
     Go!RestartPrimaries, Go!GetRestoreJobs, Go!CreateRestoreJob, Go!GetSnapshotSchedule,
     getClusters, createCluster, deleteCluster, getCluster, updateCluster,
     restartPrimaries, getRestoreJobs, createRestoreJob, getSnapshotSchedule,
     Go!ClusterPaths, Go!ClusterChangePaths, Go!RestoreJobPaths, Go!SnapshotPaths
<1>2. /\ Alike(Go!UpdateSnapshotSchedule, updateSnapshotSchedule)
      /\ Alike(Go!GetSnapshots, getSnapshots)
      /\ Alike(Go!GetRestoreJob, getRestoreJob)
      /\ Alike(Go!GetContainers, getContainers)
      /\ Alike(Go!CreateContainer, createContainer)
      /\ Alike(Go!GetContainer, getContainer)
      /\ Alike(Go!UpdateContainer, updateContainer)
      /\ Alike(Go!GetDatabaseUsers, getDatabaseUsers)
  BY DEF
     Go!UpdateSnapshotSchedule, Go!GetSnapshots, Go!GetRestoreJob, Go!GetContainers,
     Go!CreateContainer, Go!GetContainer, Go!UpdateContainer, Go!GetDatabaseUsers,
     updateSnapshotSchedule, getSnapshots, getRestoreJob, getContainers, createContainer,
     getContainer, updateContainer, getDatabaseUsers, Go!SnapshotPaths, Go!RestoreJobPath,
     Go!ContainerPaths, Go!UserPaths
<1>3. /\ Alike(Go!CreateDatabaseUser, createDatabaseUser)
      /\ Alike(Go!DeleteDatabaseUser, deleteDatabaseUser)
      /\ Alike(Go!GetDatabaseUser, getDatabaseUser)
      /\ Alike(Go!UpdateDatabaseUser, updateDatabaseUser)
      /\ Alike(Go!GetEvents, getEvents)
      /\ Alike(Go!GetPeers, getPeers)
      /\ Alike(Go!CreatePeer, createPeer)
      /\ Alike(Go!DeletePeer, deletePeer)
  BY DEF
     Go!CreateDatabaseUser, Go!DeleteDatabaseUser, Go!GetDatabaseUser,
     Go!UpdateDatabaseUser, Go!GetEvents, Go!GetPeers, Go!CreatePeer, Go!DeletePeer,
     createDatabaseUser, deleteDatabaseUser, getDatabaseUser, updateDatabaseUser,
     getEvents, getPeers, createPeer, deletePeer, Go!UserPaths, Go!OneUserPaths,
     Go!EventPaths, Go!PeerPaths
<1>4. /\ Alike(Go!GetPeer, getPeer)
      /\ Alike(Go!UpdatePeer, updatePeer)
      /\ Alike(Go!GetProcesses, getProcesses)
      /\ Alike(Go!GetProcessDatabases, getProcessDatabases)
      /\ Alike(Go!GetProcessDatabaseMeasurements, getProcessDatabaseMeasurements)
      /\ Alike(Go!GetProcessDisks, getProcessDisks)
      /\ Alike(Go!GetProcessDiskMeasurements, getProcessDiskMeasurements)
      /\ Alike(Go!GetProcessMeasurements, getProcessMeasurements)
  BY DEF
     Go!GetPeer, Go!UpdatePeer, Go!GetProcesses, Go!GetProcessDatabases,
     Go!GetProcessDatabaseMeasurements, Go!GetProcessDisks, Go!GetProcessDiskMeasurements,
     Go!GetProcessMeasurements, getPeer, updatePeer, getProcesses, getProcessDatabases,
     getProcessDatabaseMeasurements, getProcessDisks, getProcessDiskMeasurements,
     getProcessMeasurements, Go!OnePeerPaths, Go!ProcessPaths, Go!DatabaseMeasurementPaths,
     Go!DiskPaths, Go!DiskMeasurementPaths, Go!ProcessMeasurementPaths
<1> QED BY <1>1, <1>2, <1>3, <1>4 DEF JsOperations, Go!Operations

\* Of the same status, two operations that are alike make the same.
LEMMA SwitchesAgree ==
  ASSUME NEW o \in JsOperations, NEW op, Alike(op, o), NEW status
  PROVE  Go!Classify(op, status, TRUE).kind = Settlement(o, status)
<1>1. o.success \notin o.failures
  BY StatusFacts
<1>2. op.success = o.success /\ op.failures = o.failures
  BY DEF Alike
<1>3. CASE status = o.success
  <2>1. Go!Classify(op, status, TRUE).kind = "success"
    BY <1>2, <1>3 DEF Go!Classify, Go!Declared, Go!Decoded, Go!Result
  <2>2. Settlement(o, status) = "success"
    BY <1>1, <1>3, Zenon DEF Settlement
  <2> QED BY <2>1, <2>2
<1>4. CASE status \in o.failures
  <2>1. Go!Classify(op, status, TRUE).kind = "failure"
    BY <1>1, <1>2, <1>4 DEF Go!Classify, Go!Declared, Go!Decoded, Go!Result
  <2>2. Settlement(o, status) = "failure"
    BY <1>1, <1>4, Zenon DEF Settlement
  <2> QED BY <2>1, <2>2
<1>5. CASE status # o.success /\ status \notin o.failures
  <2>1. Go!Classify(op, status, TRUE).kind = "unknown"
    BY <1>2, <1>5 DEF Go!Classify, Go!Declared, Go!Decoded, Go!Result
  <2>2. Settlement(o, status) = "unknown"
    BY <1>5, Zenon DEF Settlement
  <2> QED BY <2>1, <2>2
<1> QED BY <1>3, <1>4, <1>5

(***************************************************************************)
(* One call at a time.                                                     *)
(***************************************************************************)
SameCall(c) ==
  /\ stage'[c] = stage[c] /\ request'[c] = request[c] /\ retries'[c] = retries[c]
  /\ wire'[c] = wire[c] /\ reply'[c] = reply[c] /\ outcome'[c] = outcome[c]
  /\ handled'[c] = handled[c]

\* A call that a step does not concern keeps its part of the invariant.
LEMMA SameCallInv ==
  ASSUME NEW c \in Calls, CallInv(c), SameCall(c)
  PROVE  CallInv(c)'
<1> USE DEF CallInv, SameCall
<1>1. Bounded(c)' /\ Staged(c)' /\ Switched(c)'
  BY DEF Bounded, OnceOnly, Staged, Switched
<1>2. Budget(c)' /\ Truthful(c)'
  BY DEF Budget, Due, Truthful
<1>3. Current(c)'
  BY DEF Current, Unsettled
<1> QED BY <1>1, <1>2, <1>3

\* So a step that concerns one call only has to keep that call's part.
LEMMA OneCallInv ==
  ASSUME JsInv, NEW c \in Calls, Typed', Counted', CallInv(c)',
         \A d \in Calls \ {c} : SameCall(d)
  PROVE  JsInv'
<1>1. ASSUME NEW d \in Calls, d # c PROVE CallInv(d)'
  BY <1>1, SameCallInv DEF JsInv
<1> QED BY <1>1 DEF JsInv

\* The executions are counted as one more starts, while they are the same, and as one ends.
LEMMA CountUp ==
  ASSUME JsInv, NEW c \in Calls, stage[c] = "new", running < MaxConcurrent,
         running' = running + 1, NEW s \in {"attempt", "settled"},
         stage' = [stage EXCEPT ![c] = s]
  PROVE  Counted'
<1>1. Executions' = Executions \cup {c} /\ c \notin Executions
  BY DEF JsInv, Typed, Executions
<1>2. /\ IsFiniteSet(Executions) /\ running = Cardinality(Executions)
      /\ Cardinality(Executions) \in Nat
  BY FS_CardinalityType DEF JsInv, Counted
<1>3. IsFiniteSet(Executions') /\ Cardinality(Executions') = Cardinality(Executions) + 1
  BY <1>1, <1>2, FS_AddElement
<1>4. running' <= MaxConcurrent
  BY <1>2, JsLimitAssumption
<1> QED BY <1>2, <1>3, <1>4 DEF Counted

\* A step that neither takes nor gives back an execution keeps the count.
LEMMA CountSame ==
  ASSUME JsInv, Executions' = Executions, running' = running
  PROVE  Counted'
BY DEF JsInv, Counted

\* A call whose promise is settled gives its execution back.
LEMMA CountDown ==
  ASSUME JsInv, NEW c \in Calls, stage[c] = "settled", running' = running - 1,
         stage' = [stage EXCEPT ![c] = "done"]
  PROVE  Counted'
<1>1. Executions' = Executions \ {c} /\ c \in Executions
  BY DEF JsInv, Typed, Executions
<1>2. /\ IsFiniteSet(Executions) /\ running = Cardinality(Executions)
      /\ running <= MaxConcurrent /\ Cardinality(Executions) \in Nat
  BY FS_CardinalityType DEF JsInv, Counted
<1>3. IsFiniteSet(Executions') /\ Cardinality(Executions') = Cardinality(Executions) - 1
  BY <1>1, <1>2, FS_RemoveElement
<1>4. running' <= MaxConcurrent
  BY <1>2, JsLimitAssumption
<1> QED BY <1>2, <1>3, <1>4 DEF Counted

\* The attempts up to one are finitely many.
LEMMA FiniteInterval == ASSUME NEW n \in Nat PROVE IsFiniteSet(0..n)
BY FS_Interval

\* What is on the wire can be counted.
LEMMA WireFacts ==
  ASSUME JsInv, NEW c \in Calls
  PROVE  /\ IsFiniteSet(wire[c]) /\ Cardinality(wire[c]) \in Nat
         /\ retries[c] \in Nat /\ handled[c] \in Nat /\ reply[c] \in Nat
<1>1. retries[c] \in Nat /\ handled[c] \in Nat /\ reply[c] \in Nat
  BY DEF JsInv, Typed
<1>2. wire[c] \subseteq 0..retries[c]
  BY DEF JsInv, CallInv, Staged
<1>3. IsFiniteSet(wire[c])
  <2>1. IsFiniteSet(0..retries[c])
    BY <1>1, FiniteInterval
  <2> QED BY <1>2, <2>1, FS_Subset
<1> QED BY <1>1, <1>3, FS_CardinalityType

(***************************************************************************)
(* Every step keeps the invariant.                                         *)
(***************************************************************************)
\* A new client.
LEMMA InitJs == Init => JsInv
<1> SUFFICES ASSUME Init PROVE JsInv
  OBVIOUS
<1>1. Typed
  <2>1. Pending \in Settled
    BY DEF Pending, Outcome, Settled, Nothing
  <2>2. <<>> \in Seq({"result", "error"})
    OBVIOUS
  <2>3. told \in [Calls -> Seq({"result", "error"})]
    BY <2>2 DEF Init
  <2>4. DOMAIN request = Calls
    BY DEF Init
  <2>5. /\ stage \in [Calls -> {"new", "attempt", "backoff", "settled", "refused", "done"}]
        /\ retries \in [Calls -> Nat] /\ wire \in [Calls -> SUBSET Nat]
        /\ reply \in [Calls -> Nat] /\ handled \in [Calls -> Nat]
    BY DEF Init, Nothing
  <2>6. outcome \in [Calls -> Settled]
    BY <2>1 DEF Init
  <2> QED BY <2>3, <2>4, <2>5, <2>6 DEF Typed
<1>2. Counted
  <2>1. Executions = {}
    BY DEF Init, Executions
  <2> QED BY <2>1, FS_EmptySet, JsLimitAssumption DEF Counted, Init
<1>3. ASSUME NEW c \in Calls PROVE CallInv(c)
  <2>1. /\ stage[c] = "new" /\ request[c] = NoRequest /\ retries[c] = 0 /\ wire[c] = {}
        /\ reply[c] = Nothing /\ outcome[c] = Pending /\ handled[c] = 0
    BY DEF Init
  <2>2. Cardinality(wire[c]) = 0
    BY <2>1, FS_EmptySet
  <2>3. Bounded(c) /\ Staged(c) /\ Switched(c)
    BY <2>1 DEF Bounded, NoRequest, Backoffs, OnceOnly, Staged, Switched, Pending, Outcome
  <2>4. Budget(c)
    BY <2>1, <2>2 DEF Budget, Due
  <2>5. Current(c) /\ Truthful(c)
    BY <2>1 DEF Current, Truthful, Pending, Outcome
  <2> QED BY <2>3, <2>4, <2>5 DEF CallInv
<1> QED BY <1>1, <1>2, <1>3 DEF JsInv

\* Making a call.
LEMMA CallKeeps ==
  ASSUME JsInv, NEW c \in Calls, Call(c)
  PROVE  JsInv'
<1>1. PICK r \in Requests[c] :
        /\ request' = [request EXCEPT ![c] = r]
        /\ Reject(c) \/ Decline(c, r) \/ Execute(c, r)
  BY DEF Call
<1>2. stage[c] = "new" /\ UNCHANGED <<retries, reply, told, handled>>
  BY DEF Call
<1>3. /\ Typed /\ retries[c] = 0 /\ wire[c] = {} /\ reply[c] = Nothing /\ handled[c] = 0
      /\ outcome[c].kind = "pending"
  <2>1. handled[c] + Cardinality(wire[c]) + 1 <= retries[c] + 1
    BY <1>2 DEF JsInv, CallInv, Budget, Due
  <2>2. retries[c] = 0 /\ wire[c] = {} /\ reply[c] = Nothing /\ outcome[c].kind = "pending"
    BY <1>2 DEF JsInv, CallInv, Staged
  <2> QED BY <2>1, <2>2, WireFacts DEF JsInv
<1>4. PICK s \in {"refused", "settled", "attempt"},
           o \in {outcome[c], Outcome("declined", Nothing)},
           w \in {{}, {0}} :
        /\ stage' = [stage EXCEPT ![c] = s]
        /\ outcome' = [outcome EXCEPT ![c] = o] /\ wire' = [wire EXCEPT ![c] = w]
        /\ IF s = "attempt" THEN o = outcome[c] /\ w = {0}
           ELSE o = Outcome("declined", Nothing) /\ w = {}
        /\ IF s = "refused" THEN running' = running
           ELSE running < MaxConcurrent /\ running' = running + 1
  <2>1. wire = [wire EXCEPT ![c] = {}] /\ outcome = [outcome EXCEPT ![c] = outcome[c]]
    BY <1>3 DEF Typed
  <2>2. CASE Reject(c)
    BY <2>1, <2>2 DEF Reject
  <2>3. CASE Decline(c, r)
    BY <2>1, <2>3 DEF Decline
  <2>4. CASE Execute(c, r)
    BY <2>1, <2>4 DEF Execute
  <2> QED BY <1>1, <2>2, <2>3, <2>4
<1>5. Typed'
  <2>1. Outcome("declined", Nothing) \in Settled
    BY DEF Outcome, Settled, Nothing
  <2>2. o \in Settled
    BY <1>3, <2>1 DEF Typed
  <2> QED BY <1>1, <1>2, <1>3, <1>4, <2>2 DEF Typed
<1>6. Counted'
  <2>1. CASE s = "refused"
    <3>1. Executions' = Executions
      BY <1>2, <1>3, <1>4, <2>1 DEF Typed, Executions
    <3> QED BY <1>4, <2>1, <3>1, CountSame
  <2>2. CASE s # "refused"
    BY <1>2, <1>4, <2>2, CountUp
  <2> QED BY <2>1, <2>2
<1>7. /\ stage'[c] = s /\ request'[c] = r /\ retries'[c] = 0 /\ wire'[c] = w
      /\ reply'[c] = Nothing /\ outcome'[c] = o /\ handled'[c] = 0
  BY <1>1, <1>2, <1>3, <1>4 DEF Typed
<1>8. o.kind = IF s = "attempt" THEN "pending" ELSE "declined"
  BY <1>3, <1>4 DEF Outcome
<1>9. CallInv(c)'
  <2>1. Bounded(c)'
    BY <1>4, <1>7, RequestFacts DEF Bounded
  <2>2. Staged(c)'
    BY <1>4, <1>7, <1>8 DEF Staged
  <2>3. Budget(c)'
    <3>1. Cardinality(w) <= 1 /\ Cardinality(w) \in Nat
      <4>1. CASE w = {}
        BY <4>1, FS_EmptySet
      <4>2. CASE w = {0}
        <5>1. Cardinality({0}) = 1
          BY FS_Singleton
        <5> QED BY <4>2, <5>1
      <4> QED BY <1>4, <4>1, <4>2
    <3> QED BY <1>4, <1>7, <3>1 DEF Budget, Due
  <2>4. Current(c)' /\ Truthful(c)' /\ Switched(c)'
    BY <1>4, <1>7, <1>8 DEF Current, Truthful, Switched
  <2> QED BY <2>1, <2>2, <2>3, <2>4 DEF CallInv
<1>10. \A d \in Calls \ {c} : SameCall(d)
  BY <1>1, <1>2, <1>3, <1>4 DEF Typed, SameCall
<1> QED BY <1>5, <1>6, <1>9, <1>10, OneCallInv

\* A call that may be retried: by a policy of the caller's own, or after a response to what
\* neither creates nor changes anything.
LEMMA RetryMeans ==
  ASSUME NEW c \in Calls, NEW status, TRUE \in Verdicts(c, status)
  PROVE  /\ ~OnceOnly(request[c])
         /\ request[c].policy # "CallersPolicy" => status # Nothing
<1>1. CASE request[c].policy = "CallersPolicy"
  BY <1>1 DEF OnceOnly
<1>2. CASE request[c].policy # "CallersPolicy"
  <2>1. Retryable(request[c], status)
    BY <1>2 DEF Verdicts
  <2> QED BY <1>2, <2>1 DEF Retryable, OnceOnly
<1> QED BY <1>1, <1>2

\* The next attempt is decided on.
LEMMA RetryKeeps ==
  ASSUME JsInv, NEW c \in Calls, stage[c] = "attempt",
         NEW status \in {Nothing, reply[c]}, Retry(c, status),
         reply' = [reply EXCEPT ![c] = Nothing],
         UNCHANGED <<request, running, wire, told, handled>>
  PROVE  JsInv'
<1>1. /\ retries[c] < Backoffs[request[c].policy] /\ TRUE \in Verdicts(c, status)
      /\ stage' = [stage EXCEPT ![c] = "backoff"]
      /\ retries' = [retries EXCEPT ![c] = @ + 1] /\ outcome' = outcome
  BY DEF Retry, RetriesLeft
<1>2. /\ Typed /\ CallInv(c) /\ retries[c] \in Nat /\ handled[c] \in Nat
      /\ Cardinality(wire[c]) \in Nat
  BY WireFacts DEF JsInv
<1>3. Typed'
  BY <1>1, <1>2 DEF Typed, Nothing
<1>4. Counted'
  <2>1. Executions' = Executions
    BY <1>1, <1>2 DEF Typed, Executions
  <2> QED BY <2>1, CountSame
<1>5. /\ stage'[c] = "backoff" /\ retries'[c] = retries[c] + 1 /\ reply'[c] = Nothing
      /\ request[c] \in Requests[c] /\ outcome[c].kind = "pending"
      /\ wire[c] \subseteq 0..retries[c]
  BY <1>1, <1>2 DEF Typed, CallInv, Bounded, Staged
<1>6. Bounded(c)'
  <2>1. Backoffs[request[c].policy] \in Nat /\ ~OnceOnly(request[c])
    BY <1>1, <1>5, RequestFacts, RetryMeans
  <2> QED BY <1>1, <1>2, <1>5, <2>1 DEF Bounded, OnceOnly
<1>7. Staged(c)'
  BY <1>1, <1>2, <1>5 DEF Staged
<1>8. Budget(c)'
  BY <1>2, <1>5 DEF CallInv, Budget, Due
<1>9. Current(c)'
  <2>1. CASE request[c].policy = "CallersPolicy"
    <3>1. Unsettled(c)'
      BY <1>2, <1>5, <2>1 DEF Unsettled
    <3> QED BY <3>1 DEF Current
  <2>2. CASE request[c].policy # "CallersPolicy"
    <3>1. reply[c] # Nothing
      BY <1>1, <2>2, RetryMeans
    <3>2. wire[c] = {}
      BY <1>2, <2>2, <3>1 DEF CallInv, Current, Unsettled
    <3> QED BY <3>2 DEF Current
  <2> QED BY <2>1, <2>2
<1>10. Truthful(c)' /\ Switched(c)'
  BY <1>1, <1>5 DEF Truthful, Switched
<1>11. \A d \in Calls \ {c} : SameCall(d)
  BY <1>1, <1>2 DEF Typed, SameCall
<1> QED BY <1>3, <1>4, <1>6, <1>7, <1>8, <1>9, <1>10, <1>11, OneCallInv DEF CallInv

\* What a promise is settled with.
LEMMA SettleMeans ==
  ASSUME JsInv, NEW c \in Calls, stage[c] = "attempt",
         NEW status \in {Nothing, reply[c]}, Settle(c, status)
  PROVE  /\ outcome'[c].kind \in {"success", "failure", "unknown", "error"}
         /\ outcome'[c].status = status /\ outcome'[c] \in Settled
         /\ outcome'[c].kind \in {"success", "failure", "unknown"} =>
              /\ status = reply[c] /\ reply[c] # Nothing
              /\ outcome'[c].kind = Settlement(request[c].op, status)
<1>1. status \in Nat /\ DOMAIN outcome = Calls
  BY WireFacts DEF Nothing, JsInv, Typed
<1>2. outcome'[c] = Outcome(IF status = Nothing THEN "error"
                            ELSE Settlement(request[c].op, status), status)
  BY <1>1 DEF Settle
<1>3. /\ outcome'[c].status = status
      /\ outcome'[c].kind = IF status = Nothing THEN "error"
                            ELSE Settlement(request[c].op, status)
  BY <1>2 DEF Outcome
<1>4. outcome'[c].kind \in {"success", "failure", "unknown", "error"}
  BY <1>3, SettlementCases
<1>5. outcome'[c] \in Settled
  BY <1>1, <1>2, <1>3, <1>4 DEF Outcome, Settled
<1> QED BY <1>3, <1>4, <1>5

\* The promise is settled.
LEMMA SettleKeeps ==
  ASSUME JsInv, NEW c \in Calls, stage[c] = "attempt",
         NEW status \in {Nothing, reply[c]}, Settle(c, status),
         reply' = [reply EXCEPT ![c] = Nothing],
         UNCHANGED <<request, running, wire, told, handled>>
  PROVE  JsInv'
<1>1. /\ stage' = [stage EXCEPT ![c] = "settled"] /\ retries' = retries
      /\ \E o : outcome' = [outcome EXCEPT ![c] = o]
  BY DEF Settle
<1>2. Typed /\ CallInv(c)
  BY DEF JsInv
<1>3. Typed'
  BY <1>1, <1>2, SettleMeans DEF Typed, Nothing
<1>4. Counted'
  <2>1. Executions' = Executions
    BY <1>1, <1>2 DEF Typed, Executions
  <2> QED BY <2>1, CountSame
<1>5. /\ stage'[c] = "settled" /\ reply'[c] = Nothing /\ request[c] \in Requests[c]
      /\ wire[c] \subseteq 0..retries[c]
  BY <1>1, <1>2 DEF Typed, CallInv, Bounded, Staged
<1>6. Bounded(c)'
  BY <1>1, <1>2, <1>5 DEF CallInv, Bounded, OnceOnly
<1>7. Staged(c)'
  BY <1>1, <1>5, SettleMeans DEF Staged
<1>8. Budget(c)'
  BY <1>1, <1>2, <1>5 DEF CallInv, Budget, Due
<1>9. Current(c)'
  BY <1>1, <1>2, <1>5, SettleMeans DEF CallInv, Current, Unsettled
<1>10. Truthful(c)' /\ Switched(c)'
  BY <1>5, SettleMeans DEF Truthful, Switched
<1>11. \A d \in Calls \ {c} : SameCall(d)
  BY <1>1, <1>2 DEF Typed, SameCall
<1> QED BY <1>3, <1>4, <1>6, <1>7, <1>8, <1>9, <1>10, <1>11, OneCallInv DEF CallInv

\* The callback of the request library.
LEMMA CallbackKeeps ==
  ASSUME JsInv, NEW c \in Calls, Callback(c)
  PROVE  JsInv'
BY RetryKeeps, SettleKeeps DEF Callback

\* The next attempt.
LEMMA RequestAgainKeeps ==
  ASSUME JsInv, NEW c \in Calls, RequestAgain(c)
  PROVE  JsInv'
<1>1. /\ stage[c] = "backoff" /\ stage' = [stage EXCEPT ![c] = "attempt"]
      /\ wire' = [wire EXCEPT ![c] = @ \cup {retries[c]}]
      /\ UNCHANGED <<request, retries, running, reply, outcome, told, handled>>
  BY DEF RequestAgain
<1>2. /\ Typed /\ CallInv(c) /\ retries[c] \in Nat /\ handled[c] \in Nat
      /\ IsFiniteSet(wire[c]) /\ Cardinality(wire[c]) \in Nat
  BY WireFacts DEF JsInv
<1>3. Typed'
  BY <1>1, <1>2 DEF Typed
<1>4. Counted'
  <2>1. Executions' = Executions
    BY <1>1, <1>2 DEF Typed, Executions
  <2> QED BY <1>1, <2>1, CountSame
<1>5. /\ stage'[c] = "attempt" /\ wire'[c] = wire[c] \cup {retries[c]}
      /\ reply[c] = Nothing /\ outcome[c].kind = "pending"
  BY <1>1, <1>2 DEF Typed, CallInv, Staged
<1>6. Bounded(c)'
  BY <1>1, <1>2, <1>5 DEF CallInv, Bounded, OnceOnly
<1>7. Staged(c)'
  BY <1>1, <1>2, <1>5 DEF CallInv, Staged
<1>8. Budget(c)'
  <2>1. Cardinality(wire'[c]) <= Cardinality(wire[c]) + 1 /\ Cardinality(wire'[c]) \in Nat
    <3>1. IsFiniteSet(wire[c])
      BY <1>2
    <3>2. Cardinality(wire[c] \cup {retries[c]}) =
            IF retries[c] \in wire[c] THEN Cardinality(wire[c]) ELSE Cardinality(wire[c]) + 1
      BY <3>1, FS_AddElement
    <3> QED BY <1>2, <1>5, <3>2
  <2>2. handled[c] + Cardinality(wire[c]) + 1 <= retries[c] + 1
    BY <1>1, <1>2 DEF CallInv, Budget, Due
  <2>3. Due(c)' = 0
    BY <1>5 DEF Due
  <2> QED BY <1>1, <1>2, <2>1, <2>2, <2>3 DEF Budget
<1>9. Current(c)' /\ Truthful(c)' /\ Switched(c)'
  BY <1>1, <1>2, <1>5 DEF CallInv, Current, Unsettled, Truthful, Switched
<1>10. \A d \in Calls \ {c} : SameCall(d)
  BY <1>1, <1>2 DEF Typed, SameCall
<1> QED BY <1>3, <1>4, <1>6, <1>7, <1>8, <1>9, <1>10, OneCallInv DEF CallInv

\* What a callback is called with.
LEMMA ToldTyped ==
  ASSUME JsInv, NEW c \in Calls, stage[c] \in {"settled", "refused"}
  PROVE  Told(c) \in Seq({"result", "error"})
<1>1. request[c].callback \in {"none", "returns", "throws"}
  BY RequestFacts DEF JsInv, CallInv, Bounded
<1>2. Told(c) \in {<<>>, <<"error">>, <<"result">>, <<"result", "error">>}
  BY <1>1, Zenon DEF Told
<1>3. /\ <<>> \in Seq({"result", "error"}) /\ <<"error">> \in Seq({"result", "error"})
      /\ <<"result">> \in Seq({"result", "error"})
      /\ <<"result", "error">> \in Seq({"result", "error"})
  OBVIOUS
<1> QED BY <1>2, <1>3

\* The end of a call.
LEMMA ResolveKeeps ==
  ASSUME JsInv, NEW c \in Calls, Resolve(c)
  PROVE  JsInv'
<1>1. /\ stage[c] \in {"settled", "refused"} /\ stage' = [stage EXCEPT ![c] = "done"]
      /\ running' = IF stage[c] = "settled" THEN running - 1 ELSE running
      /\ told' = [told EXCEPT ![c] = Told(c)]
      /\ UNCHANGED <<request, retries, wire, reply, outcome, handled>>
  BY DEF Resolve
<1>2. Typed /\ CallInv(c)
  BY DEF JsInv
<1>3. Typed'
  BY <1>1, <1>2, ToldTyped DEF Typed
<1>4. Counted'
  <2>1. CASE stage[c] = "settled"
    BY <1>1, <2>1, CountDown
  <2>2. CASE stage[c] = "refused"
    <3>1. Executions' = Executions
      BY <1>1, <1>2, <2>2 DEF Typed, Executions
    <3> QED BY <1>1, <2>2, <3>1, CountSame
  <2> QED BY <1>1, <2>1, <2>2
<1>5. stage'[c] = "done"
  BY <1>1, <1>2 DEF Typed
<1>6. Bounded(c)' /\ Staged(c)'
  BY <1>1, <1>2, <1>5 DEF CallInv, Bounded, OnceOnly, Staged
<1>7. Budget(c)'
  BY <1>1, <1>2, <1>5 DEF CallInv, Budget, Due
<1>8. Current(c)' /\ Truthful(c)' /\ Switched(c)'
  BY <1>1, <1>2, <1>5 DEF CallInv, Current, Unsettled, Truthful, Switched
<1>9. \A d \in Calls \ {c} : SameCall(d)
  BY <1>1, <1>2 DEF Typed, SameCall
<1> QED BY <1>3, <1>4, <1>6, <1>7, <1>8, <1>9, OneCallInv DEF CallInv

\* What the service does with a request it has taken up.
LEMMA EffectFacts ==
  ASSUME NEW status \in Nat, NEW e \in Effects(status)
  PROVE  /\ e \in {0, 1} /\ (status < 300 => e = 1)
         /\ status \in 300..499 => e = 0
<1>1. CASE status < 300
  BY <1>1 DEF Effects
<1>2. CASE status \in 300..499
  BY <1>2 DEF Effects
<1>3. CASE status >= 500
  BY <1>3 DEF Effects
<1> QED BY <1>1, <1>2, <1>3

\* The service takes up a request.
LEMMA ServiceKeeps ==
  ASSUME JsInv, NEW c \in Calls, Service(c)
  PROVE  JsInv'
<1>0. PICK n \in wire[c], status \in Failing \cup {request[c].op.success} :
        \E e \in Effects(status) :
          /\ wire' = [wire EXCEPT ![c] = @ \ {n}]
          /\ handled' = [handled EXCEPT ![c] = @ + e]
          /\ reply' = IF n = retries[c] /\ stage[c] = "attempt"
                      THEN [reply EXCEPT ![c] = status] ELSE reply
          /\ UNCHANGED <<stage, request, retries, running, outcome, told>>
  BY DEF Service
<1>1. PICK e \in Effects(status) :
        /\ wire' = [wire EXCEPT ![c] = @ \ {n}]
        /\ handled' = [handled EXCEPT ![c] = @ + e]
        /\ reply' = IF n = retries[c] /\ stage[c] = "attempt"
                    THEN [reply EXCEPT ![c] = status] ELSE reply
        /\ UNCHANGED <<stage, request, retries, running, outcome, told>>
  BY <1>0
<1>2. /\ Typed /\ CallInv(c) /\ retries[c] \in Nat /\ handled[c] \in Nat
      /\ IsFiniteSet(wire[c]) /\ Cardinality(wire[c]) \in Nat
  BY WireFacts DEF JsInv
<1>3. status \in Nat /\ status # Nothing
  <2>1. request[c] \in Requests[c]
    BY <1>1, <1>2 DEF CallInv, Bounded, Staged
  <2>2. request[c].op.success \in {200, 201, 202}
    BY <2>1, RequestFacts, StatusFacts
  <2>3. \A f \in Failing : f \in Nat /\ f # 0
    BY JsFailingAssumption
  <2> QED BY <2>2, <2>3 DEF Nothing
<1>4. e \in {0, 1} /\ (status < 300 => e = 1) /\ (status \in 300..499 => e = 0)
  BY <1>3, EffectFacts
<1>5. Typed'
  <2>1. handled' \in [Calls -> Nat]
    <3>1. handled[c] + e \in Nat
      BY <1>2, <1>4
    <3> QED BY <1>1, <1>2, <3>1 DEF Typed
  <2> QED BY <1>1, <1>2, <1>3, <2>1 DEF Typed
<1>6. Counted'
  <2>1. Executions' = Executions
    BY <1>1 DEF Executions
  <2> QED BY <1>1, <2>1, CountSame
<1>7. /\ wire'[c] = wire[c] \ {n} /\ handled'[c] = handled[c] + e
      /\ reply'[c] = IF n = retries[c] /\ stage[c] = "attempt" THEN status ELSE reply[c]
  BY <1>1, <1>2 DEF Typed
<1>8. Cardinality(wire'[c]) = Cardinality(wire[c]) - 1 /\ Cardinality(wire'[c]) \in Nat
  <2>1. /\ IsFiniteSet(wire[c] \ {n})
        /\ Cardinality(wire[c] \ {n}) =
             IF n \in wire[c] THEN Cardinality(wire[c]) - 1 ELSE Cardinality(wire[c])
    BY <1>2, FS_RemoveElement
  <2> QED BY <1>7, <2>1, FS_CardinalityType
<1>9. Bounded(c)' /\ Staged(c)' /\ Switched(c)'
  BY <1>1, <1>2, <1>7 DEF CallInv, Bounded, OnceOnly, Staged, Switched
<1>10. Due(c)' = Due(c) /\ Due(c) \in {0, 1} /\ Unsettled(c)' = Unsettled(c)
  BY <1>1 DEF Due, Unsettled
<1>11. handled[c] + Cardinality(wire[c]) + Due(c) <= retries[c] + 1
  BY <1>2 DEF CallInv, Budget
<1>12. Budget(c)'
  BY <1>1, <1>2, <1>4, <1>7, <1>8, <1>10, <1>11 DEF Budget
<1>13. Current(c)'
  BY <1>1, <1>2, <1>7, <1>10 DEF CallInv, Current
<1>14. Truthful(c)'
  <2>1. CASE n = retries[c] /\ stage[c] = "attempt"
    <3>1. reply'[c] = status
      BY <1>7, <2>1
    <3>2. status < 300 => handled'[c] > 0
      BY <1>2, <1>4, <1>7
    <3>3. status \in 300..499 => handled'[c] + Cardinality(wire'[c]) <= retries'[c]
      BY <1>1, <1>2, <1>4, <1>7, <1>8, <1>10, <1>11
    <3> QED BY <3>1, <3>2, <3>3 DEF Truthful
  <2>2. CASE ~(n = retries[c] /\ stage[c] = "attempt")
    <3>1. reply'[c] = reply[c]
      BY <1>7, <2>2
    <3>2. reply[c] # Nothing /\ reply[c] < 300 => handled'[c] > 0
      BY <1>2, <1>4, <1>7 DEF CallInv, Truthful
    <3>3. reply[c] # Nothing /\ reply[c] \in 300..499 =>
            handled'[c] + Cardinality(wire'[c]) <= retries'[c]
      BY <1>1, <1>2, <1>4, <1>7, <1>8 DEF CallInv, Truthful
    <3> QED BY <3>1, <3>2, <3>3 DEF Truthful
  <2> QED BY <2>1, <2>2
<1>15. \A d \in Calls \ {c} : SameCall(d)
  BY <1>1, <1>2 DEF Typed, SameCall
<1> QED BY <1>5, <1>6, <1>9, <1>12, <1>13, <1>14, <1>15, OneCallInv DEF CallInv

\* The invariant is kept by every step.
LEMMA NextKeeps == JsInv /\ [Next]_vars => JsInv'
<1> SUFFICES ASSUME JsInv, [Next]_vars PROVE JsInv'
  OBVIOUS
<1>1. CASE UNCHANGED vars
  <2>1. Typed'
    BY <1>1 DEF JsInv, Typed, vars
  <2>2. Counted'
    BY <1>1, CountSame DEF vars, Executions
  <2>3. \A c \in Calls : CallInv(c)'
    BY <1>1, SameCallInv DEF JsInv, SameCall, vars
  <2> QED BY <2>1, <2>2, <2>3 DEF JsInv
<1>2. CASE Next
  BY <1>2, CallKeeps, CallbackKeeps, RequestAgainKeeps, ResolveKeeps, ServiceKeeps
     DEF Next, JsStep
<1> QED BY <1>1, <1>2

\* The invariant holds throughout.
THEOREM JsInvariant == Spec => []JsInv
BY InitJs, NextKeeps, PTL DEF Spec

\* The variables keep their types: the command's count is that of its executions, and a call
\* is retried no more often than its policy has backoffs.
THEOREM JsTypeCorrect == Spec => []JsTypeOK
<1>1. JsInv => JsTypeOK
  <2> SUFFICES ASSUME JsInv PROVE JsTypeOK
    OBVIOUS
  <2>1. ASSUME NEW c \in Calls
        PROVE  /\ request[c] \in Requests[c] \cup {NoRequest}
               /\ retries[c] \in 0..Backoffs[request[c].policy]
               /\ wire[c] \subseteq 0..retries[c]
               /\ told[c] \in Seq({"result", "error"})
    <3>1. request[c] \in Requests[c] \cup {NoRequest}
      BY DEF JsInv, CallInv, Bounded
    <3>2. retries[c] \in Nat /\ retries[c] <= Backoffs[request[c].policy]
      BY DEF JsInv, Typed, CallInv, Bounded
    <3>3. Backoffs[request[c].policy] \in Nat
      BY <3>1, RequestFacts DEF NoRequest, Backoffs
    <3> QED BY <3>1, <3>2, <3>3 DEF JsInv, Typed, CallInv, Staged
  <2>2. running = Cardinality({c \in Calls : stage[c] \in {"attempt", "backoff", "settled"}})
    BY DEF JsInv, Counted, Executions
  <2> QED BY <2>1, <2>2 DEF JsInv, Typed, Settled, JsTypeOK
<1> QED BY <1>1, JsInvariant, PTL

\* The client runs no more calls at once than its command admits.
THEOREM LimitKept == Spec => []WithinLimit
<1>1. JsInv => WithinLimit
  <2> SUFFICES ASSUME JsInv PROVE WithinLimit
    OBVIOUS
  <2> DEFINE busy == {c \in Calls : stage[c] \in {"attempt", "backoff"}}
  <2>1. busy \subseteq Executions
    BY DEF Executions
  <2>2. IsFiniteSet(Executions) /\ Cardinality(Executions) <= MaxConcurrent
    BY DEF JsInv, Counted
  <2>3. /\ Cardinality(busy) <= Cardinality(Executions)
        /\ Cardinality(busy) \in Nat /\ Cardinality(Executions) \in Nat
    BY <2>1, <2>2, FS_Subset, FS_CardinalityType
  <2>4. Cardinality(busy) <= MaxConcurrent
    BY <2>2, <2>3, JsLimitAssumption
  <2> QED BY <2>4 DEF WithinLimit
<1> QED BY <1>1, JsInvariant, PTL

\* The two clients of the repository send the same and, of responses whose body decodes,
\* tell the same.
THEOREM ClientsAgree == Spec => []SameAsGo
<1>1. JsInv => SameAsGo
  <2> SUFFICES ASSUME JsInv, NEW c \in Calls,
                      outcome[c].kind \in {"success", "failure", "unknown"}
               PROVE  \E op \in Go!Operations :
                        /\ op.name = request[c].op.name
                        /\ op.method = request[c].op.method
                        /\ op.params = request[c].op.params \ {"port"}
                        /\ op.query = request[c].op.query
                        /\ Go!Classify(op, outcome[c].status, TRUE).kind = outcome[c].kind
    BY DEF SameAsGo
  <2> DEFINE o == request[c].op
  <2>1. /\ stage[c] # "new" /\ request[c] \in Requests[c]
        /\ outcome[c].kind = Settlement(o, outcome[c].status)
    BY DEF JsInv, CallInv, Staged, Bounded, Switched
  <2>2. o \in JsOperations
    BY <2>1, RequestFacts
  <2>3. PICK op \in Go!Operations : Alike(op, o)
    BY <2>2, SameOperations
  <2>4. Go!Classify(op, outcome[c].status, TRUE).kind = Settlement(o, outcome[c].status)
    <3> HIDE DEF o
    <3> QED BY <2>2, <2>3, SwitchesAgree
  <2> QED BY <2>1, <2>3, <2>4 DEF Alike
<1> QED BY <1>1, JsInvariant, PTL

(***************************************************************************)
(* The refinement of ApiCall.                                              *)
(***************************************************************************)
\* What JsClient puts for the variables of ApiCall.
Limit(c) ==
  IF ~Asked(c) THEN 0
  ELSE IF OnceOnly(request[c]) THEN 1 ELSE Backoffs[request[c].policy] + 1

LimitsOf  == [c \in Calls |-> Limit(c)]
AnswersOf == [c \in Calls |-> Answer(c)]

\* A call that is let through is asked for as often as its policy allows.
LEMMA AskedLimit ==
  ASSUME NEW c \in Calls, Asked(c), request[c] \in Requests[c]
  PROVE  /\ Limit(c) \in {Backoffs[policy] + 1 : policy \in DOMAIN Backoffs}
         /\ Limit(c) \in Nat /\ Limit(c) > 0
         /\ Limit(c) = 1 => OnceOnly(request[c]) \/ Backoffs[request[c].policy] = 0
         /\ ~OnceOnly(request[c]) => Limit(c) = Backoffs[request[c].policy] + 1
<1>1. /\ request[c].policy \in DOMAIN Backoffs /\ Backoffs[request[c].policy] \in Nat
      /\ Backoffs["none"] = 0 /\ "none" \in DOMAIN Backoffs
  BY RequestFacts DEF Backoffs
<1>2. \/ Limit(c) = Backoffs["none"] + 1 /\ OnceOnly(request[c])
      \/ Limit(c) = Backoffs[request[c].policy] + 1
  BY <1>1 DEF Limit
<1>3. ~OnceOnly(request[c]) => Limit(c) = Backoffs[request[c].policy] + 1
  BY DEF Limit
<1> QED BY <1>1, <1>2, <1>3

\* A step of ApiCall as one call sees it.
Settles(c, reached) ==
  /\ Answer(c) = "pending" /\ Answer(c)' = reached
  /\ Limit(c)' = Limit(c) /\ handled'[c] = handled[c]

ApiMove(c) ==
  \/ Limit(c)' = Limit(c) /\ handled'[c] = handled[c] /\ Answer(c)' = Answer(c)
  \/ /\ Limit(c) = 0 /\ Limit(c)' \in {Backoffs[policy] + 1 : policy \in DOMAIN Backoffs}
     /\ Answer(c) = "pending" /\ Answer(c)' = "pending" /\ handled'[c] = handled[c]
  \/ Limit(c) = 0 /\ Settles(c, "declined")
  \/ /\ handled[c] < Limit(c) /\ handled'[c] = handled[c] + 1
     /\ Answer(c) \in {"pending", "unknown"}
     /\ Limit(c)' = Limit(c) /\ Answer(c)' = Answer(c)
  \/ handled[c] > 0 /\ Settles(c, "done")
  \/ Limit(c) > 0 /\ (Limit(c) = 1 => handled[c] = 0) /\ Settles(c, "rejected")
  \/ Limit(c) > 0 /\ Settles(c, "unknown")

\* A call that a step does not concern has the limit and the answer it had.
LEMMA SameCallMove ==
  ASSUME NEW c \in Calls, SameCall(c)
  PROVE  Limit(c)' = Limit(c) /\ Answer(c)' = Answer(c) /\ handled'[c] = handled[c]
<1> USE DEF SameCall
<1>1. /\ Asked(c)' = Asked(c) /\ OnceOnly(request[c])' = OnceOnly(request[c])
      /\ Unsettled(c)' = Unsettled(c)
  BY DEF Asked, OnceOnly, Unsettled
<1>2. Limit(c)' = Limit(c)
  BY <1>1 DEF Limit
<1>3. Answer(c)' = Answer(c)
  BY <1>1 DEF Answer
<1> QED BY <1>2, <1>3

\* A step that is one of ApiCall's for one call and does not concern the others is one.
LEMMA MoveImplements ==
  ASSUME Typed, Typed', NEW c \in Calls, ApiMove(c),
         \A d \in Calls \ {c} : SameCall(d)
  PROVE  [Api!Next]_(Api!vars)
<1>1. /\ LimitsOf' = [LimitsOf EXCEPT ![c] = Limit(c)']
      /\ AnswersOf' = [AnswersOf EXCEPT ![c] = Answer(c)']
      /\ handled' = [handled EXCEPT ![c] = handled'[c]]
  <2>1. \A d \in Calls \ {c} :
          Limit(d)' = Limit(d) /\ Answer(d)' = Answer(d) /\ handled'[d] = handled[d]
    BY SameCallMove
  <2> QED BY <2>1 DEF LimitsOf, AnswersOf, Typed
<1>2. LimitsOf[c] = Limit(c) /\ AnswersOf[c] = Answer(c)
  BY DEF LimitsOf, AnswersOf
<1>3. /\ LimitsOf = [d \in Calls |-> Limit(d)] /\ AnswersOf = [d \in Calls |-> Answer(d)]
  BY DEF LimitsOf, AnswersOf
<1>4. CASE Limit(c)' = Limit(c) /\ handled'[c] = handled[c] /\ Answer(c)' = Answer(c)
  <2>1. LimitsOf' = LimitsOf /\ AnswersOf' = AnswersOf /\ handled' = handled
    BY <1>1, <1>2, <1>3, <1>4 DEF Typed
  <2> QED BY <2>1 DEF Api!vars, LimitsOf, Limit, AnswersOf
<1>5. CASE /\ Limit(c) = 0
           /\ Limit(c)' \in {Backoffs[policy] + 1 : policy \in DOMAIN Backoffs}
           /\ Answer(c) = "pending" /\ Answer(c)' = "pending" /\ handled'[c] = handled[c]
  <2>1. AnswersOf' = AnswersOf /\ handled' = handled
    BY <1>1, <1>2, <1>3, <1>5 DEF Typed
  <2>2. PICK n \in {Backoffs[policy] + 1 : policy \in DOMAIN Backoffs} : n = Limit(c)'
    BY <1>5
  <2>3. LimitsOf[c] = 0 /\ AnswersOf[c] = "pending" /\ LimitsOf' = [LimitsOf EXCEPT ![c] = n]
    BY <1>1, <1>2, <1>5, <2>2
  <2>4. Api!Ask(c, n)
    BY <2>1, <2>3 DEF Api!Ask, LimitsOf, Limit, AnswersOf
  <2> QED BY <2>2, <2>4 DEF Api!Next
<1>6. ASSUME NEW reached, Settles(c, reached) PROVE Api!Reply(c, reached)
  <2>1. LimitsOf' = LimitsOf /\ handled' = handled
    <3>1. Limit(c)' = Limit(c) /\ handled'[c] = handled[c]
      BY <1>6 DEF Settles
    <3> QED BY <1>1, <1>2, <1>3, <3>1 DEF Typed
  <2>2. AnswersOf[c] = "pending" /\ AnswersOf' = [AnswersOf EXCEPT ![c] = reached]
    BY <1>1, <1>2, <1>6 DEF Settles
  <2> QED BY <2>1, <2>2 DEF Api!Reply, LimitsOf, Limit, AnswersOf
<1>7. CASE Limit(c) = 0 /\ Settles(c, "declined")
  <2>1. Api!Decline(c)
    BY <1>2, <1>6, <1>7 DEF Api!Decline, LimitsOf, Limit
  <2> QED BY <2>1 DEF Api!Next
<1>8. CASE /\ handled[c] < Limit(c) /\ handled'[c] = handled[c] + 1
           /\ Answer(c) \in {"pending", "unknown"}
           /\ Limit(c)' = Limit(c) /\ Answer(c)' = Answer(c)
  <2>1. LimitsOf' = LimitsOf /\ AnswersOf' = AnswersOf
    BY <1>1, <1>2, <1>3, <1>8
  <2>2. handled[c] < LimitsOf[c] /\ AnswersOf[c] \in {"pending", "unknown"}
        /\ handled' = [handled EXCEPT ![c] = @ + 1]
    BY <1>1, <1>2, <1>8
  <2>3. Api!Act(c)
    BY <2>1, <2>2 DEF Api!Act, LimitsOf, Limit, AnswersOf
  <2> QED BY <2>3 DEF Api!Next
<1>9. CASE handled[c] > 0 /\ Settles(c, "done")
  <2>1. Api!Succeed(c)
    BY <1>6, <1>9 DEF Api!Succeed
  <2> QED BY <2>1 DEF Api!Next
<1>10. CASE Limit(c) > 0 /\ (Limit(c) = 1 => handled[c] = 0) /\ Settles(c, "rejected")
  <2>1. Api!Reject(c)
    BY <1>2, <1>6, <1>10 DEF Api!Reject, LimitsOf, Limit
  <2> QED BY <2>1 DEF Api!Next
<1>11. CASE Limit(c) > 0 /\ Settles(c, "unknown")
  <2>1. Api!GiveUp(c)
    BY <1>2, <1>6, <1>11 DEF Api!GiveUp, LimitsOf, Limit
  <2> QED BY <2>1 DEF Api!Next
<1> QED BY <1>4, <1>5, <1>7, <1>8, <1>9, <1>10, <1>11 DEF ApiMove

\* What the caller of a method is told, case by case.
Telling(value, unsettled) ==
  CASE value.kind = "pending"  -> "pending"
    [] value.kind = "declined" -> "declined"
    [] value.kind = "success" /\ ~unsettled -> "done"
    [] value.kind = "failure" /\ value.status < 500 /\ ~unsettled -> "rejected"
    [] OTHER -> "unknown"

\* Its cases exclude one another.
LEMMA TellingCases ==
  ASSUME NEW value, NEW unsettled \in BOOLEAN
  PROVE  /\ value.kind = "pending" => Telling(value, unsettled) = "pending"
         /\ value.kind = "declined" => Telling(value, unsettled) = "declined"
         /\ value.kind = "success" /\ ~unsettled => Telling(value, unsettled) = "done"
         /\ value.kind = "failure" /\ value.status < 500 /\ ~unsettled =>
              Telling(value, unsettled) = "rejected"
         /\ value.kind \in {"success", "failure", "unknown", "error"}
            /\ ~(value.kind = "success" /\ ~unsettled)
            /\ ~(value.kind = "failure" /\ value.status < 500 /\ ~unsettled) =>
              Telling(value, unsettled) = "unknown"
BY DEF Telling

\* Answer is Telling of the outcome, before and after a step.
LEMMA AnswerIs ==
  ASSUME NEW c \in Calls
  PROVE  /\ Answer(c) = Telling(outcome[c], Unsettled(c))
         /\ Answer(c)' = Telling(outcome'[c], Unsettled(c)')
         /\ Unsettled(c) \in BOOLEAN /\ Unsettled(c)' \in BOOLEAN
<1>1. Unsettled(c) \in BOOLEAN /\ Unsettled(c)' \in BOOLEAN
  BY DEF Unsettled
<1> QED BY <1>1 DEF Answer, Telling

\* Both sides of a step.
Around == JsInv /\ JsInv'

\* As long as a call runs, ApiCall sees nothing of it; nor when its promise is handed on.
LEMMA QuietMove ==
  ASSUME Around, NEW c \in Calls, stage[c] # "new", stage'[c] # "new",
         request'[c] = request[c], outcome'[c] = outcome[c], handled'[c] = handled[c],
         retries'[c] = retries[c] \/ outcome[c].kind = "pending"
  PROVE  ApiMove(c)
<1>1. Asked(c)' = Asked(c) /\ OnceOnly(request[c])' = OnceOnly(request[c])
  BY DEF Asked, OnceOnly
<1>2. Limit(c)' = Limit(c)
  BY <1>1 DEF Limit
<1>3. Answer(c)' = Answer(c)
  <2>1. CASE retries'[c] = retries[c]
    BY <2>1 DEF Answer, Unsettled
  <2>2. CASE outcome[c].kind = "pending"
    BY <2>2, AnswerIs, TellingCases
  <2> QED BY <2>1, <2>2
<1> QED BY <1>2, <1>3 DEF ApiMove

\* A call is let through, or declined.
LEMMA CallMove ==
  ASSUME Around, NEW c \in Calls, Call(c)
  PROVE  ApiMove(c)
<1>1. /\ stage[c] = "new" /\ Typed /\ outcome[c].kind = "pending"
      /\ UNCHANGED <<retries, handled>>
  BY DEF Call, Around, JsInv, CallInv, Staged
<1>2. PICK r \in Requests[c] :
        /\ request' = [request EXCEPT ![c] = r]
        /\ Reject(c) \/ Decline(c, r) \/ Execute(c, r)
  BY DEF Call
<1>3. Limit(c) = 0 /\ Answer(c) = "pending"
  BY <1>1, AnswerIs, TellingCases DEF Limit, Asked
<1>4. request'[c] = r /\ request'[c] \in Requests[c]
  BY <1>1, <1>2 DEF Typed
<1>5. CASE Reject(c) \/ Decline(c, r)
  <2>1. outcome'[c].kind = "declined"
    BY <1>1, <1>5 DEF Reject, Decline, Typed, Outcome
  <2>2. Limit(c)' = 0 /\ Answer(c)' = "declined"
    BY <2>1, AnswerIs, TellingCases DEF Limit, Asked
  <2> QED BY <1>1, <1>3, <2>2 DEF ApiMove, Settles
<1>6. CASE Execute(c, r)
  <2>1. stage'[c] = "attempt" /\ outcome' = outcome
    BY <1>1, <1>6 DEF Execute, Typed
  <2>2. Answer(c)' = "pending" /\ Asked(c)'
    BY <1>1, <2>1, AnswerIs, TellingCases DEF Asked
  <2>3. Limit(c)' \in {Backoffs[policy] + 1 : policy \in DOMAIN Backoffs}
    <3>1. /\ r.policy \in DOMAIN Backoffs
          /\ Backoffs["none"] + 1 = 1 /\ "none" \in DOMAIN Backoffs
      BY RequestFacts DEF Backoffs
    <3>2. Limit(c)' \in {1, Backoffs[r.policy] + 1}
      BY <1>4, <2>2 DEF Limit, Backoffs
    <3> QED BY <3>1, <3>2
  <2> QED BY <1>1, <1>3, <2>2, <2>3 DEF ApiMove
<1> QED BY <1>2, <1>5, <1>6

\* A promise is settled: what says success was carried out, and what rejects a call that was
\* sent once was not.
LEMMA SettleMove ==
  ASSUME Around, NEW c \in Calls, stage[c] = "attempt", stage'[c] # "new",
         NEW status \in {Nothing, reply[c]}, Settle(c, status),
         request'[c] = request[c], handled'[c] = handled[c], retries'[c] = retries[c]
  PROVE  ApiMove(c)
<1> USE DEF Around
<1>1. /\ Typed /\ CallInv(c) /\ outcome[c].kind = "pending" /\ request[c] \in Requests[c]
      /\ retries[c] \in Nat /\ handled[c] \in Nat /\ Cardinality(wire[c]) \in Nat
  BY WireFacts DEF JsInv, CallInv, Staged, Bounded
<1>2. /\ outcome'[c].kind \in {"success", "failure", "unknown", "error"}
      /\ outcome'[c].status = status
      /\ outcome'[c].kind \in {"success", "failure", "unknown"} =>
           /\ status = reply[c] /\ reply[c] # Nothing
           /\ outcome'[c].kind = Settlement(request[c].op, status)
  BY SettleMeans
<1>3. Answer(c) = "pending" /\ Asked(c) /\ Asked(c)'
  BY <1>1, <1>2, AnswerIs, TellingCases DEF Asked
<1>4. Limit(c)' = Limit(c) /\ Limit(c) > 0 /\ Unsettled(c)' = Unsettled(c)
  <2>1. OnceOnly(request[c])' = OnceOnly(request[c])
    BY DEF OnceOnly
  <2> QED BY <1>1, <1>3, <2>1, AskedLimit DEF Limit, Unsettled
<1>5. request[c].op.success \in {200, 201, 202} /\ request[c].op.failures \subseteq 400..500
  BY <1>1, RequestFacts, StatusFacts
<1>6. CASE outcome'[c].kind = "success" /\ ~Unsettled(c)
  <2>1. reply[c] # Nothing /\ reply[c] = request[c].op.success
    BY <1>2, <1>6, SettlementCases
  <2>2. handled[c] > 0
    BY <1>1, <1>5, <2>1 DEF CallInv, Truthful
  <2>3. Answer(c)' = "done"
    BY <1>4, <1>6, AnswerIs, TellingCases
  <2> QED BY <1>3, <1>4, <2>2, <2>3 DEF ApiMove, Settles
<1>7. CASE outcome'[c].kind = "failure" /\ outcome'[c].status < 500 /\ ~Unsettled(c)
  <2>1. reply[c] # Nothing /\ reply[c] \in request[c].op.failures /\ reply[c] < 500
    BY <1>2, <1>7, SettlementCases
  <2>2. reply[c] \in 300..499
    BY <1>5, <2>1
  <2>3. handled[c] <= retries[c]
    BY <1>1, <2>1, <2>2 DEF CallInv, Truthful
  <2>4. Limit(c) = 1 => handled[c] = 0
    <3>1. retries[c] <= Backoffs[request[c].policy] /\ (OnceOnly(request[c]) => retries[c] = 0)
      BY <1>1 DEF CallInv, Bounded
    <3>2. Limit(c) = 1 => retries[c] = 0
      BY <1>1, <1>3, <3>1, AskedLimit
    <3> QED BY <1>1, <2>3, <3>2
  <2>5. Answer(c)' = "rejected"
    BY <1>4, <1>7, AnswerIs, TellingCases
  <2> QED BY <1>3, <1>4, <2>4, <2>5 DEF ApiMove, Settles
<1>8. CASE /\ ~(outcome'[c].kind = "success" /\ ~Unsettled(c))
           /\ ~(outcome'[c].kind = "failure" /\ outcome'[c].status < 500 /\ ~Unsettled(c))
  <2>1. Answer(c)' = "unknown"
    BY <1>2, <1>4, <1>8, AnswerIs, TellingCases
  <2> QED BY <1>3, <1>4, <2>1 DEF ApiMove, Settles
<1> QED BY <1>6, <1>7, <1>8

\* The callback of the request library.
LEMMA CallbackMove ==
  ASSUME Around, NEW c \in Calls, Callback(c)
  PROVE  ApiMove(c)
<1>1. /\ stage[c] = "attempt" /\ Typed /\ UNCHANGED <<request, handled>>
      /\ outcome[c].kind = "pending"
  BY DEF Callback, Around, JsInv, CallInv, Staged
<1>2. PICK status \in {Nothing, reply[c]} : Retry(c, status) \/ Settle(c, status)
  BY DEF Callback
<1>3. CASE Retry(c, status)
  <2>1. stage'[c] = "backoff" /\ outcome' = outcome
    BY <1>1, <1>3 DEF Retry, Typed
  <2> QED BY <1>1, <2>1, QuietMove
<1>4. CASE Settle(c, status)
  <2>1. stage'[c] = "settled" /\ retries' = retries
    BY <1>1, <1>4 DEF Settle, Typed
  <2> QED BY <1>1, <1>4, <2>1, SettleMove
<1> QED BY <1>2, <1>3, <1>4

\* What neither asks, acts nor answers.
LEMMA OtherMove ==
  ASSUME Around, NEW c \in Calls, RequestAgain(c) \/ Resolve(c)
  PROVE  ApiMove(c)
<1>1. /\ stage[c] # "new" /\ UNCHANGED <<request, retries, outcome, handled>>
      /\ \E t \in {"attempt", "done"} : stage' = [stage EXCEPT ![c] = t]
  BY DEF RequestAgain, Resolve
<1>2. stage'[c] # "new"
  BY <1>1 DEF Around, JsInv, Typed
<1> QED BY <1>1, <1>2, QuietMove

\* The service acts within the limit, and only while the caller may have to reckon with it.
LEMMA ServiceMove ==
  ASSUME Around, NEW c \in Calls, Service(c)
  PROVE  ApiMove(c)
<1> USE DEF Around
<1>1. PICK n \in wire[c], status \in Failing \cup {request[c].op.success} :
        \E e \in Effects(status) : handled' = [handled EXCEPT ![c] = @ + e]
  BY DEF Service
<1>2. UNCHANGED <<stage, request, retries, outcome>>
  BY DEF Service
<1>3. /\ Typed /\ CallInv(c) /\ retries[c] \in Nat /\ handled[c] \in Nat
      /\ IsFiniteSet(wire[c]) /\ Cardinality(wire[c]) \in Nat
  BY WireFacts DEF JsInv
<1>4. /\ stage[c] # "new" /\ outcome[c].kind # "declined" /\ request[c] \in Requests[c]
  BY <1>1, <1>3 DEF CallInv, Staged, Bounded
<1>5. handled'[c] \in {handled[c], handled[c] + 1}
  <2>1. status \in Nat
    <3>1. \A f \in Failing : f \in Nat
      BY JsFailingAssumption
    <3>2. request[c].op.success \in {200, 201, 202}
      BY <1>4, RequestFacts, StatusFacts
    <3> QED BY <3>1, <3>2
  <2>2. PICK e \in Effects(status) : handled' = [handled EXCEPT ![c] = @ + e]
    BY <1>1
  <2>3. e \in {0, 1}
    BY <2>1, EffectFacts
  <2> QED BY <1>3, <2>2, <2>3 DEF Typed
<1>6. Limit(c)' = Limit(c) /\ Answer(c)' = Answer(c)
  <2>1. /\ Asked(c)' = Asked(c) /\ OnceOnly(request[c])' = OnceOnly(request[c])
        /\ Unsettled(c)' = Unsettled(c)
    BY <1>2 DEF Asked, OnceOnly, Unsettled
  <2>2. Limit(c)' = Limit(c)
    BY <1>2, <2>1 DEF Limit
  <2>3. Answer(c)' = Answer(c)
    BY <1>2, <2>1 DEF Answer
  <2> QED BY <2>2, <2>3
<1>7. handled[c] < Limit(c)
  <2>1. Cardinality(wire[c]) > 0
    <3>1. Cardinality(wire[c]) # 0
      BY <1>1, <1>3, FS_EmptySet
    <3> QED BY <1>3, <3>1
  <2>2. handled[c] <= retries[c]
    <3>1. handled[c] + Cardinality(wire[c]) + Due(c) <= retries[c] + 1 /\ Due(c) \in {0, 1}
      BY <1>3 DEF CallInv, Budget, Due
    <3> QED BY <1>3, <2>1, <3>1
  <2>3. retries[c] <= Backoffs[request[c].policy] /\ (OnceOnly(request[c]) => retries[c] = 0)
    BY <1>3 DEF CallInv, Bounded
  <2>4. Asked(c) /\ Backoffs[request[c].policy] \in Nat
    BY <1>4, RequestFacts DEF Asked
  <2>5. CASE OnceOnly(request[c])
    <3>1. Limit(c) = 1
      BY <2>4, <2>5 DEF Limit
    <3> QED BY <1>3, <2>2, <2>3, <2>5, <3>1
  <2>6. CASE ~OnceOnly(request[c])
    <3>1. Limit(c) = Backoffs[request[c].policy] + 1
      BY <2>4, <2>6 DEF Limit
    <3> QED BY <1>3, <2>2, <2>3, <2>4, <3>1
  <2> QED BY <2>5, <2>6
<1>8. Answer(c) \in {"pending", "unknown"}
  <2>1. ~Unsettled(c) => outcome[c].kind \notin {"success", "failure"}
    BY <1>1, <1>3 DEF CallInv, Current
  <2>2. outcome[c].kind \in {"pending", "success", "failure", "unknown", "error"}
    BY <1>3, <1>4 DEF Typed, Settled
  <2> QED BY <2>1, <2>2, AnswerIs, TellingCases
<1> QED BY <1>5, <1>6, <1>7, <1>8 DEF ApiMove

\* A step of one call leaves the others as they were.
LEMMA OthersSame ==
  ASSUME JsInv, NEW c \in Calls, NEW d \in Calls, d # c,
         Call(c) \/ JsStep(c) \/ Service(c)
  PROVE  SameCall(d)
<1> USE DEF JsInv, Typed, SameCall
<1>1. CASE Call(c)
  BY <1>1 DEF Call, Reject, Decline, Execute
<1>2. CASE Callback(c)
  BY <1>2 DEF Callback, Retry, Settle
<1>3. CASE RequestAgain(c) \/ Resolve(c)
  BY <1>3 DEF RequestAgain, Resolve
<1>4. CASE Service(c)
  BY <1>4 DEF Service
<1> QED BY <1>1, <1>2, <1>3, <1>4 DEF JsStep

\* Every step is one of ApiCall's, or none that it sees.
LEMMA StepImplements == Around /\ [Next]_vars => [Api!Next]_(Api!vars)
<1> SUFFICES ASSUME Around, [Next]_vars PROVE [Api!Next]_(Api!vars)
  OBVIOUS
<1>1. ASSUME NEW c \in Calls, Call(c) \/ JsStep(c) \/ Service(c)
      PROVE  [Api!Next]_(Api!vars)
  <2>1. ApiMove(c)
    BY <1>1, CallMove, CallbackMove, OtherMove, ServiceMove DEF JsStep
  <2>2. \A d \in Calls \ {c} : SameCall(d)
    BY <1>1, OthersSame DEF Around
  <2> QED BY <2>1, <2>2, MoveImplements DEF Around, JsInv
<1>2. CASE UNCHANGED vars
  BY <1>2 DEF vars, Api!vars, Answer, Asked, Unsettled
<1> QED BY <1>1, <1>2 DEF Next

\* The client implements ApiCall: the service carries a call out no more often than it was
\* asked to, an answer of success is true, one that rejects a call asked for once means that
\* nothing was done, and nothing is done once the caller has an answer that settles the matter.
THEOREM Implementation == Spec => ImplementsApiCall
<1>1. Init => Api!Init
  <2>1. ASSUME Init, NEW c \in Calls PROVE Answer(c) = "pending" /\ ~Asked(c)
    BY <2>1, AnswerIs, TellingCases DEF Init, Asked, Pending, Outcome
  <2> QED BY <2>1 DEF Init, Api!Init
<1>2. Around /\ [Next]_vars => [Api!Next]_(Api!vars)
  BY StepImplements
<1> QED BY <1>1, <1>2, JsInvariant, PTL DEF Spec, ImplementsApiCall, Api!Spec, Around

=============================================================================
