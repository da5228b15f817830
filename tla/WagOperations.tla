--------------------------- MODULE WagOperations ---------------------------
(***************************************************************************)
(* The operations of gen-go/client/client.go, one record each.  The client *)
(* has one method and one do...Request helper per operation, all cut from  *)
(* one template; a record holds what tells them apart: the HTTP method,    *)
(* the one status that means success, whether that carries an output to    *)
(* decode, the failure statuses with a type of their own, whether there is *)
(* a request body, the path parameters, which must not be empty, and those *)
(* of the query.                                                           *)
(***************************************************************************)
EXTENDS Naturals, FiniteSets

(***************************************************************************)
(* The path parameters that the Path methods of gen-go/models/inputs.go    *)
(* require.  A port is a number and its text is never empty.               *)
(***************************************************************************)
Group     == {"groupID"}
Cluster   == Group \cup {"clusterName"}
Container == Group \cup {"containerID"}
User      == Group \cup {"username"}
Peer      == Group \cup {"peerID"}
Process   == Group \cup {"host"}

\* The query parameters, each sent if the caller gives it, and the granularity always.
Pages    == {"pageNum", "itemsPerPage"}
Measures == Pages \cup {"granularity", "period", "start", "end", "m"}

Path(params, query) == [params |-> params, query |-> query]

ClusterPaths ==
  [GetClusters |-> Path(Group, {}),
   CreateCluster |-> Path(Group, {}),
   DeleteCluster |-> Path(Cluster, {}),
   GetCluster |-> Path(Cluster, {})]

ClusterChangePaths ==
  [UpdateCluster |-> Path(Cluster, {}),
   RestartPrimaries |-> Path(Cluster, {})]

RestoreJobPaths ==
  [GetRestoreJobs |-> Path(Cluster, Pages),
   CreateRestoreJob |-> Path(Cluster, {})]

SnapshotPaths ==
  [GetSnapshotSchedule |-> Path(Cluster, {}),
   UpdateSnapshotSchedule |-> Path(Cluster, {}),
   GetSnapshots |-> Path(Cluster, {})]

RestoreJobPath ==
  [GetRestoreJob |-> Path(Group \cup {"sourceClusterName", "jobID"}, {})]

ContainerPaths ==
  [GetContainers |-> Path(Group, {}),
   CreateContainer |-> Path(Group, {}),
   GetContainer |-> Path(Container, {}),
   UpdateContainer |-> Path(Container, {})]

UserPaths ==
  [GetDatabaseUsers |-> Path(Group, {}),
   CreateDatabaseUser |-> Path(Group, {}),
   DeleteDatabaseUser |-> Path(User, {})]

OneUserPaths ==
  [GetDatabaseUser |-> Path(User, {}),
   UpdateDatabaseUser |-> Path(User, {})]

EventPaths ==
  [GetEvents |-> Path(Group, Pages \cup {"pretty", "eventType", "minDate", "maxDate"})]

PeerPaths ==
  [GetPeers |-> Path(Group, {}),
   CreatePeer |-> Path(Group, {}),
   DeletePeer |-> Path(Peer, {})]

OnePeerPaths ==
  [GetPeer |-> Path(Peer, {}),
   UpdatePeer |-> Path(Peer, {})]

ProcessPaths ==
  [GetProcesses |-> Path(Group, {}),
   GetProcessDatabases |-> Path(Process, Pages)]

DatabaseMeasurementPaths ==
  [GetProcessDatabaseMeasurements |-> Path(Process \cup {"databaseID"}, Measures)]

DiskPaths == [GetProcessDisks |-> Path(Process, Pages)]

DiskMeasurementPaths ==
  [GetProcessDiskMeasurements |-> Path(Process \cup {"diskName"}, Measures)]

ProcessMeasurementPaths == [GetProcessMeasurements |-> Path(Process, Measures)]

Operation(name, method, success, output, failures, body, paths) ==
  [name |-> name, method |-> method, success |-> success, output |-> output,
   failures |-> failures, body |-> body, params |-> paths[name].params,
   query |-> paths[name].query]

\* The failures most operations declare.
Failures == {400, 401, 403, 404, 409, 429, 500}

GetClusters ==
  Operation("GetClusters", "GET", 200, TRUE, Failures, FALSE, ClusterPaths)
CreateCluster ==
  Operation("CreateCluster", "POST", 201, TRUE, Failures, TRUE, ClusterPaths)
DeleteCluster ==
  Operation("DeleteCluster", "DELETE", 202, FALSE, Failures, FALSE, ClusterPaths)
GetCluster ==
  Operation("GetCluster", "GET", 200, TRUE, Failures, FALSE, ClusterPaths)
UpdateCluster ==
  Operation("UpdateCluster", "PATCH", 200, TRUE, Failures, TRUE, ClusterChangePaths)
RestartPrimaries ==
  Operation("RestartPrimaries", "POST", 200, FALSE, Failures,
            FALSE, ClusterChangePaths)
GetRestoreJobs ==
  Operation("GetRestoreJobs", "GET", 200, TRUE, Failures, FALSE, RestoreJobPaths)
CreateRestoreJob ==
  Operation("CreateRestoreJob", "POST", 200, TRUE, Failures, TRUE, RestoreJobPaths)
GetSnapshotSchedule ==
  Operation("GetSnapshotSchedule", "GET", 200, TRUE, {400, 404, 500},
            FALSE, SnapshotPaths)
UpdateSnapshotSchedule ==
  Operation("UpdateSnapshotSchedule", "PATCH", 200, TRUE, Failures,
            TRUE, SnapshotPaths)
GetSnapshots ==
  Operation("GetSnapshots", "GET", 200, TRUE, {400, 404, 409, 500},
            FALSE, SnapshotPaths)
GetRestoreJob ==
  Operation("GetRestoreJob", "GET", 200, TRUE, Failures, FALSE, RestoreJobPath)
GetContainers ==
  Operation("GetContainers", "GET", 200, TRUE, Failures, FALSE, ContainerPaths)
CreateContainer ==
  Operation("CreateContainer", "POST", 201, TRUE, Failures, TRUE, ContainerPaths)
GetContainer ==
  Operation("GetContainer", "GET", 200, TRUE, {400, 404, 409, 500},
            FALSE, ContainerPaths)
UpdateContainer ==
  Operation("UpdateContainer", "PATCH", 200, TRUE, Failures, TRUE, ContainerPaths)
GetDatabaseUsers ==
  Operation("GetDatabaseUsers", "GET", 200, TRUE, Failures, FALSE, UserPaths)
CreateDatabaseUser ==
  Operation("CreateDatabaseUser", "POST", 201, TRUE, Failures, TRUE, UserPaths)
DeleteDatabaseUser ==
  Operation("DeleteDatabaseUser", "DELETE", 200, FALSE, Failures, FALSE, UserPaths)
GetDatabaseUser ==
  Operation("GetDatabaseUser", "GET", 200, TRUE, {400, 404, 409, 500},
            FALSE, OneUserPaths)
UpdateDatabaseUser ==
  Operation("UpdateDatabaseUser", "PATCH", 200, TRUE, Failures, TRUE, OneUserPaths)
GetEvents ==
  Operation("GetEvents", "GET", 200, TRUE, {400, 401, 403, 404, 500},
            FALSE, EventPaths)
GetPeers ==
  Operation("GetPeers", "GET", 200, TRUE, {400, 401, 404, 500}, FALSE, PeerPaths)
CreatePeer ==
  Operation("CreatePeer", "POST", 201, TRUE, {400, 401, 404, 500}, TRUE, PeerPaths)
DeletePeer ==
  Operation("DeletePeer", "DELETE", 200, FALSE, {400, 401, 404, 500},
            FALSE, PeerPaths)
GetPeer ==
  Operation("GetPeer", "GET", 200, TRUE, {400, 404, 500}, FALSE, OnePeerPaths)
UpdatePeer ==
  Operation("UpdatePeer", "PATCH", 200, TRUE, {400, 401, 404, 500},
            TRUE, OnePeerPaths)
GetProcesses ==
  Operation("GetProcesses", "GET", 200, TRUE, Failures, FALSE, ProcessPaths)
GetProcessDatabases ==
  Operation("GetProcessDatabases", "GET", 200, TRUE, Failures, FALSE, ProcessPaths)
GetProcessDatabaseMeasurements ==
  Operation("GetProcessDatabaseMeasurements", "GET", 200, TRUE, Failures,
            FALSE, DatabaseMeasurementPaths)
GetProcessDisks ==
  Operation("GetProcessDisks", "GET", 200, TRUE, Failures, FALSE, DiskPaths)
GetProcessDiskMeasurements ==
  Operation("GetProcessDiskMeasurements", "GET", 200, TRUE, Failures,
            FALSE, DiskMeasurementPaths)
GetProcessMeasurements ==
  Operation("GetProcessMeasurements", "GET", 200, TRUE, Failures,
            FALSE, ProcessMeasurementPaths)

Operations ==
  {GetClusters, CreateCluster, DeleteCluster,
   GetCluster, UpdateCluster, RestartPrimaries,
   GetRestoreJobs, CreateRestoreJob, GetSnapshotSchedule,
   UpdateSnapshotSchedule, GetSnapshots, GetRestoreJob,
   GetContainers, CreateContainer, GetContainer,
   UpdateContainer, GetDatabaseUsers, CreateDatabaseUser,
   DeleteDatabaseUser, GetDatabaseUser, UpdateDatabaseUser,
   GetEvents, GetPeers, CreatePeer,
   DeletePeer, GetPeer, UpdatePeer,
   GetProcesses, GetProcessDatabases, GetProcessDatabaseMeasurements,
   GetProcessDisks, GetProcessDiskMeasurements, GetProcessMeasurements}

(***************************************************************************)
(* The end of every do...Request helper: the switch on the status of the   *)
(* response, whose body decodes or does not.                               *)
(***************************************************************************)
Result(kind, status) == [kind |-> kind, status |-> status]

Declared(op, status) == status = op.success \/ status \in op.failures

\* Every declared status but a success without output has a body to decode.
Decoded(op, status) == status \in op.failures \/ (status = op.success /\ op.output)

Classify(op, status, decodes) ==
  CASE ~Declared(op, status)               -> Result("unknown", 0)
    [] Decoded(op, status) /\ ~decodes     -> Result("error", 0)
    [] Declared(op, status) /\ (Decoded(op, status) => decodes) ->
         Result(IF status = op.success THEN "success" ELSE "failure", status)

=============================================================================
