---------------------------- MODULE JsOperations ----------------------------
(***************************************************************************)
(* The operations of gen-js/index.js, one record each, under the names of  *)
(* the Go client.  A path parameter must be true as JavaScript sees it:    *)
(* neither empty nor, for a port, zero.                                    *)
(***************************************************************************)
EXTENDS Naturals

Group     == {"groupID"}
Cluster   == Group \cup {"clusterName"}
Container == Group \cup {"containerID"}
User      == Group \cup {"username"}
Peer      == Group \cup {"peerID"}
Process   == Group \cup {"host", "port"}

\* Query parameters are sent if they are not undefined.
Pages    == {"pageNum", "itemsPerPage"}
Measures == Pages \cup {"granularity", "period", "start", "end", "m"}

JsQuery(name, method, success, failures, params, query) ==
  [name |-> name, method |-> method, success |-> success,
   failures |-> failures, params |-> params, query |-> query]

JsOperation(name, method, success, failures, params) ==
  JsQuery(name, method, success, failures, params, {})

\* The failures most operations have an Error for.
Usual == {400, 401, 403, 404, 409, 429, 500}

getClusters == JsOperation("GetClusters", "GET", 200, Usual, Group)

\* Mutant of createCluster: the usual status of success.
createClusterOk == JsOperation("CreateCluster", "POST", 200, Usual, Group)

createCluster == JsOperation("CreateCluster", "POST", 201, Usual, Group)
deleteCluster == JsOperation("DeleteCluster", "DELETE", 202, Usual, Cluster)
getCluster == JsOperation("GetCluster", "GET", 200, Usual, Cluster)
updateCluster == JsOperation("UpdateCluster", "PATCH", 200, Usual, Cluster)
restartPrimaries == JsOperation("RestartPrimaries", "POST", 200, Usual, Cluster)
getRestoreJobs == JsQuery("GetRestoreJobs", "GET", 200, Usual, Cluster, Pages)
createRestoreJob == JsOperation("CreateRestoreJob", "POST", 200, Usual, Cluster)
getSnapshotSchedule ==
  JsOperation("GetSnapshotSchedule", "GET", 200, {400, 404, 500}, Cluster)
updateSnapshotSchedule ==
  JsOperation("UpdateSnapshotSchedule", "PATCH", 200, Usual, Cluster)
getSnapshots ==
  JsOperation("GetSnapshots", "GET", 200, {400, 404, 409, 500}, Cluster)
getRestoreJob ==
  JsOperation("GetRestoreJob", "GET", 200, Usual,
              Group \cup {"sourceClusterName", "jobID"})
getContainers == JsOperation("GetContainers", "GET", 200, Usual, Group)
createContainer == JsOperation("CreateContainer", "POST", 201, Usual, Group)
getContainer ==
  JsOperation("GetContainer", "GET", 200, {400, 404, 409, 500}, Container)
updateContainer ==
  JsOperation("UpdateContainer", "PATCH", 200, Usual, Container)
getDatabaseUsers == JsOperation("GetDatabaseUsers", "GET", 200, Usual, Group)
createDatabaseUser ==
  JsOperation("CreateDatabaseUser", "POST", 201, Usual, Group)
deleteDatabaseUser ==
  JsOperation("DeleteDatabaseUser", "DELETE", 200, Usual, User)
getDatabaseUser ==
  JsOperation("GetDatabaseUser", "GET", 200, {400, 404, 409, 500}, User)
updateDatabaseUser ==
  JsOperation("UpdateDatabaseUser", "PATCH", 200, Usual, User)
getEvents ==
  JsQuery("GetEvents", "GET", 200, {400, 401, 403, 404, 500}, Group,
          Pages \cup {"pretty", "eventType", "minDate", "maxDate"})
getPeers == JsOperation("GetPeers", "GET", 200, {400, 401, 404, 500}, Group)
createPeer ==
  JsOperation("CreatePeer", "POST", 201, {400, 401, 404, 500}, Group)
deletePeer ==
  JsOperation("DeletePeer", "DELETE", 200, {400, 401, 404, 500}, Peer)
getPeer == JsOperation("GetPeer", "GET", 200, {400, 404, 500}, Peer)
updatePeer ==
  JsOperation("UpdatePeer", "PATCH", 200, {400, 401, 404, 500}, Peer)
getProcesses == JsOperation("GetProcesses", "GET", 200, Usual, Group)
getProcessDatabases ==
  JsQuery("GetProcessDatabases", "GET", 200, Usual, Process, Pages)
getProcessDatabaseMeasurements ==
  JsQuery("GetProcessDatabaseMeasurements", "GET", 200, Usual,
          Process \cup {"databaseID"}, Measures)
getProcessDisks == JsQuery("GetProcessDisks", "GET", 200, Usual, Process, Pages)
getProcessDiskMeasurements ==
  JsQuery("GetProcessDiskMeasurements", "GET", 200, Usual,
          Process \cup {"diskName"}, Measures)
getProcessMeasurements ==
  JsQuery("GetProcessMeasurements", "GET", 200, Usual, Process, Measures)

JsOperations ==
  {getClusters, createCluster, deleteCluster, getCluster,
   updateCluster, restartPrimaries, getRestoreJobs, createRestoreJob,
   getSnapshotSchedule, updateSnapshotSchedule, getSnapshots, getRestoreJob,
   getContainers, createContainer, getContainer, updateContainer,
   getDatabaseUsers, createDatabaseUser, deleteDatabaseUser, getDatabaseUser,
   updateDatabaseUser, getEvents, getPeers, createPeer,
   deletePeer, getPeer, updatePeer, getProcesses,
   getProcessDatabases, getProcessDatabaseMeasurements,
   getProcessDisks, getProcessDiskMeasurements, getProcessMeasurements}

\* The switch of requestOnce: the promise is resolved, rejected with the Error of
\* the status, or rejected with one for a status that is not expected.
Settlement(op, status) ==
  CASE status = op.success     -> "success"
    [] status \in op.failures -> "failure"
    [] OTHER                   -> "unknown"

=============================================================================
