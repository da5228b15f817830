--------------------------- MODULE MCAtlasClient ---------------------------
(***************************************************************************)
(* AtlasClient on small instances.                                         *)
(***************************************************************************)
EXTENDS AtlasClient

Ask(o, policy) == [op |-> o, empty |-> {}, policy |-> policy]

\* One call: every operation under the policy of a new client, one of each kind
\* under the others, and each with a path parameter left empty.
OneCallRequests ==
  {Ask(o, "SingleRetryPolicy") : o \in Operations} \cup
  {Ask(o, policy) : o \in {CreateCluster, UpdatePeer, DeletePeer, GetPeer},
                    policy \in {"NoRetryPolicy", "ExponentialRetryPolicy", "CallersPolicy"}} \cup
  UNION {{[Ask(o, "SingleRetryPolicy") EXCEPT !.empty = {p}] : p \in o.params} :
           o \in Operations}

\* -1 is the limiter's NoDeadline.
OneCallLives == {0, 3, -1}

\* Calls of a client whose timeout is set, with contexts that nobody cancels: only
\* time ends them.
TimeoutLives == {3}

UncancelledNext ==
  \/ \E c \in Calls, r \in Requests, life \in Lives : Start(c, r, life)
  \/ \E c \in Calls : ClientStep(c) \/ Service(c)
  \/ Tick

UncancelledSpec ==
  /\ Init /\ [][UncancelledNext]_vars
  /\ WF_vars(Tick) /\ \A c \in Calls : WF_vars(ClientStep(c))

=============================================================================
