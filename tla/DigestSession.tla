--------------------------- MODULE DigestSession ---------------------------
(***************************************************************************)
(* A DigestRequest used through its own API: NewRequest or UpdateRequest   *)
(* gives it a request, Execute sends it, again and again on one            *)
(* authentication, by a caller that closes what it gets.                   *)
(***************************************************************************)
EXTENDS DigestRequest

CONSTANT Statuses   \* what the service answers with, apart from challenges

ASSUME StatusesAssumption == Statuses \subseteq (200..599) \ {401}

VARIABLE executions \* executions[c]: calls of Execute so far

sessionVars == <<digestVars, executions>>

SessionInit == DigestInit /\ executions = [c \in Calls |-> 0]

Execute(c) ==
  /\ \/ executions[c] = 0 /\ RoundTrip(c)
     \/ executions[c] > 0 /\ (ExecuteExisting(c) \/ ExecuteUnknown(c))
  /\ executions' = [executions EXCEPT ![c] = @ + 1]

SessionStep(c) ==
  \/ Execute(c)
  \/ /\ \/ Answer(c) \/ Unanswerable(c) \/ Deliver(c) \/ Fail(c) \/ Consume(c)
        \/ (executions[c] > 0 /\ UpdateRequest(c))
        \/ Service(c, Statuses)
     /\ UNCHANGED executions

SessionNext == \E c \in Calls : SessionStep(c)

SessionSpec == SessionInit /\ [][SessionNext]_sessionVars

(***************************************************************************)
(* Properties.                                                             *)
(***************************************************************************)
\* The service may refuse a nonce count it has seen: no two credentials that a
\* request carries, fresh or left over from earlier ones on the same header, name the
\* same nonce with the same count, whatever challenges without a nonce come between
\* (refreshAuthorization, authorization.go:60).
FreshCredentials ==
  \A c \in Calls : \A i, j \in DOMAIN header[c] :
    i # j /\ header[c][i].nonce # 0 => header[c][i] # header[c][j]

\* A call of Execute has its request carried out at most once, although it may
\* send it twice, the first of them with credentials left over in the header,
\* and although a request may be taken up long after its sender has given up.
OncePerExecution == \A c \in Calls : handled[c] <= executions[c]

\* Each of the two requests of a handshake carries the whole body: the answer
\* to the challenge does not find it consumed by the probe.
WholeBody == \A c \in Calls : \A r \in wire[c] : r.body

\* A response that Execute returns is the only one its caller has to close: the
\* first response of a handshake never stays open.
OneToClose ==
  \A c \in Calls : open[c] = IF outcome[c].kind = "response" THEN 1 ELSE 0

\* Once authenticated, a DigestRequest never turns to another nonce, even when
\* the service challenges it anew.
NonceKept ==
  [][\A c \in Calls : auth[c] # NoAuth => auth'[c].nonce = auth[c].nonce]_sessionVars

=============================================================================
