--------------------------- MODULE DigestRequest ---------------------------
(***************************************************************************)
(* The digest handshake of digestauth/digest_auth_client.go, for several   *)
(* requests at once.  Execute sends a request without a credential (the    *)
(* probe); a 401 with a challenge is answered by the same request with a   *)
(* credential (the answer).  A DigestRequest that already has a credential *)
(* skips the probe.                                                        *)
(*                                                                         *)
(* The service is external: it may take up a request at any time, also one *)
(* whose sender has given up, and may challenge any request.               *)
(***************************************************************************)
EXTENDS Naturals, Sequences, FiniteSets, SequencesExt

CONSTANTS
  Calls,       \* one DigestRequest each
  Challenges   \* the kinds of 401 the service sends: a subset of ChallengeKinds

\* A 401 whose WWW-Authenticate names a nonce and an algorithm that hash knows, one
\* that names no nonce, one with an algorithm that hash does not know, and one without
\* the header.
ChallengeKinds == {"usable", "nonceless", "unsupported", "missing"}

\* The ones that Execute answers: an empty nonce is as good as any.
Answerable == {"usable", "nonceless"}

ASSUME ChallengesAssumption == Challenges \subseteq ChallengeKinds

VARIABLES
  unread,    \* unread[c]: the caller's req.Body still has its bytes
  body,      \* body[c]: dr.Body holds all of them
  header,    \* header[c]: the Authorization values in dr.Header, a map that
             \*   is the caller's own
  auth,      \* auth[c]: dr.Auth
  exchange,  \* exchange[c]: what an http.Client is now sending for c
  wire,      \* wire[c]: the requests of c the service has not taken up
  reply,     \* reply[c]: the response on its way to c
  outcome,   \* outcome[c]: what Execute returned
  open,      \* open[c]: response bodies of c received and not closed
  sends,     \* sends[c]: requests of c put on the wire
  handled    \* handled[c]: how often the service has carried out c's request

digestVars == <<unread, body, header, auth, exchange, wire, reply, outcome,
                open, sends, handled>>

NoAuth    == [nonce |-> 0, nc |-> 0]
NoReply   == [status |-> 0, challenge |-> "none", nonce |-> 0]
NoOutcome == [kind |-> "none", status |-> 0]
Failed    == [kind |-> "error", status |-> 0]
Panicked  == [kind |-> "panic", status |-> 0]
Response(status) == [kind |-> "response", status |-> status]

DigestTypeOK ==
  /\ unread \in [Calls -> BOOLEAN] /\ body \in [Calls -> BOOLEAN]
  /\ header \in [Calls -> Seq([nonce : Nat, nc : Nat])]
  /\ auth \in [Calls -> [nonce : Nat, nc : Nat]]
  /\ exchange \in [Calls -> {"none", "probe", "answer"}]
  /\ \A c \in Calls : \A r \in wire[c] :
       r \in [seq : 1..sends[c], auths : Seq([nonce : Nat, nc : Nat]), body : BOOLEAN]
  /\ reply \in [Calls -> [status : Nat, challenge : ChallengeKinds \cup {"none"}, nonce : Nat]]
  /\ outcome \in [Calls -> [kind : {"none", "error", "panic", "response"}, status : Nat]]
  /\ open \in [Calls -> Nat] /\ sends \in [Calls -> Nat] /\ handled \in [Calls -> Nat]

DigestInit ==
  /\ unread = [c \in Calls |-> TRUE] /\ body = [c \in Calls |-> FALSE]
  /\ header = [c \in Calls |-> <<>>] /\ auth = [c \in Calls |-> NoAuth]
  /\ exchange = [c \in Calls |-> "none"] /\ outcome = [c \in Calls |-> NoOutcome]
  /\ open = [c \in Calls |-> 0] /\ sends = [c \in Calls |-> 0]
  /\ wire = [c \in Calls |-> {}] /\ reply = [c \in Calls |-> NoReply]
  /\ handled = [c \in Calls |-> 0]

(***************************************************************************)
(* The client.                                                             *)
(***************************************************************************)
\* http.NewRequest with dr.Body and dr.Header, and the start of client.Do.
Send(c, leg, auths, payload) ==
  /\ exchange' = [exchange EXCEPT ![c] = leg]
  /\ header' = [header EXCEPT ![c] = auths]
  /\ sends' = [sends EXCEPT ![c] = @ + 1]
  /\ wire' = [wire EXCEPT ![c] =
       @ \cup {[seq |-> sends[c] + 1, auths |-> auths, body |-> payload]}]

\* Mutant of ExecuteRequest: the reader that the probe has drained is sent again.
ExecuteRequestDrained(c, credential, payload) ==
  Send(c, "answer", Append(header[c], credential), FALSE)

\* executeRequest: req.Header.Add leaves what the map already holds.
ExecuteRequest(c, credential, payload) ==
  Send(c, "answer", Append(header[c], credential), payload)

Ready(c) == exchange[c] = "none" /\ outcome[c] = NoOutcome

\* DigestTransport.RoundTrip: a new DigestRequest, its body read from the
\* caller's, its header the caller's, and Execute as far as the first request.
RoundTrip(c) ==
  /\ Ready(c)
  /\ unread' = [unread EXCEPT ![c] = FALSE]
  /\ body' = [body EXCEPT ![c] = unread[c]]
  /\ auth' = [auth EXCEPT ![c] = NoAuth]
  /\ Send(c, "probe", header[c], unread[c])
  /\ UNCHANGED <<reply, outcome, open, handled>>

\* Mutant of Refreshed: the nonce count stays.
RefreshedUncounted(c) == auth[c]

\* refreshAuthorization: the nonce again, under the next nonce count.
Refreshed(c) == [auth[c] EXCEPT !.nc = @ + 1]

\* Execute of a DigestRequest that has authenticated before.
ExecuteExisting(c) ==
  /\ Ready(c)
  /\ auth[c] # NoAuth
  /\ auth' = [auth EXCEPT ![c] = Refreshed(c)]
  /\ ExecuteRequest(c, Refreshed(c), body[c])
  /\ UNCHANGED <<unread, body, reply, outcome, open, handled>>

\* Execute of one that has not.
ExecuteUnknown(c) ==
  /\ Ready(c)
  /\ auth[c] = NoAuth
  /\ Send(c, "probe", header[c], body[c])
  /\ UNCHANGED <<unread, body, auth, reply, outcome, open, handled>>

Arrived(c) == exchange[c] # "none" /\ reply[c] # NoReply

\* Mutant of Challenged: a 401 to the answer is taken for a new challenge.
ChallengedAgain(c) == Arrived(c) /\ reply[c].status = 401

Challenged(c) == Arrived(c) /\ exchange[c] = "probe" /\ reply[c].status = 401

\* executeNewDigest, its first response closed, up to the second request.
Answer(c) ==
  /\ Challenged(c)
  /\ reply[c].challenge \in Answerable
  /\ ExecuteRequest(c, [nonce |-> reply[c].nonce, nc |-> 1], body[c])
  /\ reply' = [reply EXCEPT ![c] = NoReply]
  /\ UNCHANGED <<unread, body, auth, outcome, open, handled>>

Finish(c, result) ==
  /\ exchange' = [exchange EXCEPT ![c] = "none"]
  /\ reply' = [reply EXCEPT ![c] = NoReply]
  /\ outcome' = [outcome EXCEPT ![c] = result]
  /\ UNCHANGED <<unread, body, header, wire, sends, handled>>

\* Mutant of Unanswerable: it returns before the response is closed.
UnanswerableUnclosed(c) ==
  /\ Challenged(c)
  /\ reply[c].challenge \notin Answerable
  /\ Finish(c, Failed)
  /\ open' = [open EXCEPT ![c] = @ + 1]
  /\ UNCHANGED auth

\* A challenge without a header is an error; hash has no function for an
\* algorithm it does not know, and writing to none panics.
Unanswerable(c) ==
  /\ Challenged(c)
  /\ reply[c].challenge \notin Answerable
  /\ Finish(c, IF reply[c].challenge = "missing" THEN Failed ELSE Panicked)
  /\ UNCHANGED <<auth, open>>

\* A response to hand to the caller, its body open.  Once the second leg of a
\* handshake has been answered, its credential is kept.
Deliver(c) ==
  /\ Arrived(c)
  /\ ~Challenged(c)
  /\ Finish(c, Response(reply[c].status))
  /\ open' = [open EXCEPT ![c] = @ + 1]
  /\ auth' = IF exchange[c] = "answer"
             THEN [auth EXCEPT ![c] = Last(header[c])] ELSE auth

\* Mutant of Fail: a request that fails is sent again.
FailResent(c) ==
  /\ exchange[c] # "none"
  /\ Send(c, exchange[c], header[c], body[c])
  /\ UNCHANGED <<unread, body, auth, reply, outcome, open, handled>>

\* Mutant of Fail: the http.Client has no timeout, and waits for ever.
FailNever(c) == FALSE

\* The network, or the 30 seconds of the http.Client: nothing tells whether the
\* service has taken the request up, or will.
Fail(c) ==
  /\ exchange[c] # "none"
  /\ Finish(c, Failed)
  /\ UNCHANGED <<auth, open>>

\* Mutant of Closed: a body is closed even when Execute returned an error.
ClosedUnseen(c) == [open EXCEPT ![c] = @ - 1]

Closed(c) ==
  IF outcome[c].kind = "response" THEN [open EXCEPT ![c] = @ - 1] ELSE open

\* The caller has taken what Execute returned, and closed its body.
Consume(c) ==
  /\ outcome[c].kind \in {"response", "error"}
  /\ outcome' = [outcome EXCEPT ![c] = NoOutcome]
  /\ open' = Closed(c)
  /\ UNCHANGED <<unread, body, header, auth, exchange, wire, reply, sends, handled>>

\* UpdateRequest gives a DigestRequest a new request, with the header of the
\* last one or another.
UpdateRequest(c) ==
  /\ Ready(c)
  /\ body' = [body EXCEPT ![c] = TRUE]
  /\ \E same \in BOOLEAN :
       header' = IF same THEN header ELSE [header EXCEPT ![c] = <<>>]
  /\ UNCHANGED <<unread, auth, exchange, wire, reply, outcome, open, sends, handled>>

(***************************************************************************)
(* The service.                                                            *)
(***************************************************************************)
\* Its response reaches the client that still waits for this very request.
Respond(c, r, response) ==
  /\ wire' = [wire EXCEPT ![c] = @ \ {r}]
  /\ reply' = IF exchange[c] # "none" /\ r.seq = sends[c]
              THEN [reply EXCEPT ![c] = response] ELSE reply
  /\ UNCHANGED <<unread, body, header, auth, exchange, outcome, open, sends>>

\* A nonce is never named twice; 0 stands for none.
Challenge(c, r, kind) ==
  /\ Respond(c, r, [status |-> 401, challenge |-> kind,
                    nonce |-> IF kind = "nonceless" THEN 0 ELSE r.seq])
  /\ UNCHANGED handled

\* Only a request with a credential is carried out: always when it succeeds,
\* never when it is rejected, and either way when the service breaks down.
Serve(c, r, status, effect) ==
  /\ status < 300 => effect
  /\ effect => r.auths # <<>> /\ status \notin 300..499
  /\ Respond(c, r, [status |-> status, challenge |-> "none", nonce |-> 0])
  /\ handled' = IF effect THEN [handled EXCEPT ![c] = @ + 1] ELSE handled

Service(c, statuses) ==
  \E r \in wire[c] :
    \/ \E kind \in Challenges : Challenge(c, r, kind)
    \/ \E status \in statuses, effect \in BOOLEAN : Serve(c, r, status, effect)

=============================================================================
