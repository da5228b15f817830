---------------------------- MODULE AtlasClient ----------------------------
(***************************************************************************)
(* A client made by atlas.New (client.go): concurrent calls of WagClient's *)
(* methods, each through the circuit breaker in debug mode, where it only  *)
(* passes on, the retries of retryDoer, one RateLimiter for all of them,   *)
(* and a DigestRequest for every round trip.                               *)
(***************************************************************************)
EXTENDS WagOperations, Integers, Sequences

CONSTANTS
  Calls,      \* calls of the client's methods, each made once
  Period, Burst,
  Lives,      \* what a call's context may have left when it is made
  Challenges, \* the kinds of 401 the service sends
  Failing,    \* the statuses, apart from 401, with which the service fails
  Requests    \* what is asked for: an operation, its path parameters left
              \*   empty, and the retry policy in force

VARIABLES credit, horizon, wait, ttl, turn
VARIABLES unread, body, header, auth, exchange, wire, reply, outcome, open,
          sends, handled

Limiter == INSTANCE RateLimiter
Digest  == INSTANCE DigestRequest

VARIABLES
  stage,    \* stage[c]: where c stands in the client
  request,  \* request[c]: what c asks for
  retries,  \* retries[c]: how often c has been retried
  result    \* result[c]: what the method returned

limiterVars == <<credit, horizon, wait, ttl, turn>>
digestVars  == <<unread, body, header, auth, exchange, wire, reply, outcome,
                 open, sends, handled>>
callVars    == <<stage, request, retries, result>>
vars        == <<limiterVars, digestVars, callVars>>

\* The backoffs of each RetryPolicy.  CallersPolicy is one a caller has written,
\* of one backoff; its Retry may say what it likes.
Backoffs == [NoRetryPolicy |-> 0, SingleRetryPolicy |-> 1,
             ExponentialRetryPolicy |-> 5, CallersPolicy |-> 1]

ASSUME LimiterAssumption ==
  Period \in Nat \ {0} /\ Burst \in Nat \ {0} /\ Lives \subseteq Nat \cup {Limiter!NoDeadline}
ASSUME ChallengesAssumption == Challenges \subseteq Digest!ChallengeKinds
ASSUME FailingAssumption == Failing \subseteq (400..599) \ {401}
ASSUME RequestsAssumption ==
  Requests \subseteq [op : Operations, empty : SUBSET UNION {op.params : op \in Operations},
                      policy : DOMAIN Backoffs]

NoRequest ==
  [op |-> [method |-> "none", success |-> 0], empty |-> {}, policy |-> "NoRetryPolicy"]
NoResult  == Result("none", 0)
ErrorResult == Result("error", 0)

ClientTypeOK ==
  /\ Limiter!LimiterTypeOK
  /\ Digest!DigestTypeOK
  /\ stage \in [Calls -> {"new", "attempt", "sleep", "done"}]
  /\ request \in [Calls -> Requests \cup {NoRequest}]
  /\ \A c \in Calls : retries[c] \in 0..Backoffs[request[c].policy]
  /\ result \in [Calls -> [kind : {"none", "success", "failure", "error", "unknown", "panic"},
                           status : Nat]]

Init ==
  /\ Limiter!LimiterInit
  /\ Digest!DigestInit
  /\ stage = [c \in Calls |-> "new"]
  /\ request = [c \in Calls |-> NoRequest]
  /\ retries = [c \in Calls |-> 0]
  /\ result = [c \in Calls |-> NoResult]

op(c) == request[c].op

Return(c, value) ==
  /\ stage' = [stage EXCEPT ![c] = "done"]
  /\ result' = [result EXCEPT ![c] = value]

(***************************************************************************)
(* A method of WagClient, up to requestDoer.Do.                            *)
(***************************************************************************)
\* The caller's context, cut to defaultTimeout, has life ticks left.
Start(c, r, life) ==
  /\ stage[c] = "new"
  /\ r.empty \subseteq r.op.params
  /\ request' = [request EXCEPT ![c] = r]
  /\ IF r.empty = {}
     THEN /\ stage' = [stage EXCEPT ![c] = "attempt"]
          /\ Limiter!NewContext(c, life)
          /\ UNCHANGED result
     ELSE /\ Return(c, ErrorResult)
          /\ UNCHANGED limiterVars
  /\ UNCHANGED <<retries, digestVars>>

(***************************************************************************)
(* RateLimitedRoundTripper.RoundTrip and, behind it, DigestTransport's.    *)
(***************************************************************************)
WaitForToken(c) ==
  /\ stage[c] = "attempt"
  /\ Limiter!LimiterStep(c)
  /\ UNCHANGED <<digestVars, callVars>>

\* Mutant of RoundTrip: the limiter's error is ignored.
RoundTripUnlimited(c) ==
  /\ stage[c] = "attempt"
  /\ turn[c] \in {"granted", "refused"}
  /\ Digest!RoundTrip(c)
  /\ UNCHANGED <<limiterVars, callVars>>

RoundTrip(c) ==
  /\ stage[c] = "attempt"
  /\ turn[c] = "granted"
  /\ Digest!RoundTrip(c)
  /\ UNCHANGED <<limiterVars, callVars>>

Handshake(c) ==
  /\ \/ Digest!Answer(c) \/ Digest!Unanswerable(c)
     \/ Digest!Deliver(c) \/ Digest!Fail(c)
  /\ UNCHANGED <<limiterVars, callVars>>

(***************************************************************************)
(* retryDoer.Do and the rest of the method.                                *)
(***************************************************************************)
\* Mutant of Retryable: any method is retried.
RetryableByAnyMethod(r, status) == status >= 500

\* Retry of SingleRetryPolicy and ExponentialRetryPolicy, given a response.
Retryable(r, status) == r.op.method \notin {"POST", "PATCH"} /\ status >= 500

\* Mutant of RetriesLeft: one backoff too many.
RetriesLeftOver(c) == retries[c] <= Backoffs[request[c].policy]

RetriesLeft(c) == retries[c] # Backoffs[request[c].policy]

Answered(c) == stage[c] = "attempt" /\ outcome[c].kind = "response"

Errored(c) ==
  stage[c] = "attempt" /\ (turn[c] = "refused" \/ outcome[c].kind = "error")

\* What Retry may say to the outcome: the policies of this package say no to
\* every error.
Verdicts(c) ==
  IF request[c].policy = "CallersPolicy" THEN BOOLEAN
  ELSE {Answered(c) /\ Retryable(request[c], outcome[c].status)}

MayRetry(c) == RetriesLeft(c) /\ TRUE \in Verdicts(c)

MayReturn(c) == RetriesLeft(c) => FALSE \in Verdicts(c)

\* The response is closed, and the goroutine sleeps without watching its context.
Retry(c) ==
  /\ Answered(c)
  /\ MayRetry(c)
  /\ Limiter!Return(c)
  /\ Digest!Consume(c)
  /\ stage' = [stage EXCEPT ![c] = "sleep"]
  /\ retries' = [retries EXCEPT ![c] = @ + 1]
  /\ UNCHANGED <<request, result>>

\* Mutant of Wake: the next attempt finds the body read.
WakeDrained(c) ==
  /\ stage[c] = "sleep"
  /\ stage' = [stage EXCEPT ![c] = "attempt"]
  /\ UNCHANGED <<limiterVars, digestVars, request, retries, result>>

\* The next attempt gets the saved body again.
Wake(c) ==
  /\ stage[c] = "sleep"
  /\ stage' = [stage EXCEPT ![c] = "attempt"]
  /\ unread' = [unread EXCEPT ![c] = TRUE]
  /\ UNCHANGED <<limiterVars, body, header, auth, exchange, wire, reply, outcome,
                 open, sends, handled, request, retries, result>>

\* The response's body is decoded, for a declared status, and closed.
Conclude(c) ==
  /\ Answered(c)
  /\ MayReturn(c)
  /\ \E decodes \in BOOLEAN :
       Return(c, Classify(op(c), outcome[c].status, decodes))
  /\ Limiter!Return(c)
  /\ Digest!Consume(c)
  /\ UNCHANGED <<request, retries>>

\* The method returns the error.
GiveUp(c) ==
  /\ Errored(c)
  /\ MayReturn(c)
  /\ IF turn[c] = "refused" THEN UNCHANGED digestVars ELSE Digest!Consume(c)
  /\ Limiter!Return(c)
  /\ Return(c, ErrorResult)
  /\ UNCHANGED <<request, retries>>

\* A panic unwinds the method: that of hash, or that of closing the response that
\* an error to be retried does not have.
Unwind(c) ==
  /\ \/ stage[c] = "attempt" /\ outcome[c].kind = "panic"
     \/ Errored(c) /\ MayRetry(c)
  /\ Return(c, Result("panic", 0))
  /\ UNCHANGED <<request, retries, limiterVars, digestVars>>

(***************************************************************************)
(* The caller, the service and time.                                       *)
(***************************************************************************)
CancelCall(c) ==
  /\ stage[c] \in {"attempt", "sleep"}
  /\ Limiter!CancelContext(c)
  /\ UNCHANGED <<digestVars, callVars>>

Service(c) ==
  /\ Digest!Service(c, Failing \cup {op(c).success})
  /\ UNCHANGED <<limiterVars, callVars>>

Tick == Limiter!Tick /\ UNCHANGED <<digestVars, callVars>>

ClientStep(c) ==
  \/ WaitForToken(c) \/ RoundTrip(c) \/ Handshake(c)
  \/ Retry(c) \/ Wake(c) \/ Conclude(c) \/ GiveUp(c) \/ Unwind(c)

Next ==
  \/ \E c \in Calls, r \in Requests, life \in Lives : Start(c, r, life)
  \/ \E c \in Calls : ClientStep(c) \/ CancelCall(c) \/ Service(c)
  \/ Tick

Spec == Init /\ [][Next]_vars

\* Goroutines run, timers fire, and every exchange ends with its response or
\* with the 30 seconds of its http.Client; the service owes nothing.
FairSpec == Spec /\ WF_vars(Tick) /\ \A c \in Calls : WF_vars(ClientStep(c))

(***************************************************************************)
(* Properties.                                                             *)
(***************************************************************************)
OnceOnly(r) ==
  r.op.method \in {"POST", "PATCH"} /\ r.policy # "CallersPolicy"

\* What a call creates or changes is created or changed at most once, whatever
\* is lost, late, challenged or answered with a 5XX, as long as the policy is one
\* of this package (doer.go:90 and 115).
AtMostOnce == \A c \in Calls : OnceOnly(request[c]) => handled[c] <= 1

\* A retried operation is carried out at most once per attempt, although an
\* attempt sends up to two requests and later ones start with a credential of
\* an earlier one.
OncePerAttempt == \A c \in Calls : handled[c] <= retries[c] + 1

\* A request that has a body carries all of it: on both legs of the handshake and
\* on every attempt (doer.go:155-171, digest_auth_client.go:63).
WholeBody ==
  \A c \in Calls : \A r \in wire[c] : request[c].op.body => r.body

\* A method returns with every response body closed, the ones it retried and
\* the challenges included, and never holds two.
NothingLeftOpen ==
  \A c \in Calls : open[c] <= IF stage[c] = "done" THEN 0 ELSE 1

\* A token pays for one handshake: two requests at most.
TwoSendsPerToken == \A c \in Calls : sends[c] <= 2 * (retries[c] + 1)

\* Once its context is done a call reserves no token, not even when it slept through
\* the end of the context between attempts, and sends nothing but the round trip it
\* was let through for (limits.go:31-36).  What it reserved before may still be used:
\* a timer that fires with the end of the context may let it through, and one that
\* was let through sends both requests of its handshake (NoAnswerAfterTimeout).
NoNewTurnAfterDeadline ==
  [][\A c \in Calls : ttl[c] = 0 =>
       /\ turn[c] \in {"idle", "refused"} => turn'[c] \in {"idle", "refused"}
       /\ sends'[c] # sends[c] => turn[c] = "granted"]_vars

\* Every call returns, whatever the service does or does not do.
Returns == \A c \in Calls : stage[c] # "new" ~> stage[c] = "done"

(***************************************************************************)
(* The client implements ApiCall: what its callers may conclude from what  *)
(* a method returns.                                                       *)
(***************************************************************************)
Asked(c) == stage[c] # "new" /\ request[c].empty = {}

Answer(c) ==
  CASE stage[c] # "done"           -> "pending"
    [] stage[c] = "done" /\ ~Asked(c) -> "declined"
    [] Asked(c) /\ result[c].kind = "success" -> "done"
    [] Asked(c) /\ result[c].kind = "failure" /\ result[c].status < 500 -> "rejected"
    [] OTHER -> "unknown"

Api == INSTANCE ApiCall WITH
  Limits  <- {Backoffs[policy] + 1 : policy \in DOMAIN Backoffs},
  limit   <- [c \in Calls |->
                IF ~Asked(c) THEN 0
                ELSE IF OnceOnly(request[c]) THEN 1
                ELSE Backoffs[request[c].policy] + 1],
  effects <- handled,
  answer  <- [c \in Calls |-> Answer(c)]

ImplementsApiCall == Api!Spec

(***************************************************************************)
(* Statements of the code's documentation.                                 *)
(***************************************************************************)
\* http.RoundTripper: a round trip does not modify the request it is given.
RequestUnmodified == \A c \in Calls : header[c] = <<>>

\* The timeout of a client is one on all of an operation: once it is over, the call
\* does not answer a challenge with a second request.
NoAnswerAfterTimeout ==
  [][\A c \in Calls : ttl[c] = 0 =>
       ~(exchange[c] = "probe" /\ exchange'[c] = "answer")]_vars

\* RetryPolicy: Retry is given the result of Do, error or not, and what it says is
\* what happens, so that no call ends in a panic.
NeverPanics == \A c \in Calls : result[c].kind # "panic"

\* The limiter limits the requests made to the Atlas API: each has its token.
OneSendPerToken == \A c \in Calls : sends[c] <= retries[c] + 1

=============================================================================
