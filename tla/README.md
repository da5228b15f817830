# atlas-api-client: a verification project

TLA+ specifications of the Go and the JavaScript client for the MongoDB Atlas
API in this repository, the TLC runs that check them on small instances, and theorems
about them, proved with TLAPS for every value of the constants.

## 1. Inventory

A client made by `atlas.New` (`client.go`) is a stack. A call passes through it
from top to bottom, in the goroutine of its caller; any number of calls share
one client.

| Part | Code | State | Operations |
|---|---|---|---|
| Operations | `gen-go/client/client.go`, `gen-go/models/inputs.go` | default timeout | 33 methods: build the path, marshal the body, set the timeout, do the request, decode the response by its status |
| Circuit breaker | `gen-go/client/doer.go:183-335` | circuit in hystrix-go, `debug` | in debug mode (the default) pass on, then record; otherwise run inside hystrix |
| Circuit event log | `doer.go:234-303` | last event and last log time per circuit | subscribe, filter, log |
| Retries | `doer.go:65-181` | the saved body, the number of retries | `Do`, `Backoffs`, `Retry`, `WithRetryPolicy` |
| Tracing | `doer.go:39-63` | none | add headers, pass on |
| Rate limiter | `limits/limits.go`, `client.go:15` | a token bucket of `golang.org/x/time/rate` | `RoundTrip`: wait for a token, pass on |
| Digest authentication | `digestauth/digest_auth_client.go` | `DigestRequest`: body, header, credential | `NewRequest`, `UpdateRequest`, `Execute`, `RoundTrip` |
| Digest credentials | `digestauth/authorization.go`, `www_authenticate.go` | nonce, nonce count, algorithm | parse a challenge, refresh and print a credential |
| Models | `gen-go/models` | none | data types, JSON, validation |
| JavaScript client | `gen-js/index.js` | the command of hystrixjs and its count of executions, options | the same 33 operations, `requestOnce`, three retry policies, `applyCallback` |

The JavaScript client is a program of its own, of one thread: it shares the API
with the Go client and nothing else.

The parts meet in few places: the token bucket is shared by all calls; the
header map of a request is shared by the retries of `retryDoer`, the round
tripper and both requests of the handshake; the body of a request is consumed
by who reads it and restored by `retryDoer`; the context of a call is seen by
the limiter, and by nothing behind it.

What is hard here:

* *Concurrency and time.* Reservations, timers, deadlines and cancellations of
  several calls meet in the bucket; a cancelled reservation gives back a token
  that later ones may already count on.
* *Retries on retries.* A call is up to six attempts, an attempt up to two
  requests, and a request may be carried out although the client has given up.
* *Shared leftovers.* Credentials accumulate in the header map; the body is
  read once per attempt; each response has to be closed once on each path.
* *Deadlines.* Only the limiter looks at the context of the call: not the sleep
  between attempts, nor the requests of the handshake, which have 30 seconds of
  their own.
* *hystrix beside the call.* A command of hystrix has a goroutine and a timer of
  its own, which race for its ticket and its report, and without debug its
  closure shares two variables with the caller that waits for it.
* *Callbacks.* In JavaScript a call runs in pieces, the callbacks of the request
  library, of a timer and of a promise, and holds one of a limited number of
  executions from the first to the last.

What makes each part correct is stated in section 3; `PROJECT.json` lists the
hazards, line by line, with the properties that cover them.

## 2. Modules

```
ApiCall                        what a caller may rely on (abstract)
   ^ implemented by
   +-- AtlasClient --EXTENDS-- WagOperations   one record per operation
   |      |  INSTANCE               ^ compared with, by SameAsGo
   |      +-- RateLimiter <--EXTENDS-- RateLimiterHistory <-- RateLimiterProofs
   |      +-- DigestRequest <-EXTENDS- DigestSession <-EXTENDS- DigestCredential
   +-- JsClient --EXTENDS-- JsOperations       one record per operation

CircuitBreaker <--EXTENDS-- CircuitBreakerProofs   what stands between the two:
CircuitLog     <--EXTENDS-- CircuitLogProofs       a method and its attempts
```

Each `MC...` module instantiates one of them for TLC; `CircuitBreaker` and
`CircuitLog` need none. The other proofs, each extending what it is about:

```
DigestSession    <-- DigestSessionProofs <-- DigestCredentialProofs (also of DigestCredential)
AtlasClient      <-- AtlasClientProofs   <-- AtlasClientApiProofs
JsClient         <-- JsClientProofs
```

**RateLimiter** is `RateLimitedRoundTripper.RoundTrip` with the bucket behind
it. `credit` is the bucket, in ticks; `horizon` is `Limiter.lastEvent`;
`wait[c]` is the due of c's reservation; `ttl[c]` what its context has left.
`Reserve` and `Refuse` are the two ends of `Wait` before it sleeps, `Fire` its
timer, `Cancel` the end of the context and `Reservation.CancelAt`. Time is
discrete and a timer may fire late, as goroutines do: the promises are about
when a request is *due*. The library is external and modelled from the way
`limits.go` uses it: one token per request, a finite rate, a burst of at least
one.

**RateLimiterHistory** adds what the promise is about: the reservations not
cancelled, each with its due and the credit spent up to it. The history never
constrains a step.

**DigestRequest** is the handshake. `RoundTrip` makes a `DigestRequest` from a
request; `ExecuteUnknown`, `Answer`, `ExecuteExisting` send; `Deliver`, `Fail`
and `Unanswerable` are the ways `Execute` returns, the last one with the panic
of a nil hash included. `header[c]` is the header map of the *caller's* request,
which the code shares. The service is external and unhelpful: it takes up
requests at any time, also late, or never, and may challenge anything; it
carries out only what has a credential, always when it reports success, never
when it rejects, and either way when it breaks down. A challenge may name a nonce
or none (the code answers both, `Answerable`), an unknown algorithm, or be missing.

**DigestSession** uses a `DigestRequest` through its own API, again and again.

**DigestCredential** adds what its credentials say. `target[c]` stands for user,
password, method and URI of the `DigestRequest`, which `UpdateRequest` replaces
(`Retarget`); `asked[c]` is the challenge last answered as the service sent it,
`wa[c]` as the code has parsed it, `ah[c]` the authorization last made. Texts and digests are terms, equal if they were made of the same
things, so that `newAuthorization`, `refreshAuthorization`, `computeA1`,
`computeA2` and `toString` are those of the code. What the parser's regular
expressions do to `userhash` and `stale`, that `computeA2` assigns the `qop` its
caller formats beside it, and that empty fields are not printed, is kept. In which
order the `qop` is read and assigned there Go leaves open (`QopFirst`); the go
compiler reads it last, which the runs assume.

**CircuitBreaker** is `circuitBreakerDoer.Do` for several calls on one circuit,
from the method that calls it to what the method returns. `stage[c]` is the
goroutine of the caller, `command[c]` that of the hystrix command; `resp[c]` and
`err[c]` are the variables of `Do`. With debug, `DoDebug` and `PassedOn` pass the
call on, `Look` is the closure, `DoneDebug` the return. Without, `Begin`,
`AssignResp` and `AssignErr` are the closure, one assignment at a time,
`AssignAnswer`, `LoadResp` and `LoadErr` the caller: a closure that outlives its
timer writes what the caller reads. hystrix-go is external and modelled after its
public behaviour: admission (`Admits`, one test per sleep window), a ticket,
refusals, a timer and the goroutine of the command of which one claims the end
(`Finish`, `TimeOut`), the counts that open the circuit (`Report`). What is
passed on ends as `retryDoer.Do` may: with a response, an error or a panic.
`SetCircuitBreakerDebug` may be called between calls, so calls of both modes
share the circuit.

**CircuitLog** is the loop that `init` starts: `Subscribe` and `StreamEnds` are
its outer loop, `Receive` its inner one, with `seen[k]` for `lastEventSeen` and
`elapsed[k]` for the time since `lastEventLogTime`, in ticks that are not exact
(`Overdue`). Circuits open and close at will. hystrix publishes every second,
whether or not the loop keeps up: up to `Buffer` events about a circuit are held up
in channels and connections (`queue[k]`) and may be received in one instant, and
others are dropped. A stream breaks at any time; it may resume, end, or stay broken
for ever, as the library that reads it decides, since the code does nothing about it.

**WagOperations** has a record for each of the 33 operations, read off the
methods and the `Path` methods of their inputs, with the parameters of the path
and of the query, and `Classify`, the switch at
the end of each. All of them are cut from one template, which `AtlasClient`
models once.

**AtlasClient** is the whole: `Start` is a method up to `requestDoer.Do`,
`WaitForToken`, `RoundTrip` and `Handshake` are one attempt, `Retry` and `Wake`
are the loop of `retryDoer.Do`, `Conclude`, `GiveUp` and `Unwind` the ends of
the method. `CallersPolicy` stands for a `RetryPolicy` that a caller has
written: its `Retry` says what it likes, also to errors.

**JsOperations** has a record for each method of `gen-js/index.js`, read off the
method itself, and `Settlement`, the switch at its end.

**JsClient** is the life of its calls. `Call` is a method up to its first
`requestOnce`: rejected by hystrixjs (`Reject`), declined for a path parameter
(`Decline`) or sent (`Execute`). `Callback` is the callback given to `request`,
which retries or settles; `RequestAgain` the timer; `Resolve` the settled
promise, with `applyCallback` behind it. `running` is hystrixjs's count of
executions, which a call leaves when its promise is settled. The circuit is
forced closed, as it is by default, so the count is all that hystrixjs decides
by. A request may fail at any time, with its response on the way or with the
service still to take it up.

**ApiCall** is the abstract specification: a call is carried out at most as
often as it may be, "done" means that it was, "rejected" that it was not (by
the one attempt of an operation that is never retried), and "unknown" that it
may have been or may still be. Both clients implement it. In JavaScript a policy
of the caller's own may retry an error, and then the earlier attempt may still
be under way: whatever such a call returns counts as "unknown".

## 3. Runs

| Run | Instance | Shows |
|---|---|---|
| `rate_limiter` | 3 calls, a token every 2 ticks, burst 1, contexts of 3 ticks or without end | the rate is kept in every window (`WindowBound`, `RateKept`), each request has its own token (`OwnToken`), nobody overtakes (`NoOvertaking`), nobody sleeps past its deadline (`DueInTime`) |
| `digest_session` | 1 request, up to 5 sends, 2 targets, 4 kinds of challenge (with a nonce, without one, with an unknown algorithm, none at all), 4 offers of `qop`, with and without `-sess` | no nonce is used twice with the same count (`FreshCredentials`), one effect per `Execute` (`OncePerExecution`), whole bodies (`WholeBody`), one response to close (`OneToClose`), a credential that is sent, the first or a later one, answers the challenge as it was sent, for the very request it goes with, if the offer is one the code understands (`AnswersChallenge`), the nonce stays (`NonceKept`) |
| `one_call` | 1 call, every operation, every policy, challenges that are usable, unsupported or missing | `AtMostOnce`, `OncePerAttempt`, `WholeBody`, `NothingLeftOpen`, `TwoSendsPerToken`, its types (`ClientTypeOK`), `NoNewTurnAfterDeadline` (once its context is done a call reserves nothing, and sends only the round trip it was let through for), that it returns (`Returns`), and that `AtlasClient` implements `ApiCall` |
| `js_client` | 2 calls of the JavaScript client with one execution between them, one of every operation and policy | the limit on concurrent calls (`WithinLimit`), the same parameters and, of bodies that decode, the same answer as the Go client's for each operation and status (`SameAsGo`), that every call ends and its callback is called (`Informed`), and that `JsClient` implements `ApiCall` |
| `circuit` | 2 calls in either mode, 1 ticket, a circuit that one failure in two opens | debug mode returns what came, whatever hystrix does (`PassesOn`); without it, unless its timer has fired, a call was turned away unsent, or sent once and returns what came, 5XXs aside (`NoRaceInTime`); the limit (`LimitKept`); that every call returns (`CallsReturn`) |
| `circuit_log` | 2 circuits, a line at least every 2 seconds, 2 events held up | no change that is seen is missed (`LogShowsState`), of `LogFrequency + Buffer` events received of a circuit one is logged (`NotSilent`) |
| `request_modified` | 1 call | the code modifies the request it is given |
| `sent_late` | 1 call | a challenge that comes after the timeout of the call is answered with a second request |
| `sent_unpaid` | 1 call | one token, two requests |
| `error_retried` | 1 call | a policy that retries an error ends in a panic |
| `callback_twice` | 2 calls in JavaScript | a callback that throws on its result is called again with an error |
| `opaque_5xx` | 1 call in either mode | without debug a 5XX is an error of no documented type, beside a response nobody closes |

**Bounds.** `MaxClock`, `MaxLog` and `MaxDebt` bound the history of
`rate_limiter`: three reservations in four ticks are enough for one to be
cancelled between two others and its token to be earned again, which is where
the refund matters. `MaxSends` bounds the requests of `digest_session`: two full
handshakes and a reuse. `AtlasClient` needs no bound: every call is made once,
and its retries are bounded by its policy. One call covers every operation since
calls share only the bucket, which three calls exercise in `rate_limiter`; that the
composed client keeps its promises for any number of calls is proved. A challenge
without a nonce is left to `digest_session`: to a `DigestTransport` it is like any
other.
Where a cfg turns deadlock off, a bound, not the code, ends the behaviour, or,
in `digest_session`, a panic does. `AtlasClient` never deadlocks since time
passes; `JsClient` stops when its calls are done. Two calls and one execution
are enough for `js_client`: a call is turned away, or let in when the other's
promise is settled. Two calls and one ticket are enough for `circuit`: one holds
the ticket, opens or closes the circuit or times out while the other asks,
and the theorems below hold for any number. Calls are made once, so `circuit`
stops when they are done. Two circuits in `circuit_log` have events of their own
in one stream, two events make a backlog, and the count of seconds stops one past
`LogFrequency`, from where on it makes no difference.

**Fairness** (`FairSpec`, needed by `Returns` and `Informed` only): weak fairness of each
call's steps and of time. The Go scheduler runs every goroutine; timers fire; an
exchange ends with its response or with the 30 seconds of its `http.Client`,
which is why `Fail` may be assumed to happen. In JavaScript the event loop runs every task, and the
timeout given to `request` ends it. Nothing is assumed of the service.
`CircuitFairness`, for `CallsReturn`, is weak fairness of each caller and each
command: goroutines run, and what a call is passed on to returns some time, which
is `Returns`; no timer has to fire. `sent_late` assumes what `Returns` does.
`CircuitLog` states no liveness: whether a stream that broke ends or is restored is up
to the library that reads it, since the loop never reads the errors it reports and
closes nothing, and the code justifies no fairness that would bring it back.

**Disagreements.** The six runs that end in a violation state what a comment says
and TLC refutes it; `PROJECT.json` quotes the comments. `request_modified`,
`sent_late` and `sent_unpaid` come from the digest round tripper, which shares the
header of its caller's request, not its context, and sends twice; `sent_late` starts
every call with a timeout and cancels none, so that only time can end it.
`error_retried`, `opaque_5xx` and `callback_twice` come from what a retry, the circuit
and a callback make of an error.

Each property of a passing run has a mutant: an operator marked as such, next to
the definition it would replace, that makes a plausible mistake. TLC finds the
property violated with it.

## 4. Proofs

The theorems hold for every number of calls, all positive rates and bursts, any
contexts, any settings of a circuit, any limit on executions, and whatever the
service answers with. The assumptions are those the modules state of their
constants: a rate and a burst that are positive, deadlines that are numbers or
none (`LimiterAssumption`), challenges of the known kinds
(`ChallengesAssumption`), statuses in the range of HTTP (`FailingAssumption`,
`JsFailingAssumption`, `StatusesAssumption`), requests for the operations there
are. Every safety property and every action property of the passing runs is
proved, `AnswersChallenge` for builds with `~QopFirst`, and so are both
implementations of `ApiCall`. TLC has checked each
inductive invariant on the instance of its run before it was proved.

*Rate limiter.* `WindowBound` is not inductive: a cancelled reservation gives
credit back, less what was reserved behind it, and only the order in which the
log was made says that this is enough. The invariant `HistoryInv` records, for
each reservation, the credit spent up to it and the bucket's `Base`, the instant
from which all credit, had none been lost by overflow, has been spent; `Base`
never decreases. `Earned` ties a due to both, `Ordered` says that reservations
are made one after the other on credit of their own, `Scheduled` ties the
countdowns of those who wait to the bucket. It gives `LimiterTypeCorrect`,
`RateLimitKept` (`WindowBound`), `TokensOwned` (`OwnToken`), `TurnsKept`
(`NoOvertaking`) and `DeadlinesKept` (`DueInTime`). `RateKeptAlways` (`RateKept`)
goes from credit to a count of requests: the reservations of a window own
disjoint stretches of credit, so that dividing what was spent by `Period` numbers
them without repetition (`Quotients`, `Spaced`), and the window has a first and a
last of them (`Least`, from the well-foundedness of the naturals; the library's
induction cannot be used here). The limiter's steps are proved under the history,
which records them and guards none.

*Client.* The reason that nothing is carried out twice is `Budget`: as long as
the present attempt may still be carried out (`Open`), it has not been. That
needs `OneOut`, by which the service holds at most one request of a call and
none once its response is on the way, and `Rests`, by which nothing is left on
the wire between attempts: only an answered attempt is retried, never one that
failed, of which a request may still be out. `CarriedOutOnce`
(`AtMostOnce`), `AttemptsKept` (`OncePerAttempt`), `BodiesWhole` (`WholeBody`) and
`TokensPay` (`TwoSendsPerToken`) follow. The service's reply is correlated with its
request by position: a response reaches only the exchange that sent its request,
as HTTP has it. `LimiterInside` says that the limiter in the client takes the
steps of `RateLimiter`, and no others.

*What a method returns.* `ApiInv` adds, on top of `ClientInv`, what a response is
worth on its way to the caller. `Truthful`: below 300 it follows the effect it
reports, and between 300 and 499 the attempt it answers has had none. `Closed`: a
method that says "success" or "failure" leaves nothing on the wire, so that no
effect comes later. `OpenOne` and `Ended` count the bodies to close, `Turned` ties a round
trip to its token, `Bounded` the retries to the policy. `Implementation`
(`ImplementsApiCall`) maps each step of `AtlasClient` to a step of `ApiCall` or a
stutter: `Start` to a call made or declined, the service carrying a request out to an
effect within the limit, `Conclude`, `GiveUp` and `Unwind` to the answer the
switch of `Classify` gives. `ClientTypeCorrect`, `AllClosed` (`NothingLeftOpen`) and
`DeadlineStops` (`NoNewTurnAfterDeadline`) follow too; the latter needs the
limiter to refuse a context that is done, and the round trip to wait for its
grant. It does not say that nothing is sent after the deadline: a call that was let
through sends both requests of its handshake, as `sent_late` shows.

*Handshake.* `OncePerExecution` counts what has been done, but a request may be
taken up long after its sender has given up. `Budget` of `SessionInv` counts
everything that may still become an effect: what is done, what is on the wire, and
the answer that a challenged probe still owes; no step makes more of it than
`Execute` adds. Credentials are fresh because challenges name what they
challenge (`Numbered`, a nonce of its own for each request) and because the one
that is kept has the highest count of its nonce in the header that all executions share
(`Latest`). `Freshness`, `Once`, `BodiesWhole`, `Closing`, `NonceStays` and
`TypeCorrect` follow.

*Credentials.* `DigestCredential` implements `DigestSession` (`Refinement`), so
these theorems hold of it. `CredentialInv` says of the authorization last made
which challenge it was made for and that it is the one of the last header value:
`newAuthorization` and `refreshAuthorization` are shown, as pure operators, to
make what `Expected` asks of the target in force. `Answering`
(`AnswersChallenge`) follows for all algorithms and targets and for every offer
that the code understands (`Understood`): `auth-int`, `auth` alone, or nothing, which
is answered as `auth`. It assumes a build that reads the `qop` last (`~QopFirst`),
and is about first and refreshed credentials alike; in the other builds Go allows,
the first credential for a nonce is computed with an empty `qop`.

*JavaScript client.* `JsInv` counts attempts as `SessionInv` counts executions
(`Budget`), with the difference that a timer may owe the next one; `Counted` says
that the command's count is the number of calls between their admission and the
settling of their promise, from which `LimitKept` (`WithinLimit`) follows.
`ClientsAgree` (`SameAsGo`) is first a comparison of the 33 operations one by one
(`SameOperations`), then of the two switches for any status (`SwitchesAgree`).
`Implementation` is the refinement of `ApiCall`: `Current` says that an earlier
attempt is still under way only if a caller's policy has retried an error, and in
that case the answer counts as "unknown". `JsTypeCorrect` is the type invariant.

*Circuit breaker.* What a call returns is decided in two goroutines, so the
invariant `BreakerInv` says of each call how far both have come: `Commanded` what
the command has done and told (`done`, `fault`, the response), `Passing` the
same of debug mode, and `Agreed` that, as long as the timer has not fired, the
answer of hystrix is the one the closure has assigned, and the closure is through
before the answer is read. `TicketsKept` counts: every ticket is in the pool or
with a command that nobody has ended, so that the number of calls passed on is
bounded and no ticket is given back twice. Steps of one call leave the others
alone (`Untouched`). `CircuitTypeCorrect`, `DebugPassesOn`, `InTimeNoRace`
(which leaves out what a 5XX becomes, the matter of `opaque_5xx`) and
`ConcurrencyLimited` follow.

*Circuit log.* `NotSilent` counts events and the code counts time; `Spaced` ties
them: hystrix publishes once a second, so the events received since the last line and
those still on their way are fewer than the seconds since that line and a full
buffer. That holds however long the loop stalls and however fast it catches up, since
a stall uses up seconds and catching up only moves events from one count to the
other. `LogTypeCorrect`, `ChangesLogged` and `NeverSilent` follow.

Only model-checked: liveness (`Returns`, `Informed`, `CallsReturn`),
since the provers at hand reason neither about fairness nor about ENABLED; and the
six statements that TLC refutes, which are not theorems. No model needs a
recursive definition.

## 5. Not modelled

* hystrix-go, the http transport and the reader of server-sent events are
  external: redirects, connections and the retries of idempotent requests inside
  `http.Transport` are left out (an exchange is one request and one response or
  an error). Two clients of one address share a circuit and its settings;
  `CircuitBreaker` has one set of settings.
* The composition of `CircuitBreaker` without debug with `AtlasClient`: a call
  would then outlive its caller. With debug, the default, `PassesOn` is the reason
  why `AtlasClient` may leave the circuit out.
* The length of the sleeps between attempts: a sleep ends some time.
* In credentials, the texts of realm, opaque, domain and charset, which are
  passed through; requests whose URL cannot be parsed. The session key of a
  `-sess` algorithm is recomputed with each client nonce, where RFC 2617 has it
  computed once; `Expected` follows the code. That a challenge asks for a hashed user
  name the parser never sees (`newWwwAuthenticate`), so no property asks for it.
* Bodies beyond being whole. `Validate` of inputs and models and the JSON of the
  models: generated, and the client calls no validation.
* Tracing: headers that are set anew for each attempt. Logging, with the one
  choice of logger of the circuit log, which is that of the first client.
  Discovery, which reads the environment, and the setters, which assign a field
  each. The interface and its mock.
* In JavaScript: a circuit that is not forced closed, tracing, logging,
  discovery, and the redirects and connections of the `request` library.

## 6. Plan

Modelled, in this order: the limiter and the handshake, which are this
repository's own code, the client composed of them, its JavaScript counterpart,
the circuit breaker and its log, the credentials. Proved: every safety and action
property of the runs, that `DigestCredential` implements `DigestSession`, that
both clients implement `ApiCall`, and that the client's limiter is `RateLimiter`.
What would say more, in this order:

1. An abstract specification of `circuitBreakerDoer.Do`, a call that returns what
   came or says why not, and the proof that `CircuitBreaker` implements it while
   no timer fires; with `PassesOn` it would stand for the circuit in `AtlasClient`.
2. The safety half of the liveness properties: that a call under way always has a
   step to take, as an invariant (`Returns` and `CallsReturn` rest on it).
3. A limiter that says how late a grant may be, so that the time a call takes, and
   not only that it ends, can be stated.
