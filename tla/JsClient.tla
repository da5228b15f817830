------------------------------ MODULE JsClient ------------------------------
(***************************************************************************)
(* The JavaScript client, gen-js/index.js: methods that go through the     *)
(* hystrixjs command of their client, which is forced closed and limits    *)
(* how many of them run at once, that retry in the callback of the request *)
(* library, and whose promise is handed to a callback of the caller.       *)
(*                                                                         *)
(* Everything but the network runs in one thread, so each action is one    *)
(* task of the event loop.                                                 *)
(***************************************************************************)
EXTENDS JsOperations, Sequences, FiniteSets

CONSTANTS
  Calls,         \* calls of the client's methods, each made once
  MaxConcurrent, \* circuitOptions.maxConcurrentRequests
  Failing,       \* the statuses with which the service fails
  Requests       \* Requests[c]: what c may ask for: an operation, its path
                 \*   parameters that are falsy, a retry policy, and what the
                 \*   callback does with a result, if there is one

VARIABLES
  stage,    \* stage[c]: where c stands
  request,  \* request[c]: what c asks for
  retries,  \* retries[c]: how often c has been retried
  running,  \* the command's count of executions
  wire,     \* wire[c]: the attempts of c that the service has not taken up
  reply,    \* reply[c]: the status that is on its way to the current attempt
  outcome,  \* outcome[c]: how c's promise was settled
  told,     \* told[c]: what c's callback was called with
  handled   \* handled[c]: how often the service has carried c out

vars == <<stage, request, retries, running, wire, reply, outcome, told, handled>>

\* The backoffs of each policy.  CallersPolicy is one a caller has written, of one
\* backoff; its retry may say what it likes.
Backoffs ==
  [none |-> 0, single |-> 1, exponential |-> 5, CallersPolicy |-> 1]

ASSUME JsLimitAssumption == MaxConcurrent \in Nat \ {0}
ASSUME JsFailingAssumption == Failing \subseteq 100..599
ASSUME JsRequestsAssumption ==
  Requests \in [Calls -> SUBSET
    [op : JsOperations, empty : SUBSET UNION {op.params : op \in JsOperations},
     policy : DOMAIN Backoffs, callback : {"none", "returns", "throws"}]]

\* In the place of a status: none yet, or an error of the request library.
Nothing == 0

Outcome(kind, status) == [kind |-> kind, status |-> status]
Pending == Outcome("pending", Nothing)

NoRequest ==
  [op |-> [method |-> "none", success |-> Nothing], empty |-> {},
   policy |-> "none", callback |-> "none"]

JsTypeOK ==
  /\ stage \in [Calls -> {"new", "attempt", "backoff", "settled", "refused", "done"}]
  /\ \A c \in Calls : request[c] \in Requests[c] \cup {NoRequest}
  /\ \A c \in Calls : retries[c] \in 0..Backoffs[request[c].policy]
  /\ running = Cardinality({c \in Calls : stage[c] \in {"attempt", "backoff", "settled"}})
  /\ \A c \in Calls : wire[c] \subseteq 0..retries[c]
  /\ reply \in [Calls -> Nat]
  /\ outcome \in [Calls -> [kind : {"pending", "success", "failure", "unknown",
                                    "error", "declined"}, status : Nat]]
  /\ \A c \in Calls : told[c] \in Seq({"result", "error"})
  /\ handled \in [Calls -> Nat]

Init ==
  /\ stage = [c \in Calls |-> "new"]
  /\ request = [c \in Calls |-> NoRequest]
  /\ retries = [c \in Calls |-> 0]
  /\ running = 0
  /\ wire = [c \in Calls |-> {}]
  /\ reply = [c \in Calls |-> Nothing]
  /\ outcome = [c \in Calls |-> Pending]
  /\ told = [c \in Calls |-> <<>>]
  /\ handled = [c \in Calls |-> 0]

(***************************************************************************)
(* A method, as far as hystrixjs lets it run.                              *)
(***************************************************************************)
\* The command has as many executions as it may: CommandRejected.
Reject(c) ==
  /\ running >= MaxConcurrent
  /\ stage' = [stage EXCEPT ![c] = "refused"]
  /\ outcome' = [outcome EXCEPT ![c] = Outcome("declined", Nothing)]
  /\ UNCHANGED <<running, wire>>

\* A path parameter is falsy; the command counts the execution all the same,
\* until its promise is settled.
Decline(c, r) ==
  /\ running < MaxConcurrent
  /\ r.empty # {}
  /\ running' = running + 1
  /\ stage' = [stage EXCEPT ![c] = "settled"]
  /\ outcome' = [outcome EXCEPT ![c] = Outcome("declined", Nothing)]
  /\ UNCHANGED wire

\* Mutant of Execute: the command is not asked.
ExecuteUnlimited(c, r) ==
  /\ r.empty = {}
  /\ running' = running + 1
  /\ stage' = [stage EXCEPT ![c] = "attempt"]
  /\ wire' = [wire EXCEPT ![c] = {0}]
  /\ UNCHANGED outcome

\* The first requestOnce.
Execute(c, r) ==
  /\ running < MaxConcurrent
  /\ r.empty = {}
  /\ running' = running + 1
  /\ stage' = [stage EXCEPT ![c] = "attempt"]
  /\ wire' = [wire EXCEPT ![c] = {0}]
  /\ UNCHANGED outcome

Call(c) ==
  /\ stage[c] = "new"
  /\ \E r \in Requests[c] :
       /\ r.empty \subseteq r.op.params
       /\ request' = [request EXCEPT ![c] = r]
       /\ Reject(c) \/ Decline(c, r) \/ Execute(c, r)
  /\ UNCHANGED <<retries, reply, told, handled>>

(***************************************************************************)
(* requestOnce and its callback, called with an error or a response.       *)
(***************************************************************************)
\* Mutant of Retryable: any method is retried.
RetryableByAnyMethod(r, status) == status >= 500

\* retry of singleRetryPolicy and exponentialRetryPolicy: never after an error.
Retryable(r, status) ==
  r.op.method \notin {"POST", "PATCH"} /\ status # Nothing /\ status >= 500

\* What the policy's retry may say.
Verdicts(c, status) ==
  IF request[c].policy = "CallersPolicy" THEN BOOLEAN
  ELSE {Retryable(request[c], status)}

\* Mutant of RetriesLeft: one backoff too many.
RetriesLeftOver(c) == retries[c] <= Backoffs[request[c].policy]

RetriesLeft(c) == retries[c] < Backoffs[request[c].policy]

Retry(c, status) ==
  /\ RetriesLeft(c) /\ TRUE \in Verdicts(c, status)
  /\ stage' = [stage EXCEPT ![c] = "backoff"]
  /\ retries' = [retries EXCEPT ![c] = @ + 1]
  /\ UNCHANGED outcome

\* The promise is settled by the error, or by the switch on the status.
Settle(c, status) ==
  /\ RetriesLeft(c) => FALSE \in Verdicts(c, status)
  /\ stage' = [stage EXCEPT ![c] = "settled"]
  /\ outcome' = [outcome EXCEPT ![c] =
       Outcome(IF status = Nothing THEN "error" ELSE Settlement(request[c].op, status),
               status)]
  /\ UNCHANGED retries

\* The response arrives, or the request fails, by a timeout for example, whether
\* or not there is a response on its way.
Callback(c) ==
  /\ stage[c] = "attempt"
  /\ \E status \in {Nothing, reply[c]} : Retry(c, status) \/ Settle(c, status)
  /\ reply' = [reply EXCEPT ![c] = Nothing]
  /\ UNCHANGED <<request, running, wire, told, handled>>

\* setTimeout calls requestOnce again.
RequestAgain(c) ==
  /\ stage[c] = "backoff"
  /\ stage' = [stage EXCEPT ![c] = "attempt"]
  /\ wire' = [wire EXCEPT ![c] = @ \cup {retries[c]}]
  /\ UNCHANGED <<request, retries, running, reply, outcome, told, handled>>

(***************************************************************************)
(* The promise.                                                            *)
(***************************************************************************)
\* Mutant of Told: only results are passed on.
ToldResults(c) == IF outcome[c].kind = "success" THEN <<"result">> ELSE <<>>

\* applyCallback: an exception of the callback in then ends up in catch.
Told(c) ==
  CASE request[c].callback = "none" -> <<>>
    [] request[c].callback # "none" /\ outcome[c].kind # "success" -> <<"error">>
    [] request[c].callback = "returns" /\ outcome[c].kind = "success" -> <<"result">>
    [] request[c].callback = "throws" /\ outcome[c].kind = "success" -> <<"result", "error">>

\* The command's promise is settled, with the execution no longer counted, and
\* what applyCallback has attached to it runs.
Resolve(c) ==
  /\ stage[c] \in {"settled", "refused"}
  /\ running' = IF stage[c] = "settled" THEN running - 1 ELSE running
  /\ stage' = [stage EXCEPT ![c] = "done"]
  /\ told' = [told EXCEPT ![c] = Told(c)]
  /\ UNCHANGED <<request, retries, wire, reply, outcome, handled>>

(***************************************************************************)
(* The service: it takes a request up at any time, also when nobody waits  *)
(* any more.  It carries out what it reports as done and nothing that it   *)
(* rejects; when it breaks down it may have done either.                   *)
(***************************************************************************)
Effects(status) ==
  CASE status < 300 -> {1} [] status \in 300..499 -> {0} [] status >= 500 -> {0, 1}

Service(c) ==
  \E n \in wire[c], status \in Failing \cup {request[c].op.success} :
    /\ wire' = [wire EXCEPT ![c] = @ \ {n}]
    /\ \E e \in Effects(status) : handled' = [handled EXCEPT ![c] = @ + e]
    /\ reply' = IF n = retries[c] /\ stage[c] = "attempt"
                THEN [reply EXCEPT ![c] = status] ELSE reply
    /\ UNCHANGED <<stage, request, retries, running, outcome, told>>

JsStep(c) == Callback(c) \/ RequestAgain(c) \/ Resolve(c)

\* The program may stop when every call is done.
Next == \E c \in Calls : Call(c) \/ JsStep(c) \/ Service(c)

Spec == Init /\ [][Next]_vars

\* The event loop runs every task, and the timeout of a request ends it; the
\* service owes nothing, and nobody has to call.
FairSpec == Spec /\ \A c \in Calls : WF_vars(JsStep(c))

(***************************************************************************)
(* Properties.                                                             *)
(***************************************************************************)
\* The client runs at most maxConcurrentRequests calls at once, those that wait
\* between two attempts included (index.js:156).
WithinLimit ==
  Cardinality({c \in Calls : stage[c] \in {"attempt", "backoff"}}) <= MaxConcurrent

\* Every call that is made ends, and whoever gave it a callback is called,
\* whether it was carried out, failed, was declined, or not let through
\* (index.js:102-111).
Informed ==
  \A c \in Calls : stage[c] # "new" ~>
    /\ stage[c] = "done"
    /\ request[c].callback # "none" => told[c] # <<>>

Go == INSTANCE WagOperations

\* The two clients of this repository tell their callers the same: what is a
\* success, a failure with a type of its own, or neither, for each operation and
\* each status; and both send it with the same method, path and query parameters.
\* A port of 0, which only this client declines, is not told apart.
\* Compared are responses whose body decodes: of a body that does not, the request
\* package hands this client the text, and it resolves a 200 for which the Go client
\* returns an error.
SameAsGo ==
  \A c \in Calls : outcome[c].kind \in {"success", "failure", "unknown"} =>
    \E op \in Go!Operations :
      /\ op.name = request[c].op.name
      /\ op.method = request[c].op.method
      /\ op.params = request[c].op.params \ {"port"}
      /\ op.query = request[c].op.query
      /\ Go!Classify(op, outcome[c].status, TRUE).kind = outcome[c].kind

(***************************************************************************)
(* The client implements ApiCall.                                          *)
(***************************************************************************)
Asked(c) == stage[c] # "new" /\ outcome[c].kind # "declined"

OnceOnly(r) == r.op.method \in {"POST", "PATCH"} /\ r.policy # "CallersPolicy"

\* A policy of the caller's own may retry a request that failed and is still on
\* its way: then no answer settles what will become of it.
Unsettled(c) == request[c].policy = "CallersPolicy" /\ retries[c] > 0

Answer(c) ==
  CASE outcome[c].kind = "pending"  -> "pending"
    [] outcome[c].kind = "declined" -> "declined"
    [] outcome[c].kind = "success" /\ ~Unsettled(c) -> "done"
    [] outcome[c].kind = "failure" /\ outcome[c].status < 500 /\ ~Unsettled(c) -> "rejected"
    [] OTHER -> "unknown"

Api == INSTANCE ApiCall WITH
  Limits  <- {Backoffs[policy] + 1 : policy \in DOMAIN Backoffs},
  limit   <- [c \in Calls |->
                IF ~Asked(c) THEN 0
                ELSE IF OnceOnly(request[c]) THEN 1
                ELSE Backoffs[request[c].policy] + 1],
  effects <- handled,
  answer  <- [c \in Calls |-> Answer(c)]

\* What a caller may conclude from what a method's promise is settled with
\* (index.js:318-403), with calls answered late, retried or turned away.
ImplementsApiCall == Api!Spec

(***************************************************************************)
(* A statement of the code's documentation.                                *)
(***************************************************************************)
\* applyCallback uses the callback to handle the resolution or the rejection of
\* the promise (index.js:96-101): a callback is called once.
CalledBackOnce == \A c \in Calls : Len(told[c]) <= 1

=============================================================================
